---------------------------- MODULE SessionProof ----------------------------
(***************************************************************************)
(* Proofs about Session: as long as answers reach an activity that is in   *)
(* front, and whenever those to posts come, the screens on the back stack  *)
(* fit the user who is signed in, and nobody writes a post without a       *)
(* profile or a check of it under way, for any number of accounts, any     *)
(* depth of the stack and any number of calls.                             *)
(*                                                                         *)
(* Everything an activity or a handler does ends in Start, most of it in   *)
(* Create.  The invariant is therefore a predicate on a stack, a bag of    *)
(* calls, a user, the profiles and the history (Fits), together with what  *)
(* Start needs to establish it (Ready), and the proof is one lemma on      *)
(* Start, one on Create, and one step for each action.                     *)
(***************************************************************************)
EXTENDS Session, SequenceTheorems, TLAPS

(* The calls, wherever their owners are.                                   *)
AnyCall == [op : Operations, owner : Nat, uid : Uids,
            phase : {"sent", "ok", "missing", "failed"}]

(* The screen a call is made from.                                         *)
MadeFrom(op, kind) ==
    <<op, kind>> \in {<<"signIn", "Login">>, <<"create", "Signin">>, <<"reset", "Find">>,
                     <<"delete", "Profile">>, <<"store", "Setup">>, <<"post", "NewPost">>,
                     <<"check", "Home">>}

(* An owner is an activity that makes such calls.                          *)
Owned(stk, cs) ==
    \A c \in DOMAIN cs :
        /\ c \in AnyCall /\ c.owner <= Len(stk)
        /\ c.owner # 0 => MadeFrom(c.op, stk[c.owner].kind)

(* A listener that belongs to its activity is gone or in front.            *)
Heard(stk, cs) ==
    \A c \in DOMAIN cs : c.op \in Scoped => c.owner \in {0, Len(stk)}

(* Over a screen that keeps a uid there is only the feed of a post that    *)
(* was acknowledged late, and what the feed opens.                         *)
OverFeed == {"Home", "NewPost", "Comments"}

Over(stk) ==
    \A i, j \in DOMAIN stk : i < j /\ stk[i].kind \in KeepUid => stk[j].kind \in OverFeed

NoUids(stk) == \A i \in DOMAIN stk : stk[i].kind \notin KeepUid

(* LoginActivity is left by finishing it.                                  *)
NoLogin(stk, n) == \A i \in DOMAIN stk : i <= n => stk[i].kind # "Login"

(* A signed-in user is what screens that keep a uid, and handlers of a     *)
(* successful login still to run, find.                                    *)
Kept(stk, u) ==
    \A i \in DOMAIN stk : stk[i].kind \in KeepUid => stk[i].uid = u /\ u # NoUser

SignedIn(cs, u) ==
    \A c \in DOMAIN cs : c.op \in Scoped /\ c.phase = "ok" /\ c.owner # 0 => u # NoUser

Awaited(cs) == \E c \in DOMAIN cs : c.op \in Scoped /\ c.phase = "ok"

AtLogin(stk, cs, u) ==
    stk # <<>> /\ stk[Len(stk)].kind = "Login" /\ u # NoUser => Awaited(cs)

(* Who logs in is an account, and a profile that was found is still there. *)
Known(cs, pr) ==
    \A c \in DOMAIN cs :
        /\ c.op \in Scoped => c.uid # NoUser
        /\ c.op = "check" /\ c.phase = "ok" => c.uid \in pr

NoneFailed(cs) == \A c \in DOMAIN cs : c.op = "check" => c.phase # "failed"

CheckedFor(cs, u) == \E c \in DOMAIN cs : c.op = "check" /\ c.uid = u

(* Posts are only written by one with a profile, or with a check of it     *)
(* under way; and so is the feed only in front of such a one.              *)
Posters(stk, cs, u, pr) ==
    \A i \in DOMAIN stk : stk[i].kind = "NewPost" /\ u \notin pr => CheckedFor(cs, u)

AtHome(stk, cs, u, pr) ==
    stk # <<>> /\ stk[Len(stk)].kind = "Home" /\ u \notin pr => CheckedFor(cs, u)

(* What holds of a stack before its top starts.                            *)
Ready(stk, cs, u, pr, h) ==
    /\ stk \in Seq(Activities) /\ u \in Uids
    /\ Owned(stk, cs)
    /\ Known(cs, pr)
    /\ "late" \notin h =>
          /\ Over(stk) /\ Kept(stk, u) /\ SignedIn(cs, u)
          /\ "bypassed" \notin h => NoLogin(stk, Len(stk) - 1) /\ AtLogin(stk, cs, u)
          /\ "unchecked" \notin h => NoneFailed(cs) /\ Posters(stk, cs, u, pr)

(* The same without the top: what Create puts an activity of kind on.      *)
Covered(stk, kind, cs, u, pr, h) ==
    /\ stk \in Seq(Activities) /\ u \in Uids
    /\ Owned(stk, cs)
    /\ Known(cs, pr)
    /\ "late" \notin h =>
          /\ Over(stk) /\ Kept(stk, u) /\ SignedIn(cs, u)
          /\ kind \notin OverFeed => NoUids(stk)
          /\ "bypassed" \notin h => NoLogin(stk, Len(stk))
          /\ "unchecked" \notin h => NoneFailed(cs) /\ Posters(stk, cs, u, pr)

(* What holds after it: the top has started.                               *)
Fits(stk, cs, u, pr, h) ==
    /\ Ready(stk, cs, u, pr, h)
    /\ Heard(stk, cs)
    /\ "late" \notin h =>
          /\ stk # <<>> /\ stk[Len(stk)].kind = "Home" => u # NoUser
          /\ "unchecked" \notin h => AtHome(stk, cs, u, pr)

CrashOK == "late" \notin history => crashed \in {"no", "Profile", "Delete"}

IInv == Fits(stack, calls, user, profiles, history) /\ CrashOK

-----------------------------------------------------------------------------
(* Calls: what happens to them when activities come and go.                *)

Shifted(c, i) ==
    IF c.owner = i THEN [c EXCEPT !.owner = 0]
    ELSE IF c.owner > i THEN [c EXCEPT !.owner = @ - 1] ELSE c

Silent(c, top) ==
    IF c.op \in Scoped /\ c.owner # top THEN [c EXCEPT !.owner = 0] ELSE c

(* d is what has become of c.                                              *)
Like(c, d) ==
    /\ d.op = c.op /\ d.uid = c.uid /\ d.phase = c.phase
    /\ d.owner # 0 => c.owner # 0

SameCalls(cs, ds) ==
    /\ \A d \in DOMAIN ds : \E c \in DOMAIN cs : Like(c, d)
    /\ \A c \in DOMAIN cs : \E d \in DOMAIN ds : Like(c, d)

(* The calls there are after an activity is finished, an activity is left, *)
(* a call is made and a handler has run.                                   *)
LEMMA FinishedDomain ==
    ASSUME NEW cs, NEW i
    PROVE  DOMAIN Finished(cs, i) = {Shifted(c, i) : c \in DOMAIN cs}
  BY DEF Finished, BagOfAll, BagToSet, Shifted

(* Which calls there are after the scoped listeners were removed.          *)
LEMMA DeafenedDomain ==
    ASSUME NEW cs, NEW top
    PROVE  DOMAIN Deafened(cs, top) = {Silent(c, top) : c \in DOMAIN cs}
  BY DEF Deafened, BagOfAll, BagToSet, Silent

(* Which calls there are after one is sent.                                *)
LEMMA AddDomain ==
    ASSUME NEW cs, NEW c
    PROVE  DOMAIN BagAdd(cs, c) = DOMAIN cs \cup {c}
  BY DEF BagAdd

(* Which calls there are after one has ended.                              *)
LEMMA RemoveDomain ==
    ASSUME NEW cs, NEW c
    PROVE  /\ DOMAIN BagRemove(cs, c) \subseteq DOMAIN cs
           /\ DOMAIN cs \ {c} \subseteq DOMAIN BagRemove(cs, c)
  BY DEF BagRemove

(* A call whose owner moves is the same call.                              *)
LEMMA ShiftedCall ==
    ASSUME NEW c \in AnyCall, NEW i \in Nat \ {0}
    PROVE  /\ Shifted(c, i) \in AnyCall
           /\ Like(c, Shifted(c, i))
           /\ Shifted(c, i).owner = IF c.owner = i THEN 0
                                    ELSE IF c.owner > i THEN c.owner - 1 ELSE c.owner
  BY DEF Shifted, AnyCall, Like

(* A call without its listener is still the same call.                     *)
LEMMA SilentCall ==
    ASSUME NEW c \in AnyCall, NEW top \in Nat
    PROVE  /\ Silent(c, top) \in AnyCall
           /\ Like(c, Silent(c, top))
           /\ Silent(c, top).owner \in {0, c.owner}
           /\ c.op \in Scoped => Silent(c, top).owner \in {0, top}
  BY DEF Silent, AnyCall, Like

(* What is said of the calls is true of what has become of them.           *)
LEMMA SameCallsHold ==
    ASSUME NEW cs, NEW ds, SameCalls(cs, ds), NEW u, NEW pr
    PROVE  /\ SignedIn(cs, u) => SignedIn(ds, u)
           /\ Awaited(cs) => Awaited(ds)
           /\ Known(cs, pr) => Known(ds, pr)
           /\ NoneFailed(cs) => NoneFailed(ds)
           /\ CheckedFor(cs, u) => CheckedFor(ds, u)
  BY DEF SameCalls, Like, SignedIn, Awaited, Known, NoneFailed, CheckedFor

(* What is said of all calls is true of fewer.                             *)
LEMMA FewerCallsHold ==
    ASSUME NEW cs, NEW ds, DOMAIN ds \subseteq DOMAIN cs, NEW stk, NEW u, NEW pr
    PROVE  /\ Owned(stk, cs) => Owned(stk, ds)
           /\ Heard(stk, cs) => Heard(stk, ds)
           /\ SignedIn(cs, u) => SignedIn(ds, u)
           /\ Known(cs, pr) => Known(ds, pr)
           /\ NoneFailed(cs) => NoneFailed(ds)
  BY DEF Owned, Heard, SignedIn, Known, NoneFailed

-----------------------------------------------------------------------------
(* The stack.                                                              *)

(* The stack without its i-th activity.                                    *)
LEMMA RemoveAtStack ==
    ASSUME NEW S, NEW s \in Seq(S), NEW i \in 1..Len(s)
    PROVE  /\ RemoveAt(s, i) \in Seq(S)
           /\ Len(RemoveAt(s, i)) = Len(s) - 1
           /\ \A j \in 1..(Len(s) - 1) :
                 RemoveAt(s, i)[j] = IF j < i THEN s[j] ELSE s[j + 1]
  <1> DEFINE a == SubSeq(s, 1, i - 1)
             b == SubSeq(s, i + 1, Len(s))
  <1>1. Len(s) \in Nat /\ \A k \in 1..Len(s) : s[k] \in S  BY ElementOfSeq, LenProperties
  <1>2. /\ a \in Seq(S) /\ Len(a) = i - 1
        /\ \A k \in 1..(i - 1) : a[k] = s[k]
    <2>1. \A k \in 1..(i - 1) : s[k] \in S  BY <1>1
    <2>2. /\ a \in Seq(S) /\ Len(a) = (IF 1 <= i - 1 THEN (i - 1) - 1 + 1 ELSE 0)
          /\ \A k \in 1..((i - 1) - 1 + 1) : a[k] = s[1 + k - 1]
      BY <1>1, <2>1, SubSeqProperties
    <2> QED  BY <1>1, <2>2
  <1>3. /\ b \in Seq(S) /\ Len(b) = Len(s) - i
        /\ \A k \in 1..(Len(s) - i) : b[k] = s[i + k]
    <2>1. \A k \in (i + 1)..Len(s) : s[k] \in S  BY <1>1
    <2>2. /\ b \in Seq(S)
          /\ Len(b) = (IF i + 1 <= Len(s) THEN Len(s) - (i + 1) + 1 ELSE 0)
          /\ \A k \in 1..(Len(s) - (i + 1) + 1) : b[k] = s[(i + 1) + k - 1]
      BY <1>1, <2>1, SubSeqProperties
    <2> QED  BY <1>1, <2>2
  <1>4. /\ a \o b \in Seq(S) /\ Len(a \o b) = Len(a) + Len(b)
        /\ \A k \in 1..(Len(a) + Len(b)) :
              (a \o b)[k] = IF k <= Len(a) THEN a[k] ELSE b[k - Len(a)]
    BY <1>2, <1>3, ConcatProperties
  <1>5. RemoveAt(s, i) = a \o b  BY DEF RemoveAt
  <1> HIDE DEF a, b
  <1>6. Len(a \o b) = Len(s) - 1  BY <1>1, <1>2, <1>3, <1>4
  <1>7. ASSUME NEW j \in 1..(Len(s) - 1)
        PROVE  (a \o b)[j] = IF j < i THEN s[j] ELSE s[j + 1]
    <2>1. j \in 1..(Len(a) + Len(b))  BY <1>1, <1>2, <1>3
    <2>2. CASE j < i
      <3>1. j <= Len(a) /\ j \in 1..(i - 1)  BY <1>1, <1>2, <2>2
      <3> QED  BY <1>2, <1>4, <2>1, <2>2, <3>1
    <2>3. CASE ~(j < i)
      <3>1. /\ ~(j <= Len(a)) /\ j - Len(a) \in 1..(Len(s) - i)
            /\ i + (j - Len(a)) = j + 1
        BY <1>1, <1>2, <2>3
      <3> QED  BY <1>3, <1>4, <2>1, <2>3, <3>1
    <2> QED  BY <2>2, <2>3
  <1> QED  BY <1>4, <1>5, <1>6, <1>7

(* Finishing the activity in front leaves those below it.                  *)
LEMMA BelowStack ==
    ASSUME NEW S, NEW s \in Seq(S), s # <<>>
    PROVE  /\ Len(s) \in Nat \ {0}
           /\ Below(s) \in Seq(S) /\ Len(Below(s)) = Len(s) - 1
           /\ \A j \in 1..(Len(s) - 1) : Below(s)[j] = s[j]
           /\ Below(s) = RemoveAt(s, Len(s))
  <1>1. Len(s) \in Nat \ {0} /\ \A k \in 1..Len(s) : s[k] \in S
    BY ElementOfSeq, LenProperties, EmptySeq
  <1>2. /\ Below(s) \in Seq(S) /\ Len(Below(s)) = Len(s) - 1
        /\ \A j \in 1..(Len(s) - 1) : Below(s)[j] = s[j]
    <2>1. \A k \in 1..(Len(s) - 1) : s[k] \in S  BY <1>1
    <2>2. /\ Below(s) \in Seq(S)
          /\ Len(Below(s)) = (IF 1 <= Len(s) - 1 THEN (Len(s) - 1) - 1 + 1 ELSE 0)
          /\ \A k \in 1..((Len(s) - 1) - 1 + 1) : Below(s)[k] = s[1 + k - 1]
      BY <1>1, <2>1, SubSeqProperties DEF Below
    <2>3. Len(Below(s)) = Len(s) - 1
      <3>1. \A n \in Nat \ {0} : (IF 1 <= n - 1 THEN (n - 1) - 1 + 1 ELSE 0) = n - 1
        OBVIOUS
      <3>2. Len(Below(s)) = (IF 1 <= Len(s) - 1 THEN (Len(s) - 1) - 1 + 1 ELSE 0)
        BY <2>2
      <3>3. Len(s) \in Nat \ {0}  BY <1>1
      <3> QED  BY <3>1, <3>2, <3>3
    <2>4. ASSUME NEW j \in 1..(Len(s) - 1)  PROVE Below(s)[j] = s[j]
      <3>1. j \in 1..((Len(s) - 1) - 1 + 1) /\ 1 + j - 1 = j  BY <1>1
      <3> QED  BY <2>2, <3>1
    <2> QED  BY <2>2, <2>3, <2>4
  <1>3. /\ RemoveAt(s, Len(s)) \in Seq(S) /\ Len(RemoveAt(s, Len(s))) = Len(s) - 1
        /\ \A j \in 1..(Len(s) - 1) : RemoveAt(s, Len(s))[j] = s[j]
    BY <1>1, RemoveAtStack
  <1>4. Below(s) = RemoveAt(s, Len(s))  BY <1>1, <1>2, <1>3, SeqEqual
  <1> QED  BY <1>1, <1>2, <1>4

(* What is left of the stack without its i-th activity, in the same order. *)
LEMMA RemovedStack ==
    ASSUME NEW stk \in Seq(Activities), NEW i \in 1..Len(stk)
    PROVE  /\ \A j \in DOMAIN RemoveAt(stk, i) :
                  \E k \in DOMAIN stk : k # i /\ RemoveAt(stk, i)[j] = stk[k]
           /\ Over(stk) => Over(RemoveAt(stk, i))
  <1> DEFINE new == RemoveAt(stk, i)
             old(j) == IF j < i THEN j ELSE j + 1
  <1>1. /\ Len(stk) \in Nat /\ DOMAIN stk = 1..Len(stk)
        /\ DOMAIN new = 1..(Len(stk) - 1)
        /\ \A j \in 1..(Len(stk) - 1) : new[j] = IF j < i THEN stk[j] ELSE stk[j + 1]
    BY RemoveAtStack, LenProperties
  <1> HIDE DEF new
  <1>2. ASSUME NEW j \in DOMAIN new
        PROVE  old(j) \in DOMAIN stk /\ old(j) # i /\ new[j] = stk[old(j)]
    BY <1>1
  <1>3. ASSUME NEW j \in DOMAIN new, NEW k \in DOMAIN new, j < k
        PROVE  old(j) < old(k)
    BY <1>1, <1>3
  <1> HIDE DEF old
  <1>4. Over(stk) => Over(new)  BY <1>2, <1>3 DEF Over
  <1>5. \A j \in DOMAIN new : \E k \in DOMAIN stk : k # i /\ new[j] = stk[k]
    BY <1>2
  <1> QED  BY <1>4, <1>5 DEF new

(* Under a screen that is none of the feed's, no screen keeps a uid.       *)
LEMMA UnderOthers ==
    ASSUME NEW stk \in Seq(Activities), Over(stk), stk # <<>>,
           stk[Len(stk)].kind \notin OverFeed
    PROVE  \A j \in DOMAIN stk : j # Len(stk) => stk[j].kind \notin KeepUid
  <1>1. Len(stk) \in DOMAIN stk /\ DOMAIN stk = 1..Len(stk) /\ Len(stk) \in Nat
    BY LenProperties, EmptySeq
  <1> QED  BY <1>1 DEF Over

(* When an activity is finished, the owners of the calls move with their   *)
(* activities; its own calls have no owner.                                *)
LEMMA FinishedOwned ==
    ASSUME NEW stk \in Seq(Activities), NEW cs, Owned(stk, cs), NEW i \in 1..Len(stk)
    PROVE  /\ Owned(RemoveAt(stk, i), Finished(cs, i))
           /\ SameCalls(cs, Finished(cs, i))
  <1>1. Len(stk) \in Nat /\ i \in Nat \ {0}  BY LenProperties
  <1>2. \A c \in DOMAIN cs :
          /\ c \in AnyCall /\ c.owner \in Nat /\ c.owner <= Len(stk)
          /\ c.owner # 0 => MadeFrom(c.op, stk[c.owner].kind)
    BY DEF Owned, AnyCall
  <1>3. /\ Len(RemoveAt(stk, i)) = Len(stk) - 1
        /\ \A j \in 1..(Len(stk) - 1) :
              RemoveAt(stk, i)[j] = IF j < i THEN stk[j] ELSE stk[j + 1]
    BY RemoveAtStack
  <1>4. ASSUME NEW c \in DOMAIN cs
        PROVE  LET d == Shifted(c, i) IN
               /\ d \in AnyCall /\ Like(c, d) /\ d.owner <= Len(stk) - 1
               /\ d.owner # 0 => MadeFrom(d.op, RemoveAt(stk, i)[d.owner].kind)
    <2> DEFINE d == Shifted(c, i)
    <2>1. d \in AnyCall /\ Like(c, d) /\ d.op = c.op
      BY <1>1, <1>2, ShiftedCall DEF Like
    <2>2. d.owner = IF c.owner = i THEN 0 ELSE IF c.owner > i THEN c.owner - 1 ELSE c.owner
      BY <1>1, <1>2, ShiftedCall
    <2> HIDE DEF d
    <2>3. d.owner <= Len(stk) - 1  BY <1>1, <1>2, <2>2
    <2>4. ASSUME d.owner # 0
          PROVE  MadeFrom(d.op, RemoveAt(stk, i)[d.owner].kind)
      <3>1. CASE c.owner > i
        <4>1. d.owner = c.owner - 1 /\ d.owner \in 1..(Len(stk) - 1) /\ ~(d.owner < i)
          BY <1>1, <1>2, <2>2, <3>1
        <4>2. RemoveAt(stk, i)[d.owner] = stk[c.owner]  BY <1>1, <1>2, <1>3, <4>1
        <4> QED  BY <1>1, <1>2, <2>1, <3>1, <4>2
      <3>2. CASE c.owner < i
        <4>1. d.owner = c.owner /\ d.owner \in 1..(Len(stk) - 1) /\ d.owner < i
          BY <1>1, <1>2, <2>2, <2>4, <3>2
        <4>2. RemoveAt(stk, i)[d.owner] = stk[c.owner]  BY <1>3, <4>1
        <4> QED  BY <1>2, <2>1, <2>4, <4>1, <4>2
      <3>3. c.owner # i  BY <2>2, <2>4
      <3> QED  BY <1>1, <1>2, <3>1, <3>2, <3>3
    <2> QED  BY <2>1, <2>3, <2>4 DEF d
  <1>5. DOMAIN Finished(cs, i) = {Shifted(c, i) : c \in DOMAIN cs}  BY FinishedDomain
  <1>6. Owned(RemoveAt(stk, i), Finished(cs, i))  BY <1>3, <1>4, <1>5 DEF Owned
  <1>7. SameCalls(cs, Finished(cs, i))  BY <1>4, <1>5 DEF SameCalls
  <1> QED  BY <1>6, <1>7

(* When an activity is left, its calls stay where they are or have no owner.*)
LEMMA DeafenedOwned ==
    ASSUME NEW stk, NEW cs, Owned(stk, cs), NEW top \in Nat
    PROVE  /\ Owned(stk, Deafened(cs, top))
           /\ SameCalls(cs, Deafened(cs, top))
           /\ \A d \in DOMAIN Deafened(cs, top) : d.op \in Scoped => d.owner \in {0, top}
  <1>1. \A c \in DOMAIN cs :
          /\ c \in AnyCall /\ c.owner \in Nat /\ c.owner <= Len(stk)
          /\ c.owner # 0 => MadeFrom(c.op, stk[c.owner].kind)
    BY DEF Owned, AnyCall
  <1>2. ASSUME NEW c \in DOMAIN cs
        PROVE  LET d == Silent(c, top) IN
               /\ d \in AnyCall /\ Like(c, d) /\ d.owner <= Len(stk)
               /\ d.owner # 0 => MadeFrom(d.op, stk[d.owner].kind)
               /\ d.op \in Scoped => d.owner \in {0, top}
    <2> DEFINE d == Silent(c, top)
    <2>1. d \in AnyCall /\ Like(c, d) /\ d.op = c.op /\ d.owner \in {0, c.owner}
      BY <1>1, SilentCall DEF Like
    <2>2. d.op \in Scoped => d.owner \in {0, top}  BY <1>1, <2>1, SilentCall
    <2> HIDE DEF d
    <2>3. d.owner = 0 \/ d.owner = c.owner  BY <2>1
    <2>4. d.owner <= Len(stk)
      <3>1. 0 <= c.owner => 0 <= Len(stk)  BY <1>1, <2>3 DEF AnyCall
      <3> QED  BY <1>1, <2>3, <3>1
    <2> QED  BY <1>1, <2>1, <2>2, <2>3, <2>4 DEF d
  <1>3. DOMAIN Deafened(cs, top) = {Silent(c, top) : c \in DOMAIN cs}  BY DeafenedDomain
  <1> QED  BY <1>2, <1>3 DEF Owned, SameCalls

-----------------------------------------------------------------------------
(* Activities start and are created.                                       *)

(* Less is said of a later history, and nothing once an answer was late.   *)
LEMMA FitsLater ==
    ASSUME NEW stk, NEW cs, NEW u, NEW pr, NEW h, NEW g,
           "late" \notin g => h \subseteq g
    PROVE  /\ Fits(stk, cs, u, pr, h) => Fits(stk, cs, u, pr, g)
           /\ Ready(stk, cs, u, pr, h) => Ready(stk, cs, u, pr, g)
  <1>1. Ready(stk, cs, u, pr, h) => Ready(stk, cs, u, pr, g)  BY DEF Ready
  <1> QED  BY <1>1 DEF Fits

(* The history only grows.                                                 *)
LEMMA NoteLater ==
    ASSUME NEW events, Note(events)
    PROVE  "late" \notin history' =>
              "late" \notin events /\ history \subseteq history' /\ events \subseteq history'
  BY DEF Note

(* A stack that the feed may be put on may start: its top is not           *)
(* LoginActivity.                                                          *)
LEMMA CoveredReady ==
    ASSUME NEW stk, NEW kind, NEW cs, NEW u, NEW pr, NEW h, Covered(stk, kind, cs, u, pr, h)
    PROVE  Ready(stk, cs, u, pr, h)
  <1>1. stk \in Seq(Activities) /\ Len(stk) \in Nat /\ DOMAIN stk = 1..Len(stk)
    BY LenProperties DEF Covered
  <1>2. stk # <<>> => Len(stk) \in DOMAIN stk  BY <1>1, EmptySeq
  <1>3. NoLogin(stk, Len(stk)) => NoLogin(stk, Len(stk) - 1) /\ AtLogin(stk, cs, u)
    BY <1>1, <1>2 DEF NoLogin, AtLogin
  <1> QED  BY <1>3 DEF Covered, Ready

(* What is below the activity in front, when that one is finished and one  *)
(* of kind is to take its place.                                           *)
LEMMA BelowCovered ==
    ASSUME NEW stk, NEW kind, NEW cs, NEW u, NEW v \in Uids, NEW pr, NEW h,
           Ready(stk, cs, u, pr, h), stk # <<>>,
           v = u \/ stk[Len(stk)].kind \notin OverFeed,
           kind \in OverFeed \/ stk[Len(stk)].kind \notin OverFeed,
           "late" \notin h => SignedIn(Finished(cs, Len(stk)), v)
    PROVE  Covered(Below(stk), kind, Finished(cs, Len(stk)), v, pr, h)
  <1> DEFINE top == Len(stk)
             new == Below(stk)
             ds == Finished(cs, top)
  <1>1. stk \in Seq(Activities)  BY DEF Ready
  <1>2. /\ top \in Nat \ {0} /\ top \in 1..top /\ DOMAIN stk = 1..top
        /\ new \in Seq(Activities) /\ Len(new) = top - 1
        /\ \A j \in 1..(top - 1) : new[j] = stk[j]
        /\ new = RemoveAt(stk, top)
    BY <1>1, BelowStack, LenProperties
  <1>3. DOMAIN new = 1..(top - 1)  BY <1>2, LenProperties
  <1>4. Owned(new, ds) /\ SameCalls(cs, ds)
    BY <1>1, <1>2, FinishedOwned DEF Ready
  <1>5. Known(ds, pr)  BY <1>4, SameCallsHold DEF Ready
  <1> HIDE DEF ds, new
  <1>6. \A j \in DOMAIN new : j \in DOMAIN stk /\ j # top /\ j <= top - 1 /\ new[j] = stk[j]
    <2>1. \A n \in Nat : \A j \in 1..(n - 1) : j \in 1..n /\ j # n /\ j <= n - 1
      OBVIOUS
    <2> QED  BY <1>2, <1>3, <2>1
  <1>7. ASSUME "late" \notin h
        PROVE  /\ Over(new) /\ Kept(new, v)
               /\ kind \notin OverFeed => NoUids(new)
               /\ "bypassed" \notin h => NoLogin(new, Len(new))
               /\ "unchecked" \notin h => NoneFailed(ds) /\ Posters(new, ds, v, pr)
    <2>1. Over(stk) /\ Kept(stk, u)  BY <1>7 DEF Ready
    <2>2. stk[top].kind \notin OverFeed => NoUids(new)
      BY <1>1, <1>6, <2>1, UnderOthers DEF NoUids
    <2>3. Over(new)  BY <1>6, <2>1 DEF Over
    <2>4. Kept(new, v)  BY <1>6, <2>1, <2>2 DEF Kept, NoUids
    <2>5. "bypassed" \notin h => NoLogin(new, Len(new))
      BY <1>6, <1>7 DEF Ready, NoLogin
    <2>6. ASSUME "unchecked" \notin h
          PROVE  NoneFailed(ds) /\ Posters(new, ds, v, pr)
      <3>1. NoneFailed(cs) /\ Posters(stk, cs, u, pr)  BY <1>7, <2>6 DEF Ready
      <3>2. NoneFailed(ds) /\ (CheckedFor(cs, u) => CheckedFor(ds, u))
        BY <1>4, <3>1, SameCallsHold
      <3>3. CASE v = u  BY <1>6, <3>1, <3>2, <3>3 DEF Posters
      <3>4. CASE NoUids(new)  BY <3>2, <3>4 DEF NoUids, Posters, KeepUid
      <3> QED  BY <2>2, <3>3, <3>4
    <2> QED  BY <2>2, <2>3, <2>4, <2>5, <2>6
  <1>8. Covered(new, kind, ds, v, pr, h)
    BY <1>2, <1>4, <1>5, <1>7 DEF Covered, new, ds
  <1> QED  BY <1>8 DEF ds, new

(* A call that is made from the activity in front.                         *)
LEMMA SentFits ==
    ASSUME NEW stk, NEW cs, NEW u, NEW pr, NEW h, Fits(stk, cs, u, pr, h),
           stk # <<>>, NEW op \in Operations, NEW uid \in Uids,
           MadeFrom(op, stk[Len(stk)].kind), op \in Scoped => uid # NoUser
    PROVE  /\ Fits(stk, BagAdd(cs, Sent(op, Len(stk), uid)), u, pr, h)
           /\ op = "check" => CheckedFor(BagAdd(cs, Sent(op, Len(stk), uid)), uid)
  <1> DEFINE c == Sent(op, Len(stk), uid)
             ds == BagAdd(cs, c)
  <1>1. Len(stk) \in Nat /\ Len(stk) # 0  BY LenProperties, EmptySeq DEF Fits, Ready
  <1>2. /\ c \in AnyCall /\ c.op = op /\ c.owner = Len(stk) /\ c.uid = uid
        /\ c.phase = "sent"
    BY <1>1 DEF Sent, AnyCall
  <1>3. DOMAIN ds = DOMAIN cs \cup {c}  BY AddDomain
  <1> HIDE DEF c, ds
  <1>4. Owned(stk, ds) /\ Heard(stk, ds)
    BY <1>1, <1>2, <1>3 DEF Fits, Ready, Owned, Heard
  <1>5. Known(cs, pr) => Known(ds, pr)  BY <1>2, <1>3 DEF Known
  <1>6. SignedIn(cs, u) => SignedIn(ds, u)  BY <1>2, <1>3 DEF SignedIn
  <1>7. NoneFailed(cs) => NoneFailed(ds)  BY <1>2, <1>3 DEF NoneFailed
  <1>8. AtLogin(stk, cs, u) => AtLogin(stk, ds, u)  BY <1>3 DEF AtLogin, Awaited
  <1>9. /\ Posters(stk, cs, u, pr) => Posters(stk, ds, u, pr)
        /\ AtHome(stk, cs, u, pr) => AtHome(stk, ds, u, pr)
    BY <1>3 DEF Posters, AtHome, CheckedFor
  <1>10. op = "check" => CheckedFor(ds, uid)  BY <1>2, <1>3 DEF CheckedFor
  <1>11. Ready(stk, ds, u, pr, h)
    BY <1>4, <1>5, <1>6, <1>7, <1>8, <1>9 DEF Fits, Ready
  <1>12. Fits(stk, ds, u, pr, h)  BY <1>4, <1>9, <1>11 DEF Fits
  <1> QED  BY <1>10, <1>12 DEF c, ds

(* The top of a stack starts: a stranger is sent from HomeCommunity to     *)
(* LoginActivity, and the profile of a user is looked for.                 *)
LEMMA Starts ==
    ASSUME NEW stk, NEW cs, NEW u, NEW pr, NEW h,
           Ready(stk, cs, u, pr, h), Start(stk, cs, u)
    PROVE  Fits(stack', calls', u, pr, h)
  <1> DEFINE top == Len(stk)
             heard == Deafened(cs, top)
             atHome == top # 0 /\ stk[top].kind = "Home"
  <1>1. /\ stk \in Seq(Activities) /\ top \in Nat /\ DOMAIN stk = 1..top
        /\ stk = <<>> <=> top = 0
    BY LenProperties, EmptySeq DEF Ready
  <1>2. /\ Owned(stk, heard) /\ SameCalls(cs, heard) /\ Heard(stk, heard)
    BY <1>1, DeafenedOwned DEF Ready, Heard
  <1>3. Ready(stk, heard, u, pr, h)
    BY <1>2, SameCallsHold DEF Ready, AtLogin, Posters
  <1>4. \/ ~atHome /\ stack' = stk /\ calls' = heard
        \/ /\ atHome /\ u = NoUser
           /\ stack' = [stk EXCEPT ![top].kind = "Login"]
           /\ calls' = Finished(heard, top)
        \/ /\ atHome /\ u # NoUser /\ stack' = stk
           /\ calls' = BagAdd(heard, Sent("check", top, u))
    BY DEF Start
  <1>5. CASE ~atHome /\ stack' = stk /\ calls' = heard
    BY <1>1, <1>2, <1>3, <1>5 DEF Fits, AtHome
  <1>6. CASE /\ atHome /\ u = NoUser
             /\ stack' = [stk EXCEPT ![top].kind = "Login"]
             /\ calls' = Finished(heard, top)
    <2> HIDE DEF heard
    <2>1. /\ Owned(RemoveAt(stk, top), calls') /\ SameCalls(heard, calls')
      BY <1>1, <1>2, <1>6, FinishedOwned
    <2>2. top \in 1..top /\ stk[top] \in Activities /\ top # 0 /\ stk # <<>>
      BY <1>1, <1>6, ElementOfSeq
    <2> DEFINE a == [stk[top] EXCEPT !.kind = "Login"]
    <2>3. a \in Activities /\ a.kind = "Login"  BY <2>2 DEF Activities, Kinds
    <2>4. stack' = [stk EXCEPT ![top] = a]  BY <1>6
    <2> HIDE DEF a
    <2>5. /\ stack' \in Seq(Activities) /\ Len(stack') = top
          /\ \A j \in 1..top : stack'[j] = IF j = top THEN a ELSE stk[j]
      BY <1>1, <2>2, <2>3, <2>4, ExceptSeq
    <2> HIDE DEF top
    <2>14. /\ top \in Nat /\ top # 0
           /\ \A j \in 1..(top - 1) : j \in 1..top /\ j # top
           /\ \A n \in Nat : n <= top - 1 => n <= top
      BY <1>1, <2>2
    <2>6. DOMAIN stack' = 1..top /\ stack' # <<>>
      BY <2>2, <2>5, LenProperties, EmptySeq
    <2>7. \A c \in DOMAIN calls' : c \in AnyCall /\ c.owner \in Nat /\ c.owner <= top - 1
      BY <1>1, <2>1, <2>2, RemoveAtStack DEF Owned, AnyCall
    <2>8. Owned(stack', calls')
      <3>1. \A j \in 1..(top - 1) : RemoveAt(stk, top)[j] = stk[j] /\ stack'[j] = stk[j]
        <4>1. \A j \in 1..(top - 1) : stack'[j] = stk[j]  BY <2>5, <2>14
        <4>2. \A j \in 1..(top - 1) : RemoveAt(stk, top)[j] = stk[j]
          <5>1. Below(stk) = RemoveAt(stk, top) /\ \A j \in 1..(top - 1) : Below(stk)[j] = stk[j]
            BY <1>1, <2>2, BelowStack DEF top
          <5> QED  BY <5>1
        <4> QED  BY <4>1, <4>2
      <3>2. ASSUME NEW c \in DOMAIN calls', c.owner # 0
            PROVE  MadeFrom(c.op, stack'[c.owner].kind)
        <4>1. c.owner \in 1..(top - 1)  BY <1>1, <2>7, <3>2
        <4>2. MadeFrom(c.op, RemoveAt(stk, top)[c.owner].kind)  BY <2>1, <3>2 DEF Owned
        <4> QED  BY <3>1, <4>1, <4>2
      <3>3. \A c \in DOMAIN calls' : c \in AnyCall /\ c.owner <= Len(stack')
        BY <2>5, <2>7, <2>14
      <3> QED  BY <3>2, <3>3 DEF Owned
    <2>9. Heard(stack', calls')
      <3>1. DOMAIN calls' = {Shifted(c, top) : c \in DOMAIN heard}
        BY <1>6, FinishedDomain
      <3>2. ASSUME NEW c \in DOMAIN heard, Shifted(c, top).op \in Scoped
            PROVE  Shifted(c, top).owner = 0
        <4>1. c \in AnyCall /\ top \in Nat \ {0}  BY <1>1, <1>2, <2>2 DEF Owned
        <4>2. c.op = Shifted(c, top).op
          BY <4>1, ShiftedCall DEF Like
        <4>3. c.owner \in {0, top}  BY <1>2, <3>2, <4>2 DEF Heard, top
        <4> QED  BY <4>1, <4>3, ShiftedCall
      <3> QED  BY <3>1, <3>2 DEF Heard
    <2>10. /\ Known(calls', pr)
           /\ "late" \notin h => SignedIn(calls', u)
           /\ "late" \notin h /\ "unchecked" \notin h => NoneFailed(calls')
      BY <1>3, <2>1, SameCallsHold DEF Ready
    <2>11. "late" \notin h =>
              /\ Over(stack') /\ Kept(stack', u) /\ Posters(stack', calls', u, pr)
              /\ "bypassed" \notin h => NoLogin(stack', Len(stack') - 1)
      <3>1. SUFFICES ASSUME "late" \notin h
                     PROVE  /\ NoUids(stack')
                            /\ "bypassed" \notin h => NoLogin(stack', Len(stack') - 1)
        BY DEF NoUids, Over, Kept, Posters, KeepUid
      <3>2. NoUids(stk)  BY <1>3, <1>6, <3>1 DEF Ready, Kept, NoUids
      <3>3. NoUids(stack')  BY <1>1, <2>3, <2>5, <2>6, <3>2 DEF NoUids, KeepUid, top
      <3>4. ASSUME "bypassed" \notin h  PROVE NoLogin(stack', Len(stack') - 1)
        <4>1. NoLogin(stk, top - 1)  BY <1>3, <3>1, <3>4 DEF Ready, top
        <4>2. \A j \in 1..top : j <= top - 1 => j # top  BY <2>14
        <4> QED  BY <1>1, <2>5, <2>6, <4>1, <4>2 DEF NoLogin, top
      <3> QED  BY <3>3, <3>4
    <2>12. /\ AtLogin(stack', calls', u)
           /\ AtHome(stack', calls', u, pr)
           /\ stack'[Len(stack')].kind # "Home"
      BY <1>6, <2>2, <2>3, <2>5 DEF AtLogin, AtHome
    <2>13. Ready(stack', calls', u, pr, h)
      BY <1>3, <2>5, <2>8, <2>10, <2>11, <2>12 DEF Ready
    <2> QED  BY <2>9, <2>12, <2>13 DEF Fits
  <1>7. CASE /\ atHome /\ u # NoUser /\ stack' = stk
             /\ calls' = BagAdd(heard, Sent("check", top, u))
    <2> HIDE DEF heard
    <2>1. MadeFrom("check", stk[top].kind) /\ "check" \in Operations
      BY <1>7 DEF MadeFrom, Operations
    <2> DEFINE c == Sent("check", top, u)
    <2>2. top # 0 /\ stk # <<>> /\ u \in Uids  BY <1>1, <1>7 DEF Ready
    <2>3. /\ c \in AnyCall /\ c.op = "check" /\ c.owner = top /\ c.uid = u
          /\ c.phase = "sent"
      BY <1>1, <2>1, <2>2 DEF Sent, AnyCall
    <2>4. DOMAIN calls' = DOMAIN heard \cup {c}  BY <1>7, AddDomain
    <2> HIDE DEF c
    <2>5. Owned(stk, calls') /\ Heard(stk, calls')
      BY <1>1, <1>2, <2>1, <2>3, <2>4 DEF Owned, Heard
    <2>6. /\ Known(heard, pr) => Known(calls', pr)
          /\ SignedIn(heard, u) => SignedIn(calls', u)
          /\ NoneFailed(heard) => NoneFailed(calls')
          /\ AtLogin(stk, heard, u) => AtLogin(stk, calls', u)
      BY <2>3, <2>4 DEF Known, SignedIn, NoneFailed, AtLogin, Awaited, Scoped
    <2>7. CheckedFor(calls', u)  BY <2>3, <2>4 DEF CheckedFor
    <2>8. Ready(stk, calls', u, pr, h)
      BY <1>3, <2>5, <2>6, <2>7 DEF Ready, Posters
    <2> QED  BY <1>7, <2>5, <2>7, <2>8 DEF Fits, AtHome
  <1> QED  BY <1>4, <1>5, <1>6, <1>7

(* An activity that is created finds what it needs, or the program stops   *)
(* in it.                                                                  *)
LEMMA Creates ==
    ASSUME NEW stk, NEW kind \in Kinds, NEW cs, NEW u, NEW pr, NEW h,
           Covered(stk, kind, cs, u, pr, h), Create(stk, kind, cs, u),
           "late" \notin h /\ "unchecked" \notin h /\ kind = "NewPost" /\ u \notin pr
              => CheckedFor(cs, u)
    PROVE  \/ /\ kind \in NeedUser /\ u = NoUser
              /\ crashed' = kind /\ stack' = stack /\ calls' = calls
           \/ Fits(stack', calls', u, pr, h) /\ crashed' = crashed
  <1> DEFINE screen == Landing(kind, u)
             a == [kind |-> screen, uid |-> IF screen \in KeepUid THEN u ELSE NoUser]
             new == Append(stk, a)
  <1>1. \/ /\ kind \in NeedUser /\ u = NoUser
           /\ crashed' = kind /\ stack' = stack /\ calls' = calls
        \/ /\ kind \notin NeedUser \/ u # NoUser
           /\ Start(new, cs, u) /\ crashed' = crashed
    BY DEF Create
  <1>2. CASE /\ kind \notin NeedUser \/ u # NoUser
             /\ Start(new, cs, u) /\ crashed' = crashed
    <2>1. /\ screen \in Kinds
          /\ screen = "Login" => u = NoUser
          /\ screen \in KeepUid => u # NoUser
          /\ screen = "NewPost" => kind = "NewPost"
          /\ screen \in OverFeed <=> kind \in OverFeed
      BY <1>2 DEF Landing, Kinds, KeepUid, NeedUser, OverFeed
    <2>2. a \in Activities /\ a.kind = screen /\ (screen \in KeepUid => a.uid = u)
      BY <2>1 DEF Activities, Uids, Covered
    <2> HIDE DEF a, screen
    <2>3. /\ stk \in Seq(Activities) /\ Len(stk) \in Nat /\ DOMAIN stk = 1..Len(stk)
      BY LenProperties DEF Covered
    <2>4. /\ new \in Seq(Activities) /\ new # <<>> /\ Len(new) = Len(stk) + 1
          /\ \A i \in 1..Len(stk) : new[i] = stk[i]
          /\ new[Len(stk) + 1] = a
      BY <2>2, <2>3, AppendProperties
    <2>5. DOMAIN new = 1..(Len(stk) + 1)  BY <2>4, LenProperties
    <2> HIDE DEF new
    <2>6. Owned(new, cs)
      <3>1. ASSUME NEW c \in DOMAIN cs
            PROVE  /\ c \in AnyCall /\ c.owner <= Len(new)
                   /\ c.owner # 0 => MadeFrom(c.op, new[c.owner].kind)
        <4>1. c \in AnyCall /\ c.owner \in Nat /\ c.owner <= Len(stk)
          BY DEF Covered, Owned, AnyCall
        <4>2. c.owner # 0 => c.owner \in 1..Len(stk) /\ MadeFrom(c.op, stk[c.owner].kind)
          BY <2>3, <4>1 DEF Covered, Owned
        <4>3. c.owner <= Len(new)  BY <2>3, <2>4, <4>1
        <4> QED  BY <2>4, <4>1, <4>2, <4>3
      <3> QED  BY <3>1 DEF Owned
    <2>7. ASSUME "late" \notin h
          PROVE  /\ Over(new) /\ Kept(new, u) /\ SignedIn(cs, u) /\ AtLogin(new, cs, u)
                 /\ "bypassed" \notin h => NoLogin(new, Len(new) - 1)
                 /\ "unchecked" \notin h => NoneFailed(cs) /\ Posters(new, cs, u, pr)
      <3>1. /\ Over(stk) /\ Kept(stk, u) /\ SignedIn(cs, u)
            /\ kind \notin OverFeed => NoUids(stk)
            /\ "bypassed" \notin h => NoLogin(stk, Len(stk))
            /\ "unchecked" \notin h => NoneFailed(cs) /\ Posters(stk, cs, u, pr)
        BY <2>7 DEF Covered
      <3>2. \A i \in DOMAIN new :
               \/ i \in DOMAIN stk /\ i < Len(stk) + 1 /\ new[i] = stk[i]
               \/ i = Len(stk) + 1 /\ new[i] = a
        BY <2>3, <2>4, <2>5
      <3>3. Over(new)
        <4>1. ASSUME NEW i \in DOMAIN new, NEW j \in DOMAIN new, i < j,
                     new[i].kind \in KeepUid
              PROVE  new[j].kind \in OverFeed
          <5>1. i \in DOMAIN stk /\ new[i] = stk[i]  BY <2>3, <2>5, <3>2, <4>1
          <5>2. CASE j \in DOMAIN stk /\ new[j] = stk[j]
            BY <3>1, <4>1, <5>1, <5>2 DEF Over
          <5>3. CASE new[j] = a
            BY <2>1, <2>2, <3>1, <4>1, <5>1, <5>3 DEF NoUids
          <5> QED  BY <3>2, <5>2, <5>3
        <4> QED  BY <4>1 DEF Over
      <3>4. Kept(new, u)  BY <2>1, <2>2, <3>1, <3>2 DEF Kept
      <3>5. AtLogin(new, cs, u)  BY <2>1, <2>2, <2>4 DEF AtLogin
      <3>6. "bypassed" \notin h => NoLogin(new, Len(new) - 1)
        <4>1. \A i \in DOMAIN new : i <= Len(new) - 1 =>
                 i \in DOMAIN stk /\ i <= Len(stk) /\ new[i] = stk[i]
          BY <2>3, <2>4, <2>5, <3>2
        <4> QED  BY <3>1, <4>1 DEF NoLogin
      <3>7. "unchecked" \notin h => Posters(new, cs, u, pr)
        BY <2>1, <2>2, <2>7, <3>1, <3>2 DEF Posters
      <3> QED  BY <3>1, <3>3, <3>4, <3>5, <3>6, <3>7
    <2>8. Ready(new, cs, u, pr, h)  BY <2>4, <2>6, <2>7 DEF Covered, Ready
    <2>9. Fits(stack', calls', u, pr, h)  BY <1>2, <2>8, Starts
    <2> QED  BY <1>2, <2>9
  <1> QED  BY <1>1, <1>2

-----------------------------------------------------------------------------
(* The actions.                                                            *)

(* What is known of a stack whose top is an activity of the given kind.    *)
LEMMA InFront ==
    ASSUME IInv, NEW kind, At(kind)
    PROVE  /\ stack \in Seq(Activities) /\ Len(stack) \in Nat \ {0}
           /\ Len(stack) \in 1..Len(stack) /\ DOMAIN stack = 1..Len(stack)
           /\ stack # <<>> /\ Last(stack) = stack[Len(stack)]
           /\ stack[Len(stack)].kind = kind /\ stack[Len(stack)] \in Activities
           /\ user \in Uids
  <1>1. stack \in Seq(Activities) /\ user \in Uids  BY DEF IInv, Fits, Ready
  <1>2. stack # <<>> /\ Last(stack).kind = kind /\ Last(stack) = stack[Len(stack)]
    BY DEF At, Last
  <1>3. Len(stack) \in Nat \ {0} /\ DOMAIN stack = 1..Len(stack)
    BY <1>1, <1>2, LenProperties, EmptySeq
  <1> QED  BY <1>1, <1>2, <1>3, ElementOfSeq

(* The invariant holds after an activity was created or crashed, if the    *)
(* crash is one that can happen.                                           *)
LEMMA CreatedInv ==
    ASSUME IInv, NEW kind \in Kinds, NEW v \in Uids, NEW g,
           \/ /\ kind \in NeedUser /\ v = NoUser
              /\ crashed' = kind /\ stack' = stack /\ calls' = calls
           \/ Fits(stack', calls', v, profiles, g) /\ crashed' = crashed,
           user' = v, profiles' = profiles, history' = g,
           kind \in NeedUser => v = user,
           "late" \notin g => history \subseteq g,
           "late" \notin g /\ v = NoUser => kind \notin KeepUid
    PROVE  IInv'
  <1>1. CASE /\ kind \in NeedUser /\ v = NoUser
             /\ crashed' = kind /\ stack' = stack /\ calls' = calls
    <2>1. Fits(stack, calls, user, profiles, g)  BY FitsLater DEF IInv
    <2>2. Fits(stack, calls, user, profiles, history)'
      BY <1>1, <2>1
    <2>3. CrashOK'  BY <1>1 DEF CrashOK, NeedUser, KeepUid
    <2> QED  BY <2>2, <2>3 DEF IInv
  <1>2. CASE Fits(stack', calls', v, profiles, g) /\ crashed' = crashed
    <2>1. Fits(stack, calls, user, profiles, history)'  BY <1>2
    <2>2. CrashOK'  BY <1>2 DEF IInv, CrashOK
    <2> QED  BY <2>1, <2>2 DEF IInv
  <1> QED  BY <1>1, <1>2

(* A button that opens a screen: none of them is on LoginActivity, and one *)
(* of the feed's opens one of the feed's.                                  *)
LEMMA OpenInv ==
    ASSUME IInv, NEW from \in Kinds, NEW to \in Kinds, Open(from, to),
           from # "Login", to \in KeepUid => from = "Home",
           to \in OverFeed \/ from \notin OverFeed \cup KeepUid
    PROVE  IInv'
  <1>1. At(from) /\ Create(stack, to, calls, user)
    BY DEF Open
  <1>2. user' = user /\ profiles' = profiles /\ history' = history  BY DEF Open
  <1>3. ASSUME "late" \notin history
        PROVE  /\ to \notin OverFeed => NoUids(stack)
               /\ "bypassed" \notin history => NoLogin(stack, Len(stack))
    <2>1. to \notin OverFeed => NoUids(stack)
      <3>1. Over(stack)  BY <1>3 DEF IInv, Fits, Ready
      <3> QED  BY <1>1, <3>1, InFront, UnderOthers DEF NoUids
    <2>2. \A i \in DOMAIN stack : i <= Len(stack) - 1 \/ i = Len(stack)
      BY <1>1, InFront
    <2>3. "bypassed" \notin history => NoLogin(stack, Len(stack))
      BY <1>1, <1>3, <2>2, InFront DEF IInv, Fits, Ready, NoLogin
    <2> QED  BY <2>1, <2>3
  <1>4. Covered(stack, to, calls, user, profiles, history)
    BY <1>3 DEF Covered, IInv, Fits, Ready
  <1>5. ASSUME "late" \notin history, to \in KeepUid
        PROVE  /\ user # NoUser
               /\ "unchecked" \notin history /\ user \notin profiles => CheckedFor(calls, user)
    BY <1>1, <1>5, InFront DEF IInv, Fits, AtHome
  <1>6. \/ /\ to \in NeedUser /\ user = NoUser
           /\ crashed' = to /\ stack' = stack /\ calls' = calls
        \/ Fits(stack', calls', user, profiles, history) /\ crashed' = crashed
    BY <1>1, <1>4, <1>5, Creates DEF KeepUid
  <1> QED  BY <1>1, <1>2, <1>5, <1>6, InFront, CreatedInv

(* The buttons of LoginActivity open a screen and finish their own.        *)
LEMMA OpenAndFinishInv ==
    ASSUME IInv, NEW to \in {"Signin", "Find"}, OpenAndFinish("Login", to)
    PROVE  IInv'
  <1>1. /\ At("Login")
        /\ Create(Below(stack), to, Finished(calls, Len(stack)), user)
        /\ user' = user /\ profiles' = profiles /\ history' = history
    BY DEF OpenAndFinish
  <1>2. stack # <<>> /\ user \in Uids /\ Len(stack) \in 1..Len(stack)  BY <1>1, InFront
  <1>3. "late" \notin history => SignedIn(Finished(calls, Len(stack)), user)
    BY <1>1, <1>2, FinishedOwned, SameCallsHold, InFront DEF IInv, Fits, Ready
  <1>4. Covered(Below(stack), to, Finished(calls, Len(stack)), user, profiles, history)
    <2>1. stack[Len(stack)].kind \notin OverFeed  BY <1>1, InFront DEF OverFeed
    <2> QED  BY <1>2, <1>3, <2>1, BelowCovered DEF IInv, Fits
  <1>5. to \in Kinds /\ to \notin NeedUser /\ to \notin KeepUid /\ to # "NewPost"
    BY DEF Kinds, NeedUser, KeepUid
  <1>6. \/ /\ to \in NeedUser /\ user = NoUser
           /\ crashed' = to /\ stack' = stack /\ calls' = calls
        \/ Fits(stack', calls', user, profiles, history) /\ crashed' = crashed
    BY <1>1, <1>4, <1>5, Creates
  <1> QED  BY <1>1, <1>2, <1>5, <1>6, CreatedInv

(* A button that opens a screen.                                           *)
LEMMA NavigateInv == IInv /\ Navigate => IInv'
  <1> SUFFICES ASSUME IInv, Navigate  PROVE IInv'
    OBVIOUS
  <1>1. /\ {"Signin", "Main", "Profile", "Home"} \subseteq Kinds \ {"Login"}
        /\ {"Login", "Profile", "Home", "Main", "NewPost", "Comments"} \subseteq Kinds
        /\ {"Login", "Profile", "Home", "Main"} \cap KeepUid = {}
        /\ {"Signin", "Main", "Profile"} \cap (OverFeed \cup KeepUid) = {}
        /\ {"NewPost", "Comments"} \subseteq OverFeed
    BY DEF Kinds, KeepUid, OverFeed
  <1>2. CASE OpenAndFinish("Login", "Signin") \/ OpenAndFinish("Login", "Find")
    BY <1>2, OpenAndFinishInv
  <1>3. CASE Open("Signin", "Login")  BY <1>1, <1>3, OpenInv
  <1>4. CASE Open("Main", "Profile")  BY <1>1, <1>4, OpenInv
  <1>5. CASE Open("Main", "Home")  BY <1>1, <1>5, OpenInv
  <1>6. CASE Open("Profile", "Main")  BY <1>1, <1>6, OpenInv
  <1>7. CASE Open("Home", "NewPost")  BY <1>1, <1>7, OpenInv
  <1>8. CASE Open("Home", "Comments")  BY <1>1, <1>8, OpenInv
  <1> QED  BY <1>2, <1>3, <1>4, <1>5, <1>6, <1>7, <1>8 DEF Navigate

(* In front of a screen nobody logs in from, no listener of a login is     *)
(* left, whoever is signed in.                                             *)
LEMMA NoListener ==
    ASSUME IInv, NEW kind, At(kind), kind \notin {"Login", "Signin"}, NEW v
    PROVE  SignedIn(calls, v)
  <1>1. ASSUME NEW c \in DOMAIN calls, c.op \in Scoped, c.owner # 0  PROVE FALSE
    <2>1. c.owner = Len(stack)  BY <1>1 DEF IInv, Fits, Heard
    <2>2. MadeFrom(c.op, kind)  BY <1>1, <2>1, InFront DEF IInv, Fits, Ready, Owned
    <2> QED  BY <1>1, <2>2 DEF MadeFrom, Scoped
  <1> QED  BY <1>1 DEF SignedIn

(* Logout in ProfileActivity.                                              *)
LEMMA LogoutInv == IInv /\ Logout => IInv'
  <1> SUFFICES ASSUME IInv, Logout  PROVE IInv'
    OBVIOUS
  <1>1. /\ At("Profile") /\ user' = NoUser /\ profiles' = profiles /\ history' = history
        /\ Create(Below(stack), "Login", Finished(calls, Len(stack)), NoUser)
    BY DEF Logout
  <1>2. stack # <<>> /\ NoUser \in Uids /\ Len(stack) \in 1..Len(stack)
    BY <1>1, InFront DEF Uids
  <1>3. SignedIn(Finished(calls, Len(stack)), NoUser)
    BY <1>1, <1>2, NoListener, FinishedOwned, SameCallsHold, InFront DEF IInv, Fits, Ready
  <1>4. Covered(Below(stack), "Login", Finished(calls, Len(stack)), NoUser, profiles, history)
    <2>1. stack[Len(stack)].kind \notin OverFeed  BY <1>1, InFront DEF OverFeed
    <2> QED  BY <1>2, <1>3, <2>1, BelowCovered DEF IInv, Fits
  <1>5. "Login" \in Kinds /\ "Login" \notin NeedUser /\ "Login" \notin KeepUid
    BY DEF Kinds, NeedUser, KeepUid
  <1>6. \/ /\ "Login" \in NeedUser /\ NoUser = NoUser
           /\ crashed' = "Login" /\ stack' = stack /\ calls' = calls
        \/ Fits(stack', calls', NoUser, profiles, history) /\ crashed' = crashed
    BY <1>1, <1>4, <1>5, Creates
  <1> QED  BY <1>1, <1>2, <1>5, <1>6, CreatedInv

(* The back button.                                                        *)
LEMMA BackInv == IInv /\ Back => IInv'
  <1> SUFFICES ASSUME IInv, Back  PROVE IInv'
    OBVIOUS
  <1>1. /\ stack # <<>> /\ Start(Below(stack), Finished(calls, Len(stack)), user)
        /\ user' = user /\ profiles' = profiles /\ history' = history
        /\ crashed' = crashed
    BY DEF Back
  <1>2. user \in Uids /\ stack \in Seq(Activities) /\ Len(stack) \in 1..Len(stack)
    BY <1>1, BelowStack DEF IInv, Fits, Ready
  <1>3. "late" \notin history => SignedIn(Finished(calls, Len(stack)), user)
    BY <1>2, FinishedOwned, SameCallsHold DEF IInv, Fits, Ready
  <1>4. Covered(Below(stack), "Home", Finished(calls, Len(stack)), user, profiles, history)
    BY <1>1, <1>2, <1>3, BelowCovered DEF IInv, Fits, OverFeed
  <1>5. Fits(stack', calls', user, profiles, history)
    BY <1>1, <1>4, CoveredReady, Starts
  <1>6. Fits(stack, calls, user, profiles, history)'  BY <1>1, <1>5
  <1> QED  BY <1>1, <1>6 DEF IInv, CrashOK

(* The app goes to the background and comes back.                          *)
LEMMA LeaveAndReturnInv == IInv /\ LeaveAndReturn => IInv'
  <1> SUFFICES ASSUME IInv, LeaveAndReturn  PROVE IInv'
    OBVIOUS
  <1>1. /\ Start(stack, Deafened(calls, 0), user)
        /\ user' = user /\ profiles' = profiles /\ history' = history
        /\ crashed' = crashed
    BY DEF LeaveAndReturn
  <1>2. /\ Owned(stack, Deafened(calls, 0)) /\ SameCalls(calls, Deafened(calls, 0))
    BY DeafenedOwned DEF IInv, Fits, Ready
  <1>3. Ready(stack, Deafened(calls, 0), user, profiles, history)
    BY <1>2, SameCallsHold DEF IInv, Fits, Ready, AtLogin, Posters
  <1>4. Fits(stack', calls', user, profiles, history)  BY <1>1, <1>3, Starts
  <1>5. Fits(stack, calls, user, profiles, history)'  BY <1>1, <1>4
  <1> QED  BY <1>1, <1>5 DEF IInv, CrashOK

(* The app is launched anew after its last screen was left.                *)
LEMMA LaunchInv == IInv /\ Launch => IInv'
  <1> SUFFICES ASSUME IInv, Launch  PROVE IInv'
    OBVIOUS
  <1>1. /\ stack = <<>> /\ Create(<<>>, "Login", calls, user)
        /\ user' = user /\ profiles' = profiles /\ history' = history
    BY DEF Launch
  <1>2. Covered(<<>>, "Login", calls, user, profiles, history)
    <2>1. DOMAIN stack = {} /\ stack \in Seq(Activities)
      BY <1>1, EmptySeq, LenProperties
    <2>2. NoUids(stack) /\ NoLogin(stack, Len(stack))  BY <2>1 DEF NoUids, NoLogin
    <2> QED  BY <1>1, <2>2 DEF IInv, Fits, Ready, Covered
  <1>3. "Login" \in Kinds /\ "Login" \notin NeedUser /\ "Login" \notin KeepUid
    BY DEF Kinds, NeedUser, KeepUid
  <1>4. \/ /\ "Login" \in NeedUser /\ user = NoUser
           /\ crashed' = "Login" /\ stack' = stack /\ calls' = calls
        \/ Fits(stack', calls', user, profiles, history) /\ crashed' = crashed
    BY <1>1, <1>2, <1>3, Creates
  <1>5. user \in Uids  BY DEF IInv, Fits, Ready
  <1> QED  BY <1>1, <1>3, <1>4, <1>5, CreatedInv

(* A call sent by the activity in front.                                   *)
LEMMA RequestInv ==
    ASSUME IInv, NEW kind, NEW op \in Operations, NEW uid \in Uids, Request(kind, op, uid),
           MadeFrom(op, kind), op \in Scoped => uid # NoUser
    PROVE  IInv'
  <1>1. /\ At(kind) /\ calls' = BagAdd(calls, Sent(op, Len(stack), uid))
        /\ UNCHANGED <<user, accounts, profiles, stack, crashed, history>>
    BY DEF Request
  <1>2. Fits(stack, calls', user, profiles, history)
    BY <1>1, InFront, SentFits DEF IInv
  <1>3. Fits(stack, calls, user, profiles, history)'  BY <1>1, <1>2
  <1> QED  BY <1>1, <1>3 DEF IInv, CrashOK

(* Each screen sends only the calls that it makes.                         *)
LEMMA RequestsInv == IInv /\ Requests => IInv'
  <1> SUFFICES ASSUME IInv, Requests  PROVE IInv'
    OBVIOUS
  <1>1. /\ Operations = {"signIn", "create", "reset", "delete", "check", "store", "post"}
        /\ Scoped = {"signIn", "create"}
    BY DEF Operations, Scoped
  <1>2. /\ MadeFrom("signIn", "Login") /\ MadeFrom("create", "Signin")
        /\ MadeFrom("reset", "Find") /\ MadeFrom("delete", "Profile")
        /\ MadeFrom("store", "Setup") /\ MadeFrom("post", "NewPost")
    BY DEF MadeFrom
  <1>3. ASSUME NEW b \in Accounts, Request("Login", "signIn", b) \/ Request("Signin", "create", b)
        PROVE  IInv'
    <2>1. b \in Uids /\ b # NoUser  BY SessionAssumption DEF Uids
    <2> QED  BY <1>1, <1>2, <1>3, <2>1, RequestInv
  <1>4. CASE Request("Find", "reset", NoUser)
    BY <1>1, <1>2, <1>4, RequestInv DEF Uids
  <1>5. CASE Request("Profile", "delete", user)
    BY <1>1, <1>2, <1>5, RequestInv DEF IInv, Fits, Ready
  <1>6. CASE Request("Setup", "store", Last(stack).uid)
    <2>1. Last(stack).uid \in Uids  BY <1>6, InFront DEF Request, Activities
    <2> QED  BY <1>1, <1>2, <1>6, <2>1, RequestInv
  <1>7. CASE Request("NewPost", "post", Last(stack).uid)
    <2>1. Last(stack).uid \in Uids  BY <1>7, InFront DEF Request, Activities
    <2> QED  BY <1>1, <1>2, <1>7, <2>1, RequestInv
  <1> QED  BY <1>3, <1>4, <1>5, <1>6, <1>7 DEF Requests

(* A screen in front that takes the uid of the current user.               *)
LEMMA UidFits ==
    ASSUME NEW stk, NEW cs, NEW u, NEW pr, NEW h, Fits(stk, cs, u, pr, h),
           stk # <<>>, u # NoUser
    PROVE  Fits([stk EXCEPT ![Len(stk)].uid = u], cs, u, pr, h)
  <1> DEFINE top == Len(stk)
             a == [stk[top] EXCEPT !.uid = u]
             new == [stk EXCEPT ![top] = a]
  <1>1. /\ stk \in Seq(Activities) /\ top \in 1..top /\ top \in Nat
        /\ DOMAIN stk = 1..top /\ u \in Uids
    BY BelowStack, LenProperties DEF Fits, Ready
  <1>2. stk[top] \in Activities  BY <1>1, ElementOfSeq
  <1>3. a \in Activities /\ a.kind = stk[top].kind /\ a.uid = u
    BY <1>1, <1>2 DEF Activities
  <1> HIDE DEF a
  <1>4. /\ new \in Seq(Activities) /\ Len(new) = top
        /\ \A j \in 1..top : new[j] = IF j = top THEN a ELSE stk[j]
    BY <1>1, <1>3, ExceptSeq
  <1>5. new # <<>> /\ DOMAIN new = 1..top  BY <1>1, <1>4, LenProperties, EmptySeq
  <1> HIDE DEF new
  <1>6. \A j \in 1..top : new[j].kind = stk[j].kind  BY <1>3, <1>4
  <1>7. Owned(new, cs) /\ Heard(new, cs)
    <2>1. ASSUME NEW c \in DOMAIN cs, c.owner # 0  PROVE MadeFrom(c.op, new[c.owner].kind)
      <3>1. c.owner \in 1..top  BY <1>1, <2>1 DEF Fits, Ready, Owned, AnyCall
      <3> QED  BY <1>6, <2>1, <3>1 DEF Fits, Ready, Owned
    <2> QED  BY <1>4, <2>1 DEF Fits, Ready, Owned, Heard
  <1>8. /\ Over(stk) => Over(new)
        /\ NoLogin(stk, top - 1) => NoLogin(new, Len(new) - 1)
        /\ Posters(stk, cs, u, pr) => Posters(new, cs, u, pr)
    BY <1>1, <1>4, <1>5, <1>6 DEF Over, NoLogin, Posters
  <1>9. Kept(stk, u) => Kept(new, u)  BY <1>1, <1>3, <1>4, <1>5 DEF Kept
  <1>10. /\ AtLogin(stk, cs, u) => AtLogin(new, cs, u)
         /\ AtHome(stk, cs, u, pr) => AtHome(new, cs, u, pr)
    BY <1>1, <1>4, <1>6 DEF AtLogin, AtHome
  <1>11. Ready(new, cs, u, pr, h)
    BY <1>4, <1>7, <1>8, <1>9, <1>10 DEF Fits, Ready
  <1>12. Fits(new, cs, u, pr, h)  BY <1>7, <1>10, <1>11 DEF Fits
  <1> QED  BY <1>12 DEF new, a

(* SetupActivity uploads a picture before the profile is stored.           *)
LEMMA SaveNewPictureInv == IInv /\ SaveNewPicture => IInv'
  <1> SUFFICES ASSUME IInv, SaveNewPicture  PROVE IInv'
    OBVIOUS
  <1>1. /\ At("Setup")
        /\ UNCHANGED <<user, accounts, profiles, history>>
    BY DEF SaveNewPicture
  <1>2. \/ /\ user # NoUser
           /\ stack' = [stack EXCEPT ![Len(stack)].uid = user]
           /\ calls' = BagAdd(calls, Sent("store", Len(stack), user))
           /\ crashed' = crashed
        \/ /\ user = NoUser /\ crashed' = "Setup" /\ stack' = stack /\ calls' = calls
    BY DEF SaveNewPicture
  <1>3. CASE /\ user # NoUser
             /\ stack' = [stack EXCEPT ![Len(stack)].uid = user]
             /\ calls' = BagAdd(calls, Sent("store", Len(stack), user))
             /\ crashed' = crashed
    <2>1. "store" \in Operations /\ MadeFrom("store", "Setup")  BY DEF Operations, MadeFrom
    <2>2. Fits(stack, calls', user, profiles, history)
      BY <1>1, <1>3, <2>1, InFront, SentFits DEF IInv
    <2>3. Fits(stack', calls', user, profiles, history)
      BY <1>1, <1>3, <2>2, InFront, UidFits
    <2>4. Fits(stack, calls, user, profiles, history)'  BY <1>1, <2>3
    <2> QED  BY <1>1, <1>3, <2>4 DEF IInv, CrashOK
  <1>4. CASE user = NoUser /\ crashed' = "Setup" /\ stack' = stack /\ calls' = calls
    <2>1. ~("late" \notin history)
      BY <1>1, <1>4, InFront DEF IInv, Fits, Ready, Kept, KeepUid
    <2>2. Fits(stack, calls, user, profiles, history)'  BY <1>1, <1>4 DEF IInv
    <2> QED  BY <1>1, <2>1, <2>2 DEF IInv, CrashOK
  <1> QED  BY <1>2, <1>3, <1>4

(* Deleting with nobody signed in ends the app.                            *)
LEMMA DeleteCrashesInv == IInv /\ DeleteCrashes => IInv'
  <1> SUFFICES ASSUME IInv, DeleteCrashes  PROVE IInv'
    OBVIOUS
  <1>1. /\ crashed' = "Delete"
        /\ UNCHANGED <<user, accounts, profiles, stack, calls, history>>
    BY DEF DeleteCrashes
  <1>2. Fits(stack, calls, user, profiles, history)'  BY <1>1 DEF IInv
  <1> QED  BY <1>1, <1>2 DEF IInv, CrashOK

(* The server answers: if that changes who is signed in and is not late,   *)
(* the screen in front is one that keeps no uid, and so are those below.   *)
LEMMA AnswerInv ==
    ASSUME IInv, NEW c \in DOMAIN calls, NEW phase \in {"ok", "missing", "failed"},
           Answer(c, phase)
    PROVE  IInv'
  <1> DEFINE d == [c EXCEPT !.phase = phase]
             ok == phase = "ok"
             top == stack[Len(stack)].kind
  <1>1. /\ c.phase = "sent" /\ CanAnswer(c, phase)
        /\ user' = IF ok /\ c.op \in Scoped THEN c.uid
                   ELSE IF ok /\ c.op = "delete" /\ user = c.uid THEN NoUser ELSE user
        /\ profiles' = IF ok /\ c.op = "store" THEN profiles \cup {c.uid} ELSE profiles
        /\ calls' = BagAdd(BagRemove(calls, c), d)
        /\ Note((IF user' # user THEN Late(c) ELSE {})
                \cup (IF phase = "failed" /\ c.op = "check" THEN {"unchecked"} ELSE {}))
        /\ stack' = stack /\ crashed' = crashed
    BY DEF Answer
  <1>2. /\ c \in AnyCall /\ c.owner <= Len(stack) /\ c.uid \in Uids
        /\ c.owner # 0 => MadeFrom(c.op, stack[c.owner].kind)
        /\ c.op \in Scoped => c.uid # NoUser /\ c.owner \in {0, Len(stack)}
    BY DEF IInv, Fits, Ready, Owned, Known, Heard, AnyCall
  <1>3. /\ d \in AnyCall /\ d.op = c.op /\ d.uid = c.uid /\ d.owner = c.owner
        /\ d.phase = phase
    BY <1>2 DEF AnyCall
  <1>4. /\ DOMAIN calls' \subseteq DOMAIN calls \cup {d}
        /\ (DOMAIN calls \ {c}) \cup {d} \subseteq DOMAIN calls'
    <2>1. DOMAIN calls' = (DOMAIN BagRemove(calls, c)) \cup {d}  BY <1>1, AddDomain
    <2>2. /\ DOMAIN BagRemove(calls, c) \subseteq DOMAIN calls
          /\ DOMAIN calls \ {c} \subseteq DOMAIN BagRemove(calls, c)
      BY RemoveDomain
    <2> QED  BY <2>1, <2>2
  <1> HIDE DEF d
  <1>5. /\ stack \in Seq(Activities) /\ user \in Uids /\ user' \in Uids
        /\ Len(stack) \in Nat /\ DOMAIN stack = 1..Len(stack)
        /\ stack # <<>> => Len(stack) # 0
    BY <1>1, <1>2, LenProperties, EmptySeq DEF IInv, Fits, Ready, Uids
  <1>6. "late" \notin history' =>
           /\ "late" \notin history /\ history \subseteq history'
           /\ user' # user => stack # <<>> /\ c.owner = Len(stack)
           /\ phase = "failed" /\ c.op = "check" => "unchecked" \in history'
    <2>1. "late" \notin history' =>
             /\ history \subseteq history'
             /\ "late" \notin (IF user' # user THEN Late(c) ELSE {})
             /\ phase = "failed" /\ c.op = "check" => "unchecked" \in history'
      BY <1>1, NoteLater
    <2> QED  BY <2>1 DEF Late
  <1>7. Owned(stack, calls') /\ Heard(stack, calls')
    BY <1>2, <1>3, <1>4 DEF IInv, Fits, Ready, Owned, Heard
  <1>8. profiles \subseteq profiles'  BY <1>1
  <1>9. Known(calls', profiles')
    <2>1. c.op = "check" /\ phase = "ok" => c.uid \in profiles  BY <1>1 DEF CanAnswer
    <2> QED  BY <1>2, <1>3, <1>4, <1>8, <2>1 DEF IInv, Fits, Ready, Known
  <1>10. ASSUME "late" \notin history', user' # user
         PROVE  top \in {"Login", "Signin", "Profile"}
    <2>1. MadeFrom(c.op, top)  BY <1>2, <1>5, <1>6, <1>10
    <2>2. c.op \in Scoped \cup {"delete"}  BY <1>1, <1>10
    <2> QED  BY <2>1, <2>2 DEF MadeFrom, Scoped
  <1>11. ASSUME "late" \notin history'
         PROVE  /\ Over(stack) /\ Kept(stack, user')
                /\ user' # user => NoUids(stack)
    <2>1. Over(stack) /\ Kept(stack, user)  BY <1>6, <1>11 DEF IInv, Fits, Ready
    <2>2. ASSUME user' # user  PROVE NoUids(stack)
      <3>1. stack # <<>> /\ top \notin OverFeed \cup KeepUid
        BY <1>6, <1>10, <1>11, <2>2 DEF OverFeed, KeepUid
      <3> QED  BY <1>5, <2>1, <3>1, UnderOthers DEF NoUids
    <2> QED  BY <2>1, <2>2 DEF Kept, NoUids
  <1>12. ASSUME "late" \notin history'  PROVE SignedIn(calls', user')
    <2>1. CASE c.op \in Scoped /\ ok
      <3>1. user' # NoUser  BY <1>1, <1>2, <2>1
      <3> QED  BY <3>1 DEF SignedIn
    <2>2. CASE user' = user /\ ~(c.op \in Scoped /\ ok)
      BY <1>3, <1>4, <1>6, <1>12, <2>2 DEF IInv, Fits, Ready, SignedIn
    <2>3. CASE user' # user /\ ~(c.op \in Scoped /\ ok)
      <3>1. c.op = "delete" /\ c.owner = Len(stack) /\ Len(stack) # 0
        BY <1>1, <1>5, <1>6, <1>12, <2>3
      <3>2. top = "Profile"  BY <1>2, <3>1 DEF MadeFrom
      <3>3. ASSUME NEW e \in DOMAIN calls', e.op \in Scoped, e.owner # 0  PROVE FALSE
        <4>1. e.owner = Len(stack)  BY <1>7, <3>3 DEF Heard
        <4>2. MadeFrom(e.op, top)  BY <1>7, <3>3, <4>1 DEF Owned
        <4> QED  BY <3>2, <3>3, <4>2 DEF MadeFrom, Scoped
      <3> QED  BY <3>3 DEF SignedIn
    <2> QED  BY <2>1, <2>2, <2>3
  <1>13. ASSUME "late" \notin history', "bypassed" \notin history'
         PROVE  NoLogin(stack, Len(stack) - 1) /\ AtLogin(stack, calls', user')
    <2>1. NoLogin(stack, Len(stack) - 1) /\ AtLogin(stack, calls, user)
      BY <1>6, <1>13 DEF IInv, Fits, Ready
    <2>2. Awaited(calls) => Awaited(calls')  BY <1>1, <1>4 DEF Awaited
    <2>3. user' # user /\ user' # NoUser => Awaited(calls')
      BY <1>1, <1>3, <1>4 DEF Awaited
    <2> QED  BY <2>1, <2>2, <2>3 DEF AtLogin
  <1>14. ASSUME "late" \notin history', "unchecked" \notin history'
         PROVE  NoneFailed(calls')
    BY <1>3, <1>4, <1>6, <1>14 DEF IInv, Fits, Ready, NoneFailed
  <1>15. ASSUME "late" \notin history', stack # <<>>, top = "Home"
         PROVE  user' = user
    BY <1>10, <1>15
  <1>16. ASSUME "late" \notin history', "unchecked" \notin history'
         PROVE  /\ Posters(stack, calls', user', profiles')
                /\ AtHome(stack, calls', user', profiles')
    <2>1. Posters(stack, calls, user, profiles) /\ AtHome(stack, calls, user, profiles)
      BY <1>6, <1>16 DEF IInv, Fits, Ready
    <2>2. CheckedFor(calls, user) => CheckedFor(calls', user)
      BY <1>3, <1>4 DEF CheckedFor
    <2>3. Posters(stack, calls', user', profiles')
      <3>1. CASE user' = user  BY <1>8, <2>1, <2>2, <3>1 DEF Posters
      <3>2. CASE NoUids(stack)  BY <3>2 DEF NoUids, Posters, KeepUid
      <3> QED  BY <1>11, <1>16, <3>1, <3>2
    <2>4. AtHome(stack, calls', user', profiles')
      BY <1>8, <1>15, <1>16, <2>1, <2>2 DEF AtHome
    <2> QED  BY <2>3, <2>4
  <1>17. "late" \notin history' =>
            (stack # <<>> /\ stack[Len(stack)].kind = "Home" => user' # NoUser)
    BY <1>6, <1>15 DEF IInv, Fits
  <1>18. Ready(stack, calls', user', profiles', history')
    BY <1>5, <1>7, <1>9, <1>11, <1>12, <1>13, <1>14, <1>16 DEF Ready
  <1>19. Fits(stack, calls', user', profiles', history')
    BY <1>7, <1>16, <1>17, <1>18 DEF Fits
  <1>20. Fits(stack, calls, user, profiles, history)'  BY <1>1, <1>19
  <1>21. CrashOK'  BY <1>1, <1>6 DEF IInv, CrashOK
  <1> QED  BY <1>20, <1>21 DEF IInv

(* A handler that leaves the screens alone has run, or will never run.     *)
LEMMA HandledFits ==
    ASSUME NEW stk, NEW cs, NEW u, NEW pr, NEW h, Fits(stk, cs, u, pr, h),
           NEW c \in DOMAIN cs,
           c.op \in Scoped /\ c.phase = "ok" /\ "late" \notin h => "bypassed" \in h,
           c.op = "check" => c.phase \in {"ok", "failed"}
    PROVE  Fits(stk, BagRemove(cs, c), u, pr, h)
  <1> DEFINE ds == BagRemove(cs, c)
  <1>1. DOMAIN ds \subseteq DOMAIN cs /\ DOMAIN cs \ {c} \subseteq DOMAIN ds
    BY RemoveDomain
  <1> HIDE DEF ds
  <1>2. /\ Owned(stk, ds) /\ Heard(stk, ds)
        /\ SignedIn(cs, u) => SignedIn(ds, u)
        /\ NoneFailed(cs) => NoneFailed(ds)
    BY <1>1, FewerCallsHold DEF Fits, Ready
  <1>3. Known(ds, pr)  BY <1>1, FewerCallsHold DEF Fits, Ready
  <1>4. "late" \notin h /\ "bypassed" \notin h /\ AtLogin(stk, cs, u) => AtLogin(stk, ds, u)
    BY <1>1 DEF AtLogin, Awaited
  <1>5. ASSUME NoneFailed(cs), u \notin pr, CheckedFor(cs, u)  PROVE CheckedFor(ds, u)
    <2>1. PICK e \in DOMAIN cs : e.op = "check" /\ e.uid = u  BY <1>5 DEF CheckedFor
    <2>2. e # c  BY <1>5, <2>1 DEF NoneFailed, Fits, Ready, Known
    <2> QED  BY <1>1, <2>1, <2>2 DEF CheckedFor
  <1>6. NoneFailed(cs) => /\ Posters(stk, cs, u, pr) => Posters(stk, ds, u, pr)
                          /\ AtHome(stk, cs, u, pr) => AtHome(stk, ds, u, pr)
    BY <1>5 DEF Posters, AtHome
  <1>7. Ready(stk, ds, u, pr, h)  BY <1>2, <1>3, <1>4, <1>6 DEF Fits, Ready
  <1>8. Fits(stk, ds, u, pr, h)  BY <1>2, <1>6, <1>7 DEF Fits, Ready
  <1> QED  BY <1>8 DEF ds

(* Answers that only tell the user something.                              *)
LEMMA ReportInv ==
    ASSUME IInv, NEW c \in DOMAIN calls, Report(c),
           ~(c.op \in Scoped /\ c.phase = "ok"),
           c.op = "check" => c.phase \in {"ok", "failed"}
    PROVE  IInv'
  <1>1. /\ calls' = BagRemove(calls, c)
        /\ UNCHANGED <<user, accounts, profiles, stack, crashed, history>>
    BY DEF Report
  <1>2. Fits(stack, calls', user, profiles, history)  BY <1>1, HandledFits DEF IInv
  <1>3. Fits(stack, calls, user, profiles, history)'  BY <1>1, <1>2
  <1> QED  BY <1>1, <1>3 DEF IInv, CrashOK

(* An answer whose listener is gone.                                       *)
LEMMA UnheardInv ==
    ASSUME IInv, NEW c \in DOMAIN calls, Unheard(c)
    PROVE  IInv'
  <1>1. /\ c.op \in Scoped /\ calls' = BagRemove(calls, c)
        /\ Note(IF c.phase = "ok" THEN {"bypassed"} ELSE {})
        /\ UNCHANGED <<user, accounts, profiles, stack, crashed>>
    BY DEF Unheard
  <1>2. "late" \notin history' =>
           history \subseteq history' /\ (c.phase = "ok" => "bypassed" \in history')
    BY <1>1, NoteLater
  <1>3. Fits(stack, calls, user, profiles, history')  BY <1>2, FitsLater DEF IInv
  <1>4. Fits(stack, calls', user, profiles, history')
    BY <1>1, <1>2, <1>3, HandledFits DEF Scoped
  <1>5. Fits(stack, calls, user, profiles, history)'  BY <1>1, <1>4
  <1> QED  BY <1>1, <1>2, <1>5 DEF IInv, CrashOK

(* A handler that finishes its activity and starts the next one, and what  *)
(* it must find on the rest of the stack unless it counts as late.         *)
LEMMA ReplaceInv ==
    ASSUME IInv, NEW c \in DOMAIN calls, NEW kind \in Kinds, NEW events,
           Replace(c, kind, events), kind # "NewPost",
           "late" \notin history' /\ user = NoUser => kind \notin KeepUid,
           "late" \notin history' =>
              \A j \in DOMAIN stack : j # c.owner =>
                 /\ kind \notin OverFeed => stack[j].kind \notin KeepUid
                 /\ "bypassed" \notin history' => stack[j].kind # "Login"
                 /\ c.op = "check" => stack[j].kind # "NewPost"
    PROVE  IInv'
  <1> DEFINE cs == BagRemove(calls, c)
             i == c.owner
             stk == IF i = 0 THEN stack ELSE RemoveAt(stack, i)
             ds == IF i = 0 THEN cs ELSE Finished(cs, i)
  <1>1. /\ Create(stk, kind, ds, user)
        /\ Note(events)
        /\ user' = user /\ profiles' = profiles
    BY DEF Replace
  <1>2. "late" \notin history' => history \subseteq history'
    BY <1>1, NoteLater
  <1>3. Ready(stack, calls, user, profiles, history')
    BY <1>2, FitsLater DEF IInv, Fits
  <1>4. /\ stack \in Seq(Activities) /\ user \in Uids /\ Len(stack) \in Nat
        /\ DOMAIN stack = 1..Len(stack) /\ i \in Nat /\ i <= Len(stack)
    BY <1>3, LenProperties DEF Ready, Owned, AnyCall
  <1>5. DOMAIN cs \subseteq DOMAIN calls /\ DOMAIN calls \ {c} \subseteq DOMAIN cs
    BY RemoveDomain
  <1> HIDE DEF cs
  <1>6. Owned(stack, cs)  BY <1>3, <1>5, FewerCallsHold DEF Ready
  <1>7. /\ stk \in Seq(Activities) /\ Owned(stk, ds) /\ SameCalls(cs, ds)
        /\ Over(stack) => Over(stk)
        /\ \A j \in DOMAIN stk : \E k \in DOMAIN stack : k # i /\ stk[j] = stack[k]
    <2>1. CASE i = 0
      <3>1. SameCalls(cs, ds)  BY <2>1 DEF SameCalls, Like
      <3>2. \A j \in DOMAIN stack : j # i  BY <1>4, <2>1
      <3> QED  BY <1>4, <1>6, <2>1, <3>1, <3>2
    <2>2. CASE i # 0
      <3>1. i \in 1..Len(stack)  BY <1>4, <2>2
      <3> QED  BY <1>4, <1>6, <2>2, <3>1, FinishedOwned, RemovedStack, RemoveAtStack
    <2> QED  BY <2>1, <2>2
  <1> HIDE DEF stk, ds, i
  <1>8. /\ Known(ds, profiles)
        /\ "late" \notin history' => SignedIn(ds, user)
        /\ "late" \notin history' /\ "unchecked" \notin history' => NoneFailed(ds)
    <2>1. /\ Known(cs, profiles)
          /\ "late" \notin history' => SignedIn(cs, user)
          /\ "late" \notin history' /\ "unchecked" \notin history' => NoneFailed(cs)
      BY <1>3, <1>5, FewerCallsHold DEF Ready
    <2> QED  BY <1>7, <2>1, SameCallsHold
  <1>9. ASSUME "late" \notin history'
        PROVE  /\ Over(stk) /\ Kept(stk, user)
               /\ kind \notin OverFeed => NoUids(stk)
               /\ "bypassed" \notin history' => NoLogin(stk, Len(stk))
               /\ "unchecked" \notin history' => Posters(stk, ds, user, profiles)
    <2>1. Over(stack) /\ Kept(stack, user)  BY <1>3, <1>9 DEF Ready
    <2>2. Over(stk) /\ Kept(stk, user)  BY <1>7, <2>1 DEF Kept
    <2>3. kind \notin OverFeed => NoUids(stk)  BY <1>7, <1>9 DEF NoUids, i
    <2>4. "bypassed" \notin history' => NoLogin(stk, Len(stk))
      BY <1>7, <1>9 DEF NoLogin, i
    <2>5. ASSUME "unchecked" \notin history'  PROVE Posters(stk, ds, user, profiles)
      <3>1. CASE c.op = "check"
        <4>1. \A j \in DOMAIN stk : stk[j].kind # "NewPost"
          BY <1>7, <1>9, <3>1 DEF i
        <4> QED  BY <4>1 DEF Posters
      <3>2. CASE c.op # "check"
        <4>1. CheckedFor(calls, user) => CheckedFor(cs, user)
          BY <1>5, <3>2 DEF CheckedFor
        <4>2. CheckedFor(cs, user) => CheckedFor(ds, user)  BY <1>7, SameCallsHold
        <4>3. Posters(stack, calls, user, profiles)  BY <1>3, <1>9, <2>5 DEF Ready
        <4> QED  BY <1>7, <4>1, <4>2, <4>3 DEF Posters
      <3> QED  BY <3>1, <3>2
    <2> QED  BY <2>2, <2>3, <2>4, <2>5
  <1>10. Covered(stk, kind, ds, user, profiles, history')
    BY <1>4, <1>7, <1>8, <1>9 DEF Covered
  <1>11. \/ /\ kind \in NeedUser /\ user = NoUser
            /\ crashed' = kind /\ stack' = stack /\ calls' = calls
         \/ Fits(stack', calls', user, profiles, history') /\ crashed' = crashed
    BY <1>1, <1>10, Creates
  <1> QED  BY <1>1, <1>2, <1>4, <1>11, CreatedInv

(* A handler of the activity in front: over others than the feed's there   *)
(* is nothing in its way.                                                  *)
LEMMA InOrderInv ==
    ASSUME IInv, NEW c \in DOMAIN calls, NEW kind \in Kinds \ {"NewPost"},
           Replace(c, kind, Late(c)), c.op \notin {"check", "post"},
           "late" \notin history' /\ user = NoUser => kind \notin KeepUid
    PROVE  IInv'
  <1>1. Note(Late(c))  BY DEF Replace
  <1>2. ASSUME "late" \notin history'
        PROVE  /\ stack \in Seq(Activities) /\ stack # <<>> /\ c.owner = Len(stack)
               /\ Len(stack) \in Nat \ {0} /\ DOMAIN stack = 1..Len(stack)
               /\ Over(stack) /\ ("bypassed" \notin history' => NoLogin(stack, Len(stack) - 1))
               /\ MadeFrom(c.op, stack[Len(stack)].kind)
    <2>1. "late" \notin Late(c) /\ history \subseteq history'
      BY <1>1, <1>2, NoteLater
    <2>2. stack # <<>> /\ c.owner = Len(stack)  BY <2>1 DEF Late
    <2>3. /\ stack \in Seq(Activities) /\ Over(stack)
          /\ "bypassed" \notin history' => NoLogin(stack, Len(stack) - 1)
          /\ c.owner # 0 => MadeFrom(c.op, stack[c.owner].kind)
      BY <1>2, <2>1 DEF IInv, Fits, Ready, Owned
    <2>4. Len(stack) \in Nat \ {0} /\ DOMAIN stack = 1..Len(stack)
      BY <2>2, <2>3, LenProperties, EmptySeq
    <2> QED  BY <2>2, <2>3, <2>4
  <1>3. ASSUME "late" \notin history', NEW j \in DOMAIN stack, j # c.owner
        PROVE  /\ stack[j].kind \notin KeepUid
               /\ "bypassed" \notin history' => stack[j].kind # "Login"
    <2>1. stack[Len(stack)].kind \notin OverFeed  BY <1>2, <1>3 DEF MadeFrom, OverFeed
    <2>2. stack[j].kind \notin KeepUid  BY <1>2, <1>3, <2>1, UnderOthers
    <2>3. j <= Len(stack) - 1  BY <1>2, <1>3
    <2> QED  BY <1>2, <1>3, <2>2, <2>3 DEF NoLogin
  <1> QED  BY <1>3, ReplaceInv

(* A profile that is missing: whoever is in front of the feed is sent to   *)
(* SetupActivity, in order if nothing below keeps a uid.                   *)
LEMMA MissingInv ==
    ASSUME IInv, NEW c \in DOMAIN calls, c.op = "check",
           Replace(c, "Setup", Late(c) \cup OverUids)
    PROVE  IInv'
  <1>1. Note(Late(c) \cup OverUids)  BY DEF Replace
  <1>2. ASSUME "late" \notin history'
        PROVE  /\ c.owner = Len(stack) /\ Len(stack) \in Nat \ {0}
               /\ DOMAIN stack = 1..Len(stack)
               /\ \A j \in 1..(Len(stack) - 1) : stack[j].kind \notin KeepUid
               /\ "bypassed" \notin history' => NoLogin(stack, Len(stack) - 1)
               /\ user # NoUser
    <2>1. "late" \notin Late(c) \cup OverUids /\ history \subseteq history'
      BY <1>1, <1>2, NoteLater
    <2>2. stack # <<>> /\ c.owner = Len(stack)  BY <2>1 DEF Late
    <2>3. \A j \in 1..(Len(stack) - 1) : stack[j].kind \notin KeepUid  BY <2>1 DEF OverUids
    <2>4. /\ stack \in Seq(Activities)
          /\ "bypassed" \notin history' => NoLogin(stack, Len(stack) - 1)
          /\ c.owner # 0 => MadeFrom(c.op, stack[c.owner].kind)
          /\ stack[Len(stack)].kind = "Home" => user # NoUser
      BY <1>2, <2>1, <2>2 DEF IInv, Fits, Ready, Owned
    <2>5. Len(stack) \in Nat \ {0} /\ DOMAIN stack = 1..Len(stack)
      BY <2>2, <2>4, LenProperties, EmptySeq
    <2>6. stack[Len(stack)].kind = "Home"  BY <2>2, <2>4, <2>5 DEF MadeFrom
    <2> QED  BY <2>2, <2>3, <2>4, <2>5, <2>6
  <1>3. ASSUME "late" \notin history', NEW j \in DOMAIN stack, j # c.owner
        PROVE  /\ stack[j].kind \notin KeepUid
               /\ "bypassed" \notin history' => stack[j].kind # "Login"
    <2>1. j \in 1..(Len(stack) - 1) /\ j <= Len(stack) - 1  BY <1>2, <1>3
    <2> QED  BY <1>2, <1>3, <2>1 DEF NoLogin
  <1>4. "Setup" \in Kinds /\ "NewPost" \in KeepUid  BY DEF Kinds, KeepUid
  <1> QED  BY <1>2, <1>3, <1>4, ReplaceInv

(* The feed that a post opens, whenever its acknowledgement comes.         *)
LEMMA PostedInv ==
    ASSUME IInv, NEW c \in DOMAIN calls, c.op = "post",
           Replace(c, "Home", Bypassing)
    PROVE  IInv'
  <1>1. Note(Bypassing)  BY DEF Replace
  <1>2. ASSUME "late" \notin history', "bypassed" \notin history', NEW j \in DOMAIN stack
        PROVE  stack[j].kind # "Login"
    <2>1. Bypassing \subseteq history' /\ history \subseteq history'
      BY <1>1, <1>2, NoteLater
    <2>2. stack \in Seq(Activities) /\ NoLogin(stack, Len(stack) - 1)
      BY <1>2, <2>1 DEF IInv, Fits, Ready
    <2>3. Len(stack) \in Nat /\ DOMAIN stack = 1..Len(stack)  BY <2>2, LenProperties
    <2>4. CASE j = Len(stack)
      <3>1. stack # <<>>  BY <2>3, <2>4, EmptySeq
      <3>2. Bypassing = {}  BY <1>2, <2>1 DEF Bypassing
      <3> QED  BY <2>4, <3>1, <3>2 DEF Bypassing, Last
    <2>5. CASE j <= Len(stack) - 1  BY <2>2, <2>5 DEF NoLogin
    <2> QED  BY <2>3, <2>4, <2>5
  <1>3. "Home" \in Kinds /\ "Home" \in OverFeed /\ "Home" \notin KeepUid
    BY DEF Kinds, OverFeed, KeepUid
  <1> QED  BY <1>2, <1>3, ReplaceInv

(* The handlers.  SetupActivity is only started in order by the handlers   *)
(* of a new account and of a check, and both leave somebody signed in.     *)
LEMMA HandleInv ==
    ASSUME IInv, NEW c \in DOMAIN calls, Handle(c)
    PROVE  IInv'
  <1>1. /\ c.phase \in {"ok", "missing", "failed"} /\ c.op \in Operations
        /\ c.owner # 0 => MadeFrom(c.op, stack[c.owner].kind)
    BY DEF Handle, IInv, Fits, Ready, Owned, AnyCall
  <1>2. /\ {"Main", "Setup", "Login"} \subseteq Kinds \ {"NewPost"}
        /\ {"Main", "Login"} \cap KeepUid = {}
        /\ Scoped = {"signIn", "create"}
    BY DEF Kinds, KeepUid, Scoped
  <1>3. ASSUME NEW kind \in {"Main", "Login"}, Replace(c, kind, Late(c)),
               c.op \notin {"check", "post"}
        PROVE  IInv'
    BY <1>2, <1>3, InOrderInv
  <1>4. ASSUME Replace(c, "Setup", Late(c)), c.op = "create", c.phase = "ok", c.owner # 0
        PROVE  IInv'
    <2>1. Note(Late(c))  BY <1>4 DEF Replace
    <2>2. ASSUME "late" \notin history'  PROVE user # NoUser
      <3>1. "late" \notin history  BY <2>1, <2>2, NoteLater
      <3> QED  BY <1>2, <1>4, <3>1 DEF IInv, Fits, Ready, SignedIn
    <2> QED  BY <1>2, <1>4, <2>2, InOrderInv
  <1>5. CASE Unheard(c)  BY <1>5, UnheardInv
  <1>6. CASE OnSignIn(c)
    <2>1. c.op = "signIn" /\ IF c.phase = "ok" THEN Replace(c, "Main", Late(c)) ELSE Report(c)
      BY <1>6 DEF OnSignIn
    <2> QED  BY <1>2, <1>3, <2>1, ReportInv
  <1>7. CASE OnCreateUser(c)
    <2>1. /\ c.owner # 0 /\ c.op = "create"
          /\ IF c.phase = "ok" THEN Replace(c, "Setup", Late(c)) ELSE Report(c)
      BY <1>7 DEF OnCreateUser
    <2> QED  BY <1>2, <1>4, <2>1, ReportInv
  <1>8. CASE OnReset(c)
    <2>1. c.op = "reset" /\ IF c.phase = "ok" THEN Replace(c, "Login", Late(c)) ELSE Report(c)
      BY <1>8 DEF OnReset
    <2> QED  BY <1>2, <1>3, <2>1, ReportInv
  <1>9. CASE OnDelete(c)  BY <1>3, <1>9 DEF OnDelete
  <1>10. CASE OnCheck(c)
    <2>1. /\ c.op = "check"
          /\ IF c.phase = "missing" THEN Replace(c, "Setup", Late(c) \cup OverUids) ELSE Report(c)
      BY <1>10 DEF OnCheck
    <2> QED  BY <1>1, <1>2, <2>1, MissingInv, ReportInv
  <1>11. CASE OnStore(c)
    <2>1. c.op = "store" /\ IF c.phase = "ok" THEN Replace(c, "Main", Late(c)) ELSE Report(c)
      BY <1>11 DEF OnStore
    <2> QED  BY <1>2, <1>3, <2>1, ReportInv
  <1>12. CASE OnPost(c)
    <2>1. c.op = "post" /\ IF c.phase = "ok" THEN Replace(c, "Home", Bypassing) ELSE Report(c)
      BY <1>12 DEF OnPost
    <2> QED  BY <1>2, <2>1, PostedInv, ReportInv
  <1> QED
    BY <1>5, <1>6, <1>7, <1>8, <1>9, <1>10, <1>11, <1>12 DEF Handle

-----------------------------------------------------------------------------
(* The invariant of the program.                                           *)

(* At first the login is alone on the stack and nobody is signed in.       *)
LEMMA InitHolds == Init => IInv
  <1> SUFFICES ASSUME Init  PROVE IInv
    OBVIOUS
  <1> DEFINE a == [kind |-> "Login", uid |-> NoUser]
  <1>1. /\ user = NoUser /\ stack = <<a>> /\ calls = EmptyBag
        /\ crashed = "no" /\ history = {}
    BY DEF Init
  <1>2. a \in Activities /\ a.kind = "Login"  BY DEF Activities, Kinds, Uids
  <1>3. DOMAIN calls = {}  BY <1>1 DEF EmptyBag, SetToBag
  <1> HIDE DEF a
  <1>4. stack \in Seq(Activities) /\ Len(stack) = 1 /\ stack[1] = a  BY <1>1, <1>2
  <1>5. stack # <<>> /\ DOMAIN stack = {1}  BY <1>4, LenProperties, EmptySeq
  <1>6. Owned(stack, calls) /\ Heard(stack, calls) /\ Known(calls, profiles)
    BY <1>3 DEF Owned, Heard, Known
  <1>7. Over(stack) /\ Kept(stack, user) /\ NoLogin(stack, Len(stack) - 1)
    BY <1>2, <1>4, <1>5 DEF Over, Kept, KeepUid, NoLogin
  <1>8. /\ SignedIn(calls, user) /\ AtLogin(stack, calls, user) /\ NoneFailed(calls)
    BY <1>1, <1>3 DEF SignedIn, AtLogin, NoneFailed
  <1>9. stack[Len(stack)].kind = "Login"  BY <1>2, <1>4
  <1>10. Posters(stack, calls, user, profiles) /\ AtHome(stack, calls, user, profiles)
    BY <1>2, <1>4, <1>5, <1>9 DEF Posters, AtHome
  <1>11. user \in Uids  BY <1>1 DEF Uids
  <1>12. Ready(stack, calls, user, profiles, history)
    BY <1>4, <1>6, <1>7, <1>8, <1>10, <1>11 DEF Ready
  <1>13. Fits(stack, calls, user, profiles, history)
    BY <1>6, <1>9, <1>10, <1>12 DEF Fits
  <1> QED  BY <1>1, <1>13 DEF IInv, CrashOK

(* Every step, by the lemma of its action.                                 *)
LEMMA NextHolds == IInv /\ [Next]_vars => IInv'
  <1> SUFFICES ASSUME IInv, [Next]_vars  PROVE IInv'
    OBVIOUS
  <1>1. CASE UNCHANGED vars
    <2>1. Fits(stack, calls, user, profiles, history)'  BY <1>1 DEF vars, IInv
    <2> QED  BY <1>1, <2>1 DEF vars, IInv, CrashOK
  <1>2. CASE Navigate  BY <1>2, NavigateInv
  <1>3. CASE Logout  BY <1>3, LogoutInv
  <1>4. CASE Back  BY <1>4, BackInv
  <1>5. CASE LeaveAndReturn  BY <1>5, LeaveAndReturnInv
  <1>6. CASE Launch  BY <1>6, LaunchInv
  <1>7. CASE Requests  BY <1>7, RequestsInv
  <1>8. CASE SaveNewPicture  BY <1>8, SaveNewPictureInv
  <1>9. CASE DeleteCrashes  BY <1>9, DeleteCrashesInv
  <1>10. ASSUME NEW c \in BagToSet(calls),
                \/ \E phase \in {"ok", "missing", "failed"} : Answer(c, phase)
                \/ Handle(c)
         PROVE  IInv'
    BY <1>10, AnswerInv, HandleInv DEF BagToSet
  <1> QED
    BY <1>1, <1>2, <1>3, <1>4, <1>5, <1>6, <1>7, <1>8, <1>9, <1>10 DEF Next

(* In every state: each call's owner is an activity that makes such calls, *)
(* with what in-order behaviours add about the screens and who is signed   *)
(* in.                                                                     *)
THEOREM Invariance == Spec => []IInv
  BY InitHolds, NextHolds, PTL DEF Spec

(* As long as answers reach an activity that is in front, a uid kept in a  *)
(* field is the current user's, nobody signed in sits at LoginActivity     *)
(* without a handler to take him on, and only ProfileActivity is opened    *)
(* with nobody signed in; a post may be acknowledged at any time, and its  *)
(* feed then comes over whatever is in front.                              *)
THEOREM ScreensMatch == Spec => []ScreensMatchUser
  <1>1. IInv => ScreensMatchUser
    <2> SUFFICES ASSUME IInv, InOrder({"late"})  PROVE
            /\ UidsCurrent
            /\ InOrder({"bypassed"}) => LoginForNobody
            /\ crashed \in {"no", "Profile", "Delete"}
      BY DEF ScreensMatchUser
    <2>1. "late" \notin history  BY DEF InOrder
    <2>2. UidsCurrent  BY <2>1 DEF IInv, Fits, Ready, Kept, UidsCurrent
    <2>3. InOrder({"bypassed"}) => LoginForNobody
      BY <2>1 DEF IInv, Fits, Ready, AtLogin, Awaited, LoginForNobody, InOrder, BagToSet, Last
    <2>4. crashed \in {"no", "Profile", "Delete"}  BY <2>1 DEF IInv, CrashOK
    <2> QED  BY <2>2, <2>3, <2>4
  <1> QED  BY <1>1, Invariance, PTL

(* Who writes a post has a profile, unless the check of it is under way or *)
(* could not be made.                                                      *)
THEOREM PostersHaveProfiles == Spec => []PosterHasProfile
  <1>1. IInv => PosterHasProfile
    <2> SUFFICES ASSUME IInv, InOrder({"late", "unchecked"}), NEW i \in DOMAIN stack,
                        stack[i].kind = "NewPost", stack[i].uid \notin profiles
                 PROVE  \E c \in BagToSet(calls) : c.op = "check" /\ c.uid = stack[i].uid
      BY DEF PosterHasProfile
    <2>1. "late" \notin history /\ "unchecked" \notin history  BY DEF InOrder
    <2>2. Kept(stack, user) /\ Posters(stack, calls, user, profiles)
      BY <2>1 DEF IInv, Fits, Ready
    <2>3. stack[i].kind \in KeepUid  BY DEF KeepUid
    <2>4. stack[i].uid = user  BY <2>2, <2>3 DEF Kept
    <2>5. CheckedFor(calls, user)  BY <2>2, <2>4 DEF Posters
    <2> QED  BY <2>4, <2>5 DEF CheckedFor, BagToSet
  <1> QED  BY <1>1, Invariance, PTL

=============================================================================

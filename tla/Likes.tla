------------------------------- MODULE Likes --------------------------------
(***************************************************************************)
(* The heart under a post (BlogRecyclerAdapter).  The like of a user is a  *)
(* document with his uid.  A tap on the heart reads the document, and the  *)
(* callback of the read writes it or deletes it: it decides by what the    *)
(* read said, whatever has been tapped since, here or on another device.   *)
(*                                                                         *)
(* One post is modelled, on devices that may belong to the same user.  A   *)
(* Firestore client shows what it knows of the server, overlaid with its   *)
(* own writes, which wait in a queue on disk until the server has taken    *)
(* them in their order.                                                    *)
(***************************************************************************)
EXTENDS Naturals, Sequences, FiniteSets, SequencesExt

CONSTANTS Users, Devices,
          NoDevice,    \* the device of a tap that has not been made
          MaxTaps,     \* bound: taps on a heart
          MaxDeaths    \* bound: deaths of the app

ASSUME LikesAssumption ==
    /\ IsFiniteSet(Users) /\ NoDevice \notin Devices
    /\ MaxTaps \in Nat /\ MaxDeaths \in Nat

VARIABLES account,    \* who is signed in on a device
          server,     \* the users with a document in Posts/<post>/Likes
          known,      \* what a device has heard of the server
          queue,      \* the writes of a device that wait for the server
          heart,      \* blogLikeBtn is coloured
          count,      \* blogLikeCount
          tap,        \* the taps on a heart
          deaths,
          before,     \* history: the users who liked the post at first
          disturbed   \* history: users with a tap while another was under way,
                      \* or with a write the server refused

external == <<account, server, known, queue>>
rowVars == <<external, heart, count, tap, deaths, before, disturbed>>

Taps == 1..MaxTaps
NoTap == [device |-> NoDevice, phase |-> "none"]

(* The user's own document as a device sees it, and the whole collection.  *)
Sees(d, base) ==
    IF queue[d] # <<>> THEN Last(queue[d]) = "set" ELSE account[d] \in base

View(d) ==
    IF Sees(d, known[d]) THEN known[d] \cup {account[d]}
                         ELSE known[d] \ {account[d]}

RowInit ==
    /\ account \in [Devices -> Users]
    /\ server \in SUBSET Users
    /\ known \in [Devices -> SUBSET Users]
    /\ queue = [d \in Devices |-> <<>>]
    /\ heart = [d \in Devices |-> FALSE]
    /\ count = [d \in Devices |-> 0]
    /\ tap = [i \in Taps |-> NoTap]
    /\ deaths = 0
    /\ before = server
    /\ disturbed = {}

-----------------------------------------------------------------------------
(* The listeners of the row: the heart and the number of likes.            *)

HeartEvent(d) ==
    /\ heart[d] # Sees(d, known[d])
    /\ heart' = [heart EXCEPT ![d] = Sees(d, known[d])]
    /\ UNCHANGED <<external, count, tap, deaths, before, disturbed>>

(* Fault: the number is only set when there is a like.                     *)
CountNeverZero(d) ==
    /\ View(d) # {}
    /\ count[d] # Cardinality(View(d))
    /\ count' = [count EXCEPT ![d] = Cardinality(View(d))]
    /\ UNCHANGED <<external, heart, tap, deaths, before, disturbed>>

CountEvent(d) ==
    /\ count[d] # Cardinality(View(d))
    /\ count' = [count EXCEPT ![d] = Cardinality(View(d))]
    /\ UNCHANGED <<external, heart, tap, deaths, before, disturbed>>

-----------------------------------------------------------------------------
(* A tap.                                                                  *)

Pending == {"asked", "liked", "notLiked"}
Deciding(u) == \E i \in Taps : tap[i].phase \in Pending /\ account[tap[i].device] = u

(* A tap comes in order if no other of the same user is under way, and all *)
(* his devices know what the server has.                                   *)
Settled(u) ==
    /\ ~Deciding(u)
    /\ \A d \in Devices : account[d] = u =>
          queue[d] = <<>> /\ (u \in known[d] <=> u \in server)

(* blogLikeBtn is clicked: get().  Nothing keeps the user from tapping     *)
(* again before the answer.                                                *)
Tap(i, d) ==
    /\ tap[i] = NoTap /\ \A j \in 1..(i - 1) : tap[j] # NoTap
    /\ tap' = [tap EXCEPT ![i] = [device |-> d, phase |-> "asked"]]
    /\ disturbed' = IF Settled(account[d]) THEN disturbed
                    ELSE disturbed \cup {account[d]}
    /\ UNCHANGED <<external, heart, count, deaths, before>>

(* The document is read, from the server or, offline, from the cache.      *)
GetAnswered(i, fromServer) ==
    LET d == tap[i].device
        u == account[d]
        base == IF fromServer THEN server ELSE known[d]
    IN  /\ tap[i].phase = "asked"
        /\ tap' = [tap EXCEPT ![i].phase = IF Sees(d, base) THEN "liked" ELSE "notLiked"]
        /\ known' = [known EXCEPT ![d] = IF u \in base THEN @ \cup {u} ELSE @ \ {u}]
        /\ UNCHANGED <<account, server, queue, heart, count, deaths, before,
                       disturbed>>

(* onComplete: the write is queued, and the listeners hear of it at once.  *)
OnGet(i) ==
    LET d == tap[i].device IN
    /\ tap[i].phase \in {"liked", "notLiked"}
    /\ queue' = [queue EXCEPT ![d] =
                    Append(@, IF tap[i].phase = "notLiked" THEN "set" ELSE "delete")]
    /\ tap' = [tap EXCEPT ![i].phase = "done"]
    /\ UNCHANGED <<account, server, known, heart, count, deaths, before,
                   disturbed>>

-----------------------------------------------------------------------------
(* Firestore.                                                              *)

After(d, users) ==
    IF Head(queue[d]) = "set" THEN users \cup {account[d]} ELSE users \ {account[d]}

(* The server takes the oldest write of a device.                          *)
Commit(d) ==
    /\ queue[d] # <<>>
    /\ server' = After(d, server)
    /\ known' = [known EXCEPT ![d] = After(d, @)]
    /\ queue' = [queue EXCEPT ![d] = Tail(@)]
    /\ UNCHANGED <<account, heart, count, tap, deaths, before, disturbed>>

(* The server refuses it, and the client forgets it.                       *)
Refuse(d) ==
    /\ queue[d] # <<>>
    /\ queue' = [queue EXCEPT ![d] = Tail(@)]
    /\ disturbed' = disturbed \cup {account[d]}
    /\ UNCHANGED <<account, server, known, heart, count, tap, deaths, before>>

Sync(d) ==
    /\ known[d] # server
    /\ known' = [known EXCEPT ![d] = server]
    /\ UNCHANGED <<account, server, queue, heart, count, tap, deaths, before,
                   disturbed>>

-----------------------------------------------------------------------------
(* Deaths.                                                                 *)

(* Fault: the queue is kept in memory.                                     *)
DieForgets(d) ==
    /\ deaths < MaxDeaths
    /\ deaths' = deaths + 1
    /\ tap' = [i \in Taps |-> IF tap[i].phase \in Pending /\ tap[i].device = d
                              THEN [tap[i] EXCEPT !.phase = "lost"] ELSE tap[i]]
    /\ heart' = [heart EXCEPT ![d] = FALSE]
    /\ count' = [count EXCEPT ![d] = 0]
    /\ queue' = [queue EXCEPT ![d] = <<>>]
    /\ UNCHANGED <<account, server, known, before, disturbed>>

(* The app is killed, or a listener of the row was called with an error    *)
(* and dereferenced null: the taps are lost, the queue is not.  The user   *)
(* starts the app again and sees a new row.                                *)
Die(d) ==
    /\ deaths < MaxDeaths
    /\ deaths' = deaths + 1
    /\ tap' = [i \in Taps |-> IF tap[i].phase \in Pending /\ tap[i].device = d
                              THEN [tap[i] EXCEPT !.phase = "lost"] ELSE tap[i]]
    /\ heart' = [heart EXCEPT ![d] = FALSE]
    /\ count' = [count EXCEPT ![d] = 0]
    /\ UNCHANGED <<external, before, disturbed>>

(* The read fails: getResult throws before anything is asked of the task.  *)
GetFails(i) ==
    /\ tap[i].phase = "asked"
    /\ Die(tap[i].device)

RowNext ==
    \/ \E d \in Devices :
          \/ HeartEvent(d) \/ CountEvent(d) \/ Commit(d) \/ Refuse(d) \/ Sync(d)
          \/ Die(d)
    \/ \E i \in Taps :
          \/ \E d \in Devices : Tap(i, d)
          \/ \E fromServer \in BOOLEAN : GetAnswered(i, fromServer)
          \/ OnGet(i) \/ GetFails(i)

RowSpec == RowInit /\ [][RowNext]_rowVars

(* Devices are connected again and again: reads and writes are answered,   *)
(* and what the server has is heard of and shown.                          *)
RowFairness ==
    /\ \A d \in Devices :
          /\ WF_rowVars(HeartEvent(d)) /\ WF_rowVars(CountEvent(d))
          /\ WF_rowVars(Commit(d) \/ Refuse(d)) /\ WF_rowVars(Sync(d))
    /\ \A i \in Taps :
          /\ WF_rowVars(OnGet(i))
          /\ WF_rowVars(\E fromServer \in BOOLEAN : GetAnswered(i, fromServer))

FairRowSpec == RowSpec /\ RowFairness

-----------------------------------------------------------------------------
(* Properties.                                                             *)

(* The values every variable can take.                                     *)
RowTypeOK ==
    /\ account \in [Devices -> Users]
    /\ server \subseteq Users
    /\ known \in [Devices -> SUBSET Users]
    /\ queue \in [Devices -> Seq({"set", "delete"})]
    /\ heart \in [Devices -> BOOLEAN]
    /\ count \in [Devices -> 0..Cardinality(Users)]
    /\ tap \in [Taps -> [device : Devices \cup {NoDevice},
                         phase : Pending \cup {"none", "done", "lost"}]]
    /\ deaths \in 0..MaxDeaths
    /\ before \subseteq Users /\ disturbed \subseteq Users

Toggles(u) ==
    Cardinality({i \in Taps : tap[i].phase = "done" /\ account[tap[i].device] = u})

Quiet(u) ==
    /\ ~Deciding(u)
    /\ \A d \in Devices : account[d] = u => queue[d] = <<>>

(* Each tap that is not lost turns the like, whichever device it was made  *)
(* on and wherever an app dies: the user ends up with a like if and only   *)
(* if the taps say so, unless one was made while another was under way or  *)
(* a write was refused.                                                    *)
TogglesAddUp ==
    \A u \in Users \ disturbed : Quiet(u) =>
        (u \in server <=> (u \in before <=> Toggles(u) % 2 = 0))

(* When nobody taps any more, every row shows what the server has.         *)
RowsSettle ==
    <>[](\A d \in Devices : /\ heart[d] <=> account[d] \in server
                            /\ count[d] = Cardinality(server))
=============================================================================

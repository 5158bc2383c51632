------------------------------ MODULE Session -------------------------------
(***************************************************************************)
(* Who is signed in, and which screens are on the back stack.  Firebase    *)
(* keeps one current user per process; the activities look at it when they *)
(* are created or started, some keep its uid in a field, and the handlers  *)
(* of asynchronous calls finish their activity and start the next one,     *)
(* whatever has become of the back stack in the meantime.                  *)
(*                                                                         *)
(* Modelled are the activities that read the user: LoginActivity ("Login"),*)
(* Signinactivity ("Signin"), FindActivity ("Find"), MainActivity ("Main"),*)
(* ProfileActivity ("Profile"), SetupActivity ("Setup"), HomeCommunity     *)
(* ("Home"), NewPostActivity ("NewPost") and CommentsActivity ("Comments").*)
(***************************************************************************)
EXTENDS Naturals, Sequences, SequencesExt, BagsExt

CONSTANTS Accounts,   \* the uids there can be
          NoUser,     \* getCurrentUser() is null
          MaxDepth,   \* bound: activities on the back stack
          MaxCalls    \* bound: calls whose handler has not run

ASSUME SessionAssumption ==
    /\ NoUser \notin Accounts
    /\ MaxDepth \in Nat \ {0} /\ MaxCalls \in Nat

VARIABLES user,       \* FirebaseAuth.getCurrentUser()
          accounts,   \* accounts the server has
          profiles,   \* uids with a document in "Users"
          stack,      \* the back stack, top last
          calls,      \* the calls under way, a bag
          crashed,    \* the activity an uncaught exception came from
          history     \* what happened out of order so far

vars == <<user, accounts, profiles, stack, calls, crashed, history>>

Kinds == {"Login", "Signin", "Find", "Main", "Profile", "Setup", "Home",
          "NewPost", "Comments"}

(* These dereference the current user in onCreate, and these keep its uid. *)
NeedUser == {"Profile", "Setup", "NewPost", "Comments"}
KeepUid == {"Setup", "NewPost", "Comments"}

(* Only the listeners of signIn and create belong to their activity.       *)
Scoped == {"signIn", "create"}
Operations == Scoped \cup {"reset", "delete", "check", "store", "post"}

Uids == Accounts \cup {NoUser}
Activities == [kind : Kinds, uid : Uids]

(* owner is the activity's place on the stack; 0: it is finished or, for a *)
(* scoped listener, has been stopped.                                      *)
Calls == [op : Operations, owner : 0..MaxDepth, uid : Uids,
          phase : {"sent", "ok", "missing", "failed"}]

Below(stk) == SubSeq(stk, 1, Len(stk) - 1)

Init ==
    /\ user = NoUser
    /\ accounts \in SUBSET Accounts
    /\ profiles \in SUBSET accounts
    /\ stack = <<[kind |-> "Login", uid |-> NoUser]>>
    /\ calls = EmptyBag
    /\ crashed = "no"
    /\ history = {}

-----------------------------------------------------------------------------
(* Activities come and go.                                                 *)

(* The activity at place i is finished.                                    *)
Finished(cs, i) ==
    BagOfAll(LAMBDA c : IF c.owner = i THEN [c EXCEPT !.owner = 0]
                        ELSE IF c.owner > i THEN [c EXCEPT !.owner = @ - 1]
                        ELSE c,
             cs)

(* Only the activity at place top is in front: the scoped listeners of the *)
(* others are gone, also if their activity comes back.                     *)
Deafened(cs, top) ==
    BagOfAll(LAMBDA c : IF c.op \in Scoped /\ c.owner # top
                        THEN [c EXCEPT !.owner = 0] ELSE c,
             cs)

Sent(op, owner, uid) == [op |-> op, owner |-> owner, uid |-> uid, phase |-> "sent"]
HasRoom(cs) == BagCardinality(cs) < MaxCalls

(* The top of stk starts (onStart).  Only HomeCommunity does anything: it  *)
(* sends a stranger to LoginActivity, and looks for the user's profile.    *)
Start(stk, cs, u) ==
    LET top == Len(stk)
        heard == Deafened(cs, top)
        atHome == top # 0 /\ stk[top].kind = "Home"
    IN  \/ /\ ~atHome
           /\ stack' = stk /\ calls' = heard
        \/ /\ atHome /\ u = NoUser
           /\ stack' = [stk EXCEPT ![top].kind = "Login"]
           /\ calls' = Finished(heard, top)
        \/ /\ atHome /\ u # NoUser
           /\ HasRoom(heard)
           /\ stack' = stk /\ calls' = BagAdd(heard, Sent("check", top, u))

(* LoginActivity and Signinactivity send a signed-in user on (onCreate).   *)
Landing(kind, u) ==
    IF kind \in {"Login", "Signin"} /\ u # NoUser THEN "Main" ELSE kind

(* Activity kind is created on top of stk.                                 *)
Create(stk, kind, cs, u) ==
    LET screen == Landing(kind, u)
        a == [kind |-> screen, uid |-> IF screen \in KeepUid THEN u ELSE NoUser]
    IN  \/ /\ kind \in NeedUser /\ u = NoUser
           /\ crashed' = kind
           /\ UNCHANGED <<stack, calls>>
        \/ /\ kind \notin NeedUser \/ u # NoUser
           /\ Len(stk) < MaxDepth
           /\ Start(Append(stk, a), cs, u)
           /\ UNCHANGED crashed

-----------------------------------------------------------------------------
(* The user at the screen.                                                 *)

At(kind) == crashed = "no" /\ stack # <<>> /\ Last(stack).kind = kind

(* A button of screen from opens screen to; some finish their own.         *)
Open(from, to) ==
    /\ At(from)
    /\ Create(stack, to, calls, user)
    /\ UNCHANGED <<user, accounts, profiles, history>>

OpenAndFinish(from, to) ==
    /\ At(from)
    /\ Create(Below(stack), to, Finished(calls, Len(stack)), user)
    /\ UNCHANGED <<user, accounts, profiles, history>>

Navigate ==
    \/ OpenAndFinish("Login", "Signin") \/ OpenAndFinish("Login", "Find")
    \/ Open("Signin", "Login")
    \/ Open("Main", "Profile") \/ Open("Main", "Home")
    \/ Open("Profile", "Main")
    \/ Open("Home", "NewPost") \/ Open("Home", "Comments")

Logout ==
    /\ At("Profile")
    /\ user' = NoUser
    /\ Create(Below(stack), "Login", Finished(calls, Len(stack)), NoUser)
    /\ UNCHANGED <<accounts, profiles, history>>

Back ==
    /\ crashed = "no" /\ stack # <<>>
    /\ Start(Below(stack), Finished(calls, Len(stack)), user)
    /\ UNCHANGED <<user, accounts, profiles, crashed, history>>

(* The user leaves the app with the home button and comes back to it: the  *)
(* activity in front stops and starts.                                     *)
LeaveAndReturn ==
    /\ crashed = "no" /\ stack # <<>>
    /\ Start(stack, Deafened(calls, 0), user)
    /\ UNCHANGED <<user, accounts, profiles, crashed, history>>

Launch ==
    /\ crashed = "no" /\ stack = <<>>
    /\ Create(<<>>, "Login", calls, user)
    /\ UNCHANGED <<user, accounts, profiles, history>>

-----------------------------------------------------------------------------
(* Calls to the server.                                                    *)

Request(kind, op, uid) ==
    /\ At(kind)
    /\ HasRoom(calls)
    /\ calls' = BagAdd(calls, Sent(op, Len(stack), uid))
    /\ UNCHANGED <<user, accounts, profiles, stack, crashed, history>>

Requests ==
    \/ \E a \in Accounts : Request("Login", "signIn", a) \/ Request("Signin", "create", a)
    \/ Request("Find", "reset", NoUser)
    \/ user # NoUser /\ Request("Profile", "delete", user)
    \/ stack # <<>> /\ Request("Setup", "store", Last(stack).uid)
    \/ stack # <<>> /\ Request("NewPost", "post", Last(stack).uid)

(* Saving a profile with a new picture asks for the current user again.    *)
SaveNewPicture ==
    /\ At("Setup")
    /\ \/ /\ user # NoUser
          /\ HasRoom(calls)
          /\ stack' = [stack EXCEPT ![Len(stack)].uid = user]
          /\ calls' = BagAdd(calls, Sent("store", Len(stack), user))
          /\ UNCHANGED crashed
       \/ /\ user = NoUser
          /\ crashed' = "Setup"
          /\ UNCHANGED <<stack, calls>>
    /\ UNCHANGED <<user, accounts, profiles, history>>

(* The delete button with nobody signed in: user is null.                  *)
DeleteCrashes ==
    /\ At("Profile") /\ user = NoUser
    /\ crashed' = "Delete"
    /\ UNCHANGED <<user, accounts, profiles, stack, calls, history>>

(* The events after which less can be said.  After "late" nothing is said: *)
(* the user or the screens were changed by an activity that is not in      *)
(* front (or no more listening), but for the feed opened by a post.        *)
Note(events) ==
    history' = IF "late" \in history \cup events THEN {"late"}
               ELSE history \cup events

Late(c) == IF stack # <<>> /\ c.owner = Len(stack) THEN {} ELSE {"late"}

(* What the server can answer.                                             *)
CanAnswer(c, phase) ==
    /\ phase = "missing" => c.op = "check" /\ c.uid \notin profiles
    /\ phase = "ok" =>
          /\ c.op \in {"signIn", "delete"} => c.uid \in accounts
          /\ c.op = "create" => c.uid \notin accounts
          /\ c.op = "check" => c.uid \in profiles

(* The answer takes effect: on the server, and for the current user.  The  *)
(* handler runs later, or never if its listener has been removed.          *)
Answer(c, phase) ==
    LET ok == phase = "ok" IN
        /\ crashed = "no" /\ c.phase = "sent" /\ CanAnswer(c, phase)
        /\ user' = IF ok /\ c.op \in Scoped THEN c.uid
                   ELSE IF ok /\ c.op = "delete" /\ user = c.uid THEN NoUser
                   ELSE user
        /\ accounts' = IF ok /\ c.op = "create" THEN accounts \cup {c.uid}
                       ELSE IF ok /\ c.op = "delete" THEN accounts \ {c.uid}
                       ELSE accounts
        /\ profiles' = IF ok /\ c.op = "store" THEN profiles \cup {c.uid} ELSE profiles
        /\ calls' = BagAdd(BagRemove(calls, c), [c EXCEPT !.phase = phase])
        /\ Note((IF user' # user THEN Late(c) ELSE {})
                \cup (IF phase = "failed" /\ c.op = "check" THEN {"unchecked"} ELSE {}))
        /\ UNCHANGED <<stack, crashed>>

(* A handler finishes its activity and starts the next one.                *)
Replace(c, kind, events) ==
    /\ IF c.owner = 0
       THEN Create(stack, kind, BagRemove(calls, c), user)
       ELSE Create(RemoveAt(stack, c.owner), kind,
                   Finished(BagRemove(calls, c), c.owner), user)
    /\ Note(events)
    /\ UNCHANGED <<user, accounts, profiles>>

(* A handler that shows a message and does nothing else.                   *)
Report(c) ==
    /\ calls' = BagRemove(calls, c)
    /\ UNCHANGED <<user, accounts, profiles, stack, crashed, history>>

(* A listener that was removed with its activity is not called.            *)
Unheard(c) ==
    /\ c.op \in Scoped /\ c.owner = 0
    /\ calls' = BagRemove(calls, c)
    /\ Note(IF c.phase = "ok" THEN {"bypassed"} ELSE {})
    /\ UNCHANGED <<user, accounts, profiles, stack, crashed>>

OnSignIn(c) ==
    /\ c.owner # 0
    /\ c.op = "signIn"
    /\ IF c.phase = "ok" THEN Replace(c, "Main", Late(c)) ELSE Report(c)

OnCreateUser(c) ==
    /\ c.owner # 0
    /\ c.op = "create"
    /\ IF c.phase = "ok" THEN Replace(c, "Setup", Late(c)) ELSE Report(c)

OnReset(c) ==
    /\ c.op = "reset"
    /\ IF c.phase = "ok" THEN Replace(c, "Login", Late(c)) ELSE Report(c)

(* The listener of delete does not ask whether the call succeeded before   *)
(* it says that the account is deleted.                                    *)
OnDelete(c) == c.op = "delete" /\ Replace(c, "Login", Late(c))

(* Fault: the negation is lost and a user with a profile is sent to Setup. *)
OnCheckInverted(c) ==
    /\ c.op = "check"
    /\ IF c.phase = "ok" THEN Replace(c, "Setup", Late(c)) ELSE Report(c)

(* A feed that a post opened over screens which keep a uid can send to     *)
(* SetupActivity over them, and from there any screen can be reached.      *)
OverUids == IF \E i \in 1..(Len(stack) - 1) : stack[i].kind \in KeepUid
            THEN {"late"} ELSE {}

OnCheck(c) ==
    /\ c.op = "check"
    /\ IF c.phase = "missing" THEN Replace(c, "Setup", Late(c) \cup OverUids) ELSE Report(c)

OnStore(c) ==
    /\ c.op = "store"
    /\ IF c.phase = "ok" THEN Replace(c, "Main", Late(c)) ELSE Report(c)

(* Fault: a post takes its author to ProfileActivity, where he can log out.*)
OnPostToProfile(c) ==
    /\ c.op = "post"
    /\ IF c.phase = "ok" THEN Replace(c, "Profile", {}) ELSE Report(c)

(* Also long after its editor was left, a post opens the feed over what is *)
(* in front.                                                               *)
Bypassing == IF stack # <<>> /\ Last(stack).kind = "Login" THEN {"bypassed"} ELSE {}

OnPost(c) ==
    /\ c.op = "post"
    /\ IF c.phase = "ok" THEN Replace(c, "Home", Bypassing) ELSE Report(c)

Handle(c) ==
    /\ crashed = "no" /\ c.phase # "sent"
    /\ \/ Unheard(c) \/ OnSignIn(c) \/ OnCreateUser(c) \/ OnReset(c) \/ OnDelete(c)
       \/ OnCheck(c) \/ OnStore(c) \/ OnPost(c)

Next ==
    \/ Navigate \/ Logout \/ Back \/ LeaveAndReturn \/ Launch
    \/ Requests \/ SaveNewPicture \/ DeleteCrashes
    \/ \E c \in BagToSet(calls) :
          \/ \E phase \in {"ok", "missing", "failed"} : Answer(c, phase)
          \/ Handle(c)

Spec == Init /\ [][Next]_vars

-----------------------------------------------------------------------------
(* Properties.                                                             *)

(* The values every variable can take.                                     *)
TypeOK ==
    /\ user \in Uids
    /\ accounts \subseteq Accounts /\ profiles \subseteq Accounts
    /\ stack \in Seq(Activities) /\ Len(stack) <= MaxDepth
    /\ \A c \in BagToSet(calls) : c \in Calls /\ c.owner <= Len(stack)
    /\ BagCardinality(calls) <= MaxCalls
    /\ crashed \in {"no", "Delete"} \cup NeedUser
    /\ history \subseteq {"late", "bypassed", "unchecked"}

InOrder(events) == history \cap events = {}

(* A uid kept in a field is the one of the current user.                   *)
UidsCurrent == \A i \in DOMAIN stack : stack[i].kind \in KeepUid => stack[i].uid = user

(* A user who is signed in does not sit in front of LoginActivity, except  *)
(* for the moment before the handler runs, or if a LoginActivity was       *)
(* bypassed: its listener was removed, or the feed was opened over it.     *)
(* (In front of Signinactivity he may: LoginActivity is opened over it.)   *)
LoginForNobody ==
    stack # <<>> /\ Last(stack).kind = "Login" /\ user # NoUser =>
        \E c \in BagToSet(calls) : c.op \in Scoped /\ c.phase = "ok"

(* As long as answers reach an activity that is in front, the screens of   *)
(* the back stack fit who is signed in, and of those that dereference the  *)
(* current user only ProfileActivity can be opened with nobody signed in.  *)
(* Answers to posts may come whenever they like, and find another user     *)
(* signed in: the feed they open lets nobody post in another's name.       *)
ScreensMatchUser ==
    InOrder({"late"}) =>
        /\ UidsCurrent
        /\ InOrder({"bypassed"}) => LoginForNobody
        /\ crashed \in {"no", "Profile", "Delete"}

(* Nobody gets to write a post without a profile unless the check is still *)
(* under way, or could not be made.                                        *)
PosterHasProfile ==
    InOrder({"late", "unchecked"}) =>
        \A i \in DOMAIN stack :
            stack[i].kind = "NewPost" /\ stack[i].uid \notin profiles =>
                \E c \in BagToSet(calls) : c.op = "check" /\ c.uid = stack[i].uid

=============================================================================

------------------------------ MODULE NewPost ------------------------------
(***************************************************************************)
(* NewPostActivity: the editor in which a user picks a picture, writes a   *)
(* text and publishes.  Publishing is a chain of asynchronous steps: the   *)
(* picture goes to storage, then its thumbnail, then the document goes to  *)
(* the Firestore collection "Posts".  None of the callbacks is scoped to   *)
(* the activity, the button is never disabled, and the thumbnail is made   *)
(* from a field that the user can change while the picture is uploading.   *)
(*                                                                         *)
(* Editors are activity instances and Names are the UUIDs that name the    *)
(* pictures of a post; a name identifies one run of the chain, its "job".  *)
(* The text of a post is only tested for emptiness: hasText.               *)
(***************************************************************************)
EXTENDS Naturals, FiniteSets

CONSTANTS Editors,      \* NewPostActivity instances
          Names,        \* values of UUID.randomUUID()
          Pictures,     \* pictures the user can pick
          NoPicture,    \* postImageUri is null
          NoBitmap,     \* compressedImageFile is null, or no object in storage
          NoEditor      \* the editor of a job that has not started

ASSUME NewPostAssumption ==
    /\ NoPicture \notin Pictures
    /\ NoBitmap \notin [pic : Pictures, size : {"full", "thumb"}]
    /\ NoEditor \notin Editors

VARIABLES editor,     \* the fields of each activity instance
          job,        \* the chain started under each name
          images,     \* storage: post_images/<name>.jpg
          thumbs,     \* storage: post_images/thumbs/<name>.jpg
          posts       \* names whose document the server has committed

vars == <<editor, job, images, thumbs, posts>>

Bitmaps == [pic : Pictures, size : {"full", "thumb"}]

(* "add": the document is queued, the callback registered; "queued": the   *)
(* document is queued on disk but the process that waits for it is gone.   *)
Phases == {"none", "image", "thumb", "add", "queued",
           "done", "rejected", "thumbFailed", "lost"}

EditorStates == [state        : {"new", "open", "gone"},
                 hasText      : BOOLEAN,
                 postImageUri : Pictures \cup {NoPicture},
                 compressed   : Bitmaps \cup {NoBitmap},
                 progress     : BOOLEAN]

(* picked, repicked and stale are history: the picture shown when the user *)
(* pressed the button, whether it was replaced during the upload, and      *)
(* whether a compression of this job failed.                               *)
Jobs == [phase    : Phases,
         editor   : Editors \cup {NoEditor},
         bytes    : Bitmaps \cup {NoBitmap},
         picked   : Pictures \cup {NoPicture},
         repicked : BOOLEAN,
         stale    : BOOLEAN]

Fields(state) == [state |-> state, hasText |-> FALSE,
                  postImageUri |-> NoPicture, compressed |-> NoBitmap,
                  progress |-> FALSE]

Idle == [phase |-> "none", editor |-> NoEditor, bytes |-> NoBitmap,
         picked |-> NoPicture, repicked |-> FALSE, stale |-> FALSE]

Init ==
    /\ editor = [e \in Editors |-> Fields("new")]
    /\ job = [n \in Names |-> Idle]
    /\ images = [n \in Names |-> NoBitmap]
    /\ thumbs = [n \in Names |-> NoBitmap]
    /\ posts = {}

-----------------------------------------------------------------------------
(* The editor on screen.                                                   *)

Open(e) ==
    /\ editor[e].state = "new"
    /\ editor' = [editor EXCEPT ![e] = Fields("open")]
    /\ UNCHANGED <<job, images, thumbs, posts>>

(* The user types a text, or erases it.                                    *)
Write(e) ==
    /\ editor[e].state = "open"
    /\ editor' = [editor EXCEPT ![e].hasText = ~@]
    /\ UNCHANGED <<job, images, thumbs, posts>>

(* The cropper returns a picture: only the field of the activity changes,  *)
(* also while a chain started from the previous picture is under way.      *)
Pick(e, p) ==
    /\ editor[e].state = "open"
    /\ editor' = [editor EXCEPT ![e].postImageUri = p]
    /\ job' = [n \in Names |->
                  IF job[n].phase = "image" /\ job[n].editor = e
                  THEN [job[n] EXCEPT !.repicked = TRUE]
                  ELSE job[n]]
    /\ UNCHANGED <<images, thumbs, posts>>

(* The user leaves; the callbacks of the running chains stay registered.   *)
Back(e) ==
    /\ editor[e].state = "open"
    /\ editor' = [editor EXCEPT ![e].state = "gone"]
    /\ UNCHANGED <<job, images, thumbs, posts>>

(* An uncaught exception, or the system, ends the process: no callback and *)
(* no upload survives, but Firestore has the queued documents on disk.     *)
ProcessDies ==
    /\ editor' = [e \in Editors |-> IF editor[e].state = "new"
                                    THEN editor[e] ELSE Fields("gone")]
    /\ job' = [n \in Names |->
                  IF job[n].phase \in {"image", "thumb"}
                  THEN [job[n] EXCEPT !.phase = "lost"]
                  ELSE IF job[n].phase = "add"
                  THEN [job[n] EXCEPT !.phase = "queued"]
                  ELSE job[n]]
    /\ UNCHANGED <<images, thumbs, posts>>

Kill == (\E e \in Editors : editor[e].state # "new") /\ ProcessDies

(* Fault: the compressor is skipped when the field already holds a bitmap. *)
CompressOnce(e, size, ok) ==
    IF ok /\ editor[e].compressed = NoBitmap
    THEN [pic |-> editor[e].postImageUri, size |-> size]
    ELSE editor[e].compressed

(* The Compressor either makes a new bitmap of the current picture or      *)
(* throws, and then the handler goes on with whatever the field still has. *)
Compress(e, size, ok) ==
    IF ok THEN [pic |-> editor[e].postImageUri, size |-> size]
          ELSE editor[e].compressed

-----------------------------------------------------------------------------
(* The chain: picture, thumbnail, document.                                *)

CanPublish(e) ==
    /\ editor[e].state = "open"
    /\ editor[e].hasText
    /\ editor[e].postImageUri # NoPicture

(* newPostBtn: nothing disables the button, so one editor can start a      *)
(* second chain while the first is running.                                *)
Click(e, n, ok) ==
    LET bitmap == Compress(e, "full", ok) IN
    /\ CanPublish(e)
    /\ job[n].phase = "none"
    /\ bitmap # NoBitmap
    /\ editor' = [editor EXCEPT ![e].progress = TRUE, ![e].compressed = bitmap]
    /\ job' = [job EXCEPT ![n] =
                  [phase |-> "image", editor |-> e, bytes |-> bitmap,
                   picked |-> editor[e].postImageUri,
                   repicked |-> FALSE, stale |-> ~ok]]
    /\ UNCHANGED <<images, thumbs, posts>>

(* The first compression of an editor fails: compressedImageFile is null   *)
(* and the handler dereferences it.                                        *)
ClickCrashes(e) ==
    /\ CanPublish(e)
    /\ Compress(e, "full", FALSE) = NoBitmap
    /\ ProcessDies

(* Storage receives the bytes of an upload.  The client learns of it later *)
(* or never.                                                               *)
StoreImage(n) ==
    /\ job[n].phase = "image"
    /\ images[n] = NoBitmap
    /\ images' = [images EXCEPT ![n] = job[n].bytes]
    /\ UNCHANGED <<editor, job, thumbs, posts>>

StoreThumb(n) ==
    /\ job[n].phase = "thumb"
    /\ thumbs[n] = NoBitmap
    /\ thumbs' = [thumbs EXCEPT ![n] = job[n].bytes]
    /\ UNCHANGED <<editor, job, images, posts>>

(* The picture is up: the thumbnail is made from what postImageUri is now. *)
ImageUploaded(n, ok) ==
    LET e == job[n].editor
        bitmap == Compress(e, "thumb", ok)
    IN  /\ job[n].phase = "image"
        /\ images[n] # NoBitmap
        /\ editor' = [editor EXCEPT ![e].compressed = bitmap]
        /\ job' = [job EXCEPT ![n] = [@ EXCEPT !.phase = "thumb",
                              !.bytes = bitmap,
                              !.stale = job[n].stale \/ ~ok]]
        /\ UNCHANGED <<images, thumbs, posts>>

(* The upload fails, possibly after storage has the bytes.  The listener   *)
(* calls getResult before it asks isSuccessful, and getResult throws.      *)
ImageFailed(n) ==
    /\ job[n].phase = "image"
    /\ ProcessDies

(* Fault: the document is added when the thumbnail upload is only started. *)
ThumbNotAwaited(n) ==
    /\ job[n].phase = "thumb"
    /\ job' = [job EXCEPT ![n].phase = "add"]
    /\ UNCHANGED <<editor, images, thumbs, posts>>

(* The thumbnail is up: the document is handed to Firestore, which queues  *)
(* it on disk.                                                             *)
ThumbUploaded(n) ==
    /\ job[n].phase = "thumb"
    /\ thumbs[n] # NoBitmap
    /\ job' = [job EXCEPT ![n].phase = "add"]
    /\ UNCHANGED <<editor, images, thumbs, posts>>

(* Fault: the failure listener hides the progress bar of all chains.       *)
ThumbFailedHides(n) ==
    /\ job[n].phase = "thumb"
    /\ job' = [job EXCEPT ![n].phase = "thumbFailed"]
    /\ editor' = [editor EXCEPT ![job[n].editor].progress = FALSE]
    /\ UNCHANGED <<images, thumbs, posts>>

(* The failure listener is empty: the progress bar stays.                  *)
ThumbFailed(n) ==
    /\ job[n].phase = "thumb"
    /\ job' = [job EXCEPT ![n].phase = "thumbFailed"]
    /\ UNCHANGED <<editor, images, thumbs, posts>>

(* Fault: the document is filed under the editor instead of the picture.   *)
CommitWrongKey(n) ==
    /\ \/ job[n].phase = "add" /\ n \notin posts
       \/ job[n].phase = "queued"
    /\ posts' = posts \cup {job[n].editor}
    /\ job' = [job EXCEPT ![n].phase = IF @ = "queued" THEN "done" ELSE @]
    /\ UNCHANGED <<editor, images, thumbs>>

(* The server commits a queued document, with or without a waiting process.*)
(* Firestore sends again what it has no answer for; the document has its   *)
(* identifier from the client, so a second commit changes nothing.         *)
Commit(n) ==
    /\ \/ job[n].phase = "add" /\ n \notin posts
       \/ job[n].phase = "queued"
    /\ posts' = posts \cup {n}
    /\ job' = [job EXCEPT ![n].phase = IF @ = "queued" THEN "done" ELSE @]
    /\ UNCHANGED <<editor, images, thumbs>>

(* Fault: the last listener is scoped to the activity and dies with it.    *)
ScopedListener(n) ==
    /\ job[n].phase = "add"
    /\ n \in posts
    /\ editor[job[n].editor].state = "open"
    /\ editor' = [editor EXCEPT ![job[n].editor].state = "gone",
                                ![job[n].editor].progress = FALSE]
    /\ job' = [job EXCEPT ![n].phase = "done"]
    /\ UNCHANGED <<images, thumbs, posts>>

(* The acknowledgement: toast, start HomeCommunity, finish, hide progress. *)
AddSucceeded(n) ==
    /\ job[n].phase = "add"
    /\ n \in posts
    /\ editor' = [editor EXCEPT ![job[n].editor].state = "gone",
                                ![job[n].editor].progress = FALSE]
    /\ job' = [job EXCEPT ![n].phase = "done"]
    /\ UNCHANGED <<images, thumbs, posts>>

(* The server refuses the document; only the progress bar is hidden.       *)
AddRejected(n) ==
    /\ job[n].phase = "add"
    /\ n \notin posts
    /\ editor' = [editor EXCEPT ![job[n].editor].progress = FALSE]
    /\ job' = [job EXCEPT ![n].phase = "rejected"]
    /\ UNCHANGED <<images, thumbs, posts>>

(* The server refuses a document that no process waits for any more.       *)
QueuedRejected(n) ==
    /\ job[n].phase = "queued"
    /\ n \notin posts
    /\ job' = [job EXCEPT ![n].phase = "rejected"]
    /\ UNCHANGED <<editor, images, thumbs, posts>>

-----------------------------------------------------------------------------

UserStep(e) ==
    \/ Open(e) \/ Write(e) \/ Back(e) \/ ClickCrashes(e)
    \/ \E p \in Pictures : Pick(e, p)
    \/ \E n \in Names, ok \in BOOLEAN : Click(e, n, ok)

StorageStep(n) ==
    \/ StoreImage(n) \/ StoreThumb(n)
    \/ \E ok \in BOOLEAN : ImageUploaded(n, ok)
    \/ ImageFailed(n) \/ ThumbUploaded(n) \/ ThumbFailed(n)

FirestoreStep(n) ==
    Commit(n) \/ AddSucceeded(n) \/ AddRejected(n) \/ QueuedRejected(n)

Next ==
    \/ \E e \in Editors : UserStep(e)
    \/ \E n \in Names : StorageStep(n) \/ FirestoreStep(n)
    \/ Kill

Spec == Init /\ [][Next]_vars

(* An upload is answered, at the latest when its retry time is over, and   *)
(* Firestore works off the queue of a living process.  Nothing is assumed  *)
(* of the user, nor that the app is ever started again after a death.      *)
Fairness ==
    \A n \in Names :
        /\ WF_vars(StorageStep(n))
        /\ WF_vars(job[n].phase = "add" /\ FirestoreStep(n))

FairSpec == Spec /\ Fairness

-----------------------------------------------------------------------------
(* Properties.                                                             *)

(* The values every variable can take.                                     *)
TypeOK ==
    /\ editor \in [Editors -> EditorStates]
    /\ job \in [Names -> Jobs]
    /\ images \in [Names -> Bitmaps \cup {NoBitmap}]
    /\ thumbs \in [Names -> Bitmaps \cup {NoBitmap}]
    /\ posts \subseteq Names

(* A reader of the feed fetches both pictures by the name in the document: *)
(* whatever fails, is clicked twice or is killed, a committed document     *)
(* never names a picture or a thumbnail that storage does not have.        *)
PostsComplete ==
    \A n \in posts : images[n] # NoBitmap /\ thumbs[n] # NoBitmap

(* A published picture is the one that was on screen when the button was   *)
(* pressed, and so is its thumbnail: the only ways to another picture are  *)
(* a failed compression and, for the thumbnail, picking during the upload. *)
PicturesAgree ==
    \A n \in posts :
        LET j == job[n] IN
        ~j.stale =>
            /\ images[n] = [pic |-> j.picked, size |-> "full"]
            /\ ~j.repicked => thumbs[n] = [pic |-> j.picked, size |-> "thumb"]

(* While a picture uploads its activity holds a bitmap, so the second      *)
(* compression, even if it fails, leaves no null to dereference (l. 146).  *)
BitmapHeld ==
    \A n \in Names : job[n].phase = "image" =>
        editor[job[n].editor].compressed # NoBitmap

(* The chains of an editor share one progress bar, which the end of each   *)
(* hides.  On screen it spins if and only if a chain runs or ended in the  *)
(* thumbnail's empty failure handler, but for this: a refused document     *)
(* hides it from a chain that goes on.                                     *)
BarTellsTruth ==
    \A e \in Editors : editor[e].state = "open" =>
        LET Has(phases) == \E n \in Names : job[n].editor = e /\ job[n].phase \in phases
            Behind == {"image", "thumb", "add", "thumbFailed"}
        IN  /\ editor[e].progress => Has(Behind)
            /\ Has(Behind) => editor[e].progress \/ Has({"rejected"})

(* Seen from the feed, publishing is one step: see PostBoard.              *)
Board == INSTANCE PostBoard
            WITH shown <- [n \in posts |-> [image |-> images[n],
                                            thumb |-> thumbs[n]]]

BoardSpec == Board!Spec

(* A chain that was started comes to an end: the server has the document   *)
(* or refused it, the upload failed, or the process died on the way.       *)
ClickResolves ==
    \A n \in Names :
        job[n].phase = "image" ~>
            job[n].phase \in {"done", "rejected", "thumbFailed", "lost", "queued"}
=============================================================================

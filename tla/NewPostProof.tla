---------------------------- MODULE NewPostProof ----------------------------
(***************************************************************************)
(* Proofs about NewPost, for any number of editors, names and pictures:    *)
(* the safety invariants of the upload chain, and that the chain           *)
(* implements the one-step publishing of PostBoard.                        *)
(***************************************************************************)
EXTENDS NewPost, TLAPS

Stored == {"add", "queued", "done"}

(* What each phase of the chain of name n knows of the three stores.       *)

(* A name not drawn yet names nothing.                                     *)
FreshName(n) ==
    job[n].phase = "none" =>
        images[n] = NoBitmap /\ thumbs[n] = NoBitmap /\ n \notin posts

(* A chain belongs to an activity that has been opened.                    *)
HasEditor(n) ==
    job[n].phase # "none" =>
        /\ job[n].editor \in Editors
        /\ editor[job[n].editor].state # "new"

(* While the picture uploads, the activity holds a bitmap and still shows  *)
(* the picture pressed for, unless another was picked.                     *)
ImageUnderWay(n) ==
    job[n].phase = "image" =>
        /\ editor[job[n].editor].compressed \in Bitmaps
        /\ editor[job[n].editor].postImageUri # NoPicture
        /\ ~job[n].repicked => editor[job[n].editor].postImageUri = job[n].picked
        /\ job[n].bytes \in Bitmaps
        /\ ~job[n].stale => job[n].bytes = [pic |-> job[n].picked, size |-> "full"]
        /\ images[n] \in {NoBitmap, job[n].bytes}
        /\ thumbs[n] = NoBitmap

ThumbUnderWay(n) ==
    job[n].phase = "thumb" =>
        /\ images[n] \in Bitmaps
        /\ ~job[n].stale => images[n] = [pic |-> job[n].picked, size |-> "full"]
        /\ job[n].bytes \in Bitmaps
        /\ ~job[n].stale /\ ~job[n].repicked =>
               job[n].bytes = [pic |-> job[n].picked, size |-> "thumb"]
        /\ thumbs[n] \in {NoBitmap, job[n].bytes}

(* From the moment the document exists both pictures are in storage.       *)
BothStored(n) ==
    job[n].phase \in Stored =>
        /\ images[n] \in Bitmaps
        /\ thumbs[n] \in Bitmaps
        /\ ~job[n].stale =>
              /\ images[n] = [pic |-> job[n].picked, size |-> "full"]
              /\ ~job[n].repicked =>
                     thumbs[n] = [pic |-> job[n].picked, size |-> "thumb"]

(* A committed document comes from a chain that got as far as the document *)
(* and a finished chain has its document.                                  *)
CommittedPhase(n) ==
    /\ n \in posts => job[n].phase \in Stored
    /\ job[n].phase = "done" => n \in posts

Chain(n) ==
    /\ FreshName(n) /\ HasEditor(n)
    /\ ImageUnderWay(n) /\ ThumbUnderWay(n) /\ BothStored(n)
    /\ CommittedPhase(n)

(* The inductive invariant.                                                *)
IInv ==
    /\ TypeOK
    /\ \A n \in Names : Chain(n)
    /\ BarTellsTruth

-----------------------------------------------------------------------------
(* Types.                                                                  *)

(* Whatever the compressor does, the field holds a bitmap or nothing; and  *)
(* a bitmap stays a bitmap.                                                *)
LEMMA CompressType ==
    ASSUME NEW e \in Editors, NEW size \in {"full", "thumb"},
           NEW ok \in BOOLEAN, editor \in [Editors -> EditorStates],
           editor[e].postImageUri # NoPicture
    PROVE  /\ Compress(e, size, ok) \in Bitmaps \cup {NoBitmap}
           /\ editor[e].compressed # NoBitmap => Compress(e, size, ok) \in Bitmaps
           /\ ok => Compress(e, size, ok) = [pic |-> editor[e].postImageUri,
                                             size |-> size]
BY DEF Compress, EditorStates, Bitmaps

(* The types hold at first.                                                *)
LEMMA InitTypeOK == Init => TypeOK
BY DEF Init, TypeOK, EditorStates, Jobs, Fields, Idle, Phases

(* The types survive the end of the process.                               *)
LEMMA DeathTypeOK == TypeOK /\ ProcessDies => TypeOK'
<1> SUFFICES ASSUME TypeOK, ProcessDies PROVE TypeOK'
    OBVIOUS
<1> USE DEF TypeOK, ProcessDies
<1>1. editor' \in [Editors -> EditorStates]
    BY DEF EditorStates, Fields
<1>2. ASSUME NEW n \in Names
      PROVE  job'[n] \in Jobs
    <2>1. job[n] \in Jobs
        OBVIOUS
    <2>2. CASE job[n].phase \in {"image", "thumb"}
        BY <2>1, <2>2 DEF Jobs, Phases
    <2>3. CASE job[n].phase = "add"
        BY <2>1, <2>3 DEF Jobs, Phases
    <2>4. CASE job[n].phase \notin {"image", "thumb", "add"}
        BY <2>1, <2>4
    <2> QED
        BY <2>2, <2>3, <2>4
<1>3. job' \in [Names -> Jobs]
    BY <1>2
<1> QED
    BY <1>1, <1>3

(* One step of an activity, of storage or of Firestore keeps the types.    *)
LEMMA NextTypeOK == IInv /\ [Next]_vars => TypeOK'
<1> SUFFICES ASSUME IInv, [Next]_vars PROVE TypeOK'
    OBVIOUS
<1>0. TypeOK /\ \A n \in Names : Chain(n)
    BY DEF IInv
<1> USE <1>0 DEF TypeOK
<1>1. ASSUME NEW e \in Editors, Open(e) PROVE TypeOK'
    BY <1>1 DEF Open, EditorStates, Fields
<1>2. ASSUME NEW e \in Editors, Write(e) PROVE TypeOK'
    BY <1>2 DEF Write, EditorStates
<1>3. ASSUME NEW e \in Editors, NEW p \in Pictures, Pick(e, p) PROVE TypeOK'
    <2>1. editor' \in [Editors -> EditorStates]
        BY <1>3 DEF Pick, EditorStates
    <2>2. job' \in [Names -> Jobs]
        BY <1>3 DEF Pick, Jobs
    <2> QED
        BY <1>3, <2>1, <2>2 DEF Pick
<1>4. ASSUME NEW e \in Editors, Back(e) PROVE TypeOK'
    BY <1>4 DEF Back, EditorStates
<1>5. ASSUME NEW e \in Editors, ClickCrashes(e) PROVE TypeOK'
    BY <1>5, DeathTypeOK DEF ClickCrashes
<1>6. ASSUME NEW e \in Editors, NEW n \in Names, NEW ok \in BOOLEAN,
             Click(e, n, ok)
      PROVE  TypeOK'
    <2>1. Compress(e, "full", ok) \in Bitmaps
        BY <1>6, CompressType DEF Click, CanPublish
    <2>2. editor' \in [Editors -> EditorStates]
        BY <1>6, <2>1 DEF Click, EditorStates
    <2>3. job' \in [Names -> Jobs]
        BY <1>6, <2>1 DEF Click, Jobs, Phases, EditorStates
    <2> QED
        BY <1>6, <2>2, <2>3 DEF Click
<1>7. ASSUME NEW n \in Names, StoreImage(n) PROVE TypeOK'
    BY <1>7 DEF StoreImage, Jobs
<1>8. ASSUME NEW n \in Names, StoreThumb(n) PROVE TypeOK'
    BY <1>8 DEF StoreThumb, Jobs
<1>9. ASSUME NEW n \in Names, NEW ok \in BOOLEAN, ImageUploaded(n, ok)
      PROVE  TypeOK'
    <2> DEFINE e == job[n].editor
    <2>1. /\ e \in Editors /\ editor[e].compressed \in Bitmaps
          /\ editor[e].postImageUri # NoPicture
        BY <1>9 DEF ImageUploaded, Chain, HasEditor, ImageUnderWay
    <2>2. Compress(e, "thumb", ok) \in Bitmaps
        BY <2>1, <1>9, CompressType DEF ImageUploaded
    <2>3. editor' \in [Editors -> EditorStates]
        BY <1>9, <2>1, <2>2 DEF ImageUploaded, EditorStates
    <2>4. (job[n].stale \/ ~ok) \in BOOLEAN
        OBVIOUS
    <2>5. ASSUME NEW b \in Bitmaps, NEW s \in BOOLEAN
          PROVE  [job[n] EXCEPT !.phase = "thumb", !.bytes = b, !.stale = s] \in Jobs
        BY DEF Jobs, Phases
    <2>6. [job[n] EXCEPT !.phase = "thumb", !.bytes = Compress(e, "thumb", ok),
                         !.stale = job[n].stale \/ ~ok] \in Jobs
        BY <2>2, <2>4, <2>5
    <2>7. job' = [job EXCEPT ![n] =
                    [job[n] EXCEPT !.phase = "thumb", !.bytes = Compress(e, "thumb", ok),
                                   !.stale = job[n].stale \/ ~ok]]
        BY <1>9 DEF ImageUploaded
    <2>8. ASSUME NEW j \in Jobs PROVE [job EXCEPT ![n] = j] \in [Names -> Jobs]
        OBVIOUS
    <2>9. job' \in [Names -> Jobs]
        BY <2>6, <2>7, <2>8, Zenon
    <2> QED
        BY <1>9, <2>3, <2>9 DEF ImageUploaded
<1>10. ASSUME NEW n \in Names, ImageFailed(n) PROVE TypeOK'
    BY <1>10, DeathTypeOK DEF ImageFailed
<1>11. ASSUME NEW n \in Names, ThumbUploaded(n) PROVE TypeOK'
    BY <1>11 DEF ThumbUploaded, Jobs, Phases
<1>12. ASSUME NEW n \in Names, ThumbFailed(n) PROVE TypeOK'
    BY <1>12 DEF ThumbFailed, Jobs, Phases
<1>13. ASSUME NEW n \in Names, Commit(n) PROVE TypeOK'
    <2>1. CASE job[n].phase = "queued"
        <3>1. job' = [job EXCEPT ![n].phase = "done"]
            BY <1>13, <2>1 DEF Commit
        <3> QED
            BY <1>13, <3>1 DEF Commit, Jobs, Phases
    <2>2. CASE job[n].phase = "add"
        <3>1. job' = job
            BY <1>13, <2>2 DEF Commit, Jobs
        <3> QED
            BY <1>13, <3>1 DEF Commit
    <2> QED
        BY <1>13, <2>1, <2>2 DEF Commit
<1>14. ASSUME NEW n \in Names, AddSucceeded(n) PROVE TypeOK'
    <2>1. job[n].editor \in Editors
        BY <1>14 DEF AddSucceeded, Chain, HasEditor
    <2>2. editor' \in [Editors -> EditorStates]
        BY <1>14, <2>1 DEF AddSucceeded, EditorStates
    <2>3. job' \in [Names -> Jobs]
        BY <1>14 DEF AddSucceeded, Jobs, Phases
    <2> QED
        BY <1>14, <2>2, <2>3 DEF AddSucceeded
<1>15. ASSUME NEW n \in Names, AddRejected(n) PROVE TypeOK'
    BY <1>15 DEF AddRejected, Jobs, Phases, EditorStates
<1>16. ASSUME NEW n \in Names, QueuedRejected(n) PROVE TypeOK'
    BY <1>16 DEF QueuedRejected, Jobs, Phases
<1>17. CASE Kill
    BY <1>17, DeathTypeOK DEF Kill
<1>18. CASE UNCHANGED vars
    BY <1>18 DEF vars
<1> QED
    BY <1>1, <1>2, <1>3, <1>4, <1>5, <1>6, <1>7, <1>8, <1>9, <1>10, <1>11,
       <1>12, <1>13, <1>14, <1>15, <1>16, <1>17, <1>18
       DEF Next, UserStep, StorageStep, FirestoreStep
-----------------------------------------------------------------------------
(* The chain.                                                              *)

(* The invariant holds at first: no chain has begun.                       *)
LEMMA InitIInv == Init => IInv
BY InitTypeOK, NewPostAssumption
   DEF Init, IInv, Chain, FreshName, HasEditor, ImageUnderWay, ThumbUnderWay,
       BothStored, CommittedPhase, Stored, Idle, Fields,
       BarTellsTruth

(* A dying process takes the uploads with it and leaves queued documents,  *)
(* whose pictures are stored.                                              *)
LEMMA DeathChain ==
    ASSUME IInv, ProcessDies, NEW m \in Names
    PROVE  Chain(m)'
<1>1. Chain(m) /\ TypeOK
    BY DEF IInv
<1>2. /\ job'[m].editor = job[m].editor /\ job'[m].picked = job[m].picked
      /\ job'[m].stale = job[m].stale /\ job'[m].repicked = job[m].repicked
      /\ job'[m].phase = IF job[m].phase \in {"image", "thumb"} THEN "lost"
                         ELSE IF job[m].phase = "add" THEN "queued"
                         ELSE job[m].phase
    BY <1>1 DEF ProcessDies, TypeOK, Jobs
<1>3. UNCHANGED <<images, thumbs, posts>>
    BY DEF ProcessDies
<1>4. job[m].phase # "none" => editor'[job[m].editor].state # "new"
    BY <1>1 DEF ProcessDies, Chain, HasEditor, Fields
<1> QED
    BY <1>1, <1>2, <1>3, <1>4
       DEF Chain, FreshName, HasEditor, ImageUnderWay, ThumbUnderWay,
           BothStored, CommittedPhase, Stored

(* What is known of a chain in each phase stays known, action by action.   *)
LEMMA NextChain ==
    ASSUME IInv, [Next]_vars, NEW m \in Names
    PROVE  Chain(m)'
<1>0. TypeOK /\ Chain(m) /\ \A n \in Names : Chain(n)
    BY DEF IInv
<1> USE <1>0 DEF TypeOK, Chain, FreshName, HasEditor, ImageUnderWay,
                 ThumbUnderWay, BothStored, CommittedPhase, Stored
<1>1. ASSUME NEW e \in Editors, Open(e) PROVE Chain(m)'
    BY <1>1 DEF Open, EditorStates, Fields
<1>2. ASSUME NEW e \in Editors, Write(e) PROVE Chain(m)'
    BY <1>2 DEF Write, EditorStates
<1>3. ASSUME NEW e \in Editors, NEW p \in Pictures, Pick(e, p) PROVE Chain(m)'
    BY <1>3, NewPostAssumption DEF Pick, EditorStates, Jobs
<1>4. ASSUME NEW e \in Editors, Back(e) PROVE Chain(m)'
    BY <1>4 DEF Back, EditorStates
<1>5. ASSUME NEW e \in Editors, ClickCrashes(e) PROVE Chain(m)'
    BY <1>5, DeathChain DEF ClickCrashes
<1>6. ASSUME NEW e \in Editors, NEW n \in Names, NEW ok \in BOOLEAN,
             Click(e, n, ok)
      PROVE  Chain(m)'
    BY <1>6, CompressType DEF Click, CanPublish, EditorStates, Jobs
<1>7. ASSUME NEW n \in Names, StoreImage(n) PROVE Chain(m)'
    BY <1>7 DEF StoreImage, Jobs
<1>8. ASSUME NEW n \in Names, StoreThumb(n) PROVE Chain(m)'
    BY <1>8 DEF StoreThumb, Jobs
<1>9. ASSUME NEW n \in Names, NEW ok \in BOOLEAN, ImageUploaded(n, ok)
      PROVE  Chain(m)'
    <2> DEFINE e == job[n].editor
               b == Compress(e, "thumb", ok)
    <2>1. /\ e \in Editors /\ editor[e].compressed \in Bitmaps
          /\ editor[e].compressed # NoBitmap
          /\ editor[e].postImageUri # NoPicture
          /\ images[n] = job[n].bytes /\ images[n] \in Bitmaps
        BY <1>9, NewPostAssumption DEF ImageUploaded, Bitmaps
    <2>2. /\ b \in Bitmaps
          /\ ok => b = [pic |-> editor[e].postImageUri, size |-> "thumb"]
        BY <2>1, CompressType
    <2> HIDE DEF b
    <2>3. /\ editor' = [editor EXCEPT ![e].compressed = b]
          /\ job' = [job EXCEPT ![n] = [job[n] EXCEPT !.phase = "thumb", !.bytes = b,
                                            !.stale = job[n].stale \/ ~ok]]
          /\ UNCHANGED <<images, thumbs, posts>>
          /\ job[n].phase = "image"
        BY <1>9 DEF ImageUploaded, b
    <2>4. CASE m = n
        <3>1. /\ job'[n].phase = "thumb" /\ job'[n].bytes = b
              /\ job'[n].stale <=> (job[n].stale \/ ~ok)
              /\ job'[n].editor = e /\ job'[n].picked = job[n].picked
              /\ job'[n].repicked = job[n].repicked
            BY <2>3 DEF Jobs
        <3> QED
            BY <2>1, <2>2, <2>3, <2>4, <3>1
    <2>5. CASE m # n
        <3>1. job'[m] = job[m]
            BY <2>3, <2>5
        <3>2. \A d \in Editors : /\ editor'[d].state = editor[d].state
                                 /\ editor'[d].postImageUri = editor[d].postImageUri
                                 /\ editor'[d].compressed \in {editor[d].compressed, b}
            BY <2>1, <2>3 DEF EditorStates
        <3> QED
            BY <2>2, <2>3, <3>1, <3>2
    <2> QED
        BY <2>4, <2>5
<1>10. ASSUME NEW n \in Names, ImageFailed(n) PROVE Chain(m)'
    BY <1>10, DeathChain DEF ImageFailed
<1>11. ASSUME NEW n \in Names, ThumbUploaded(n) PROVE Chain(m)'
    BY <1>11 DEF ThumbUploaded, Jobs, Phases
<1>12. ASSUME NEW n \in Names, ThumbFailed(n) PROVE Chain(m)'
    BY <1>12 DEF ThumbFailed, Jobs, Phases
<1>13. ASSUME NEW n \in Names, Commit(n) PROVE Chain(m)'
    BY <1>13 DEF Commit, Jobs, Phases
<1>14. ASSUME NEW n \in Names, AddSucceeded(n) PROVE Chain(m)'
    BY <1>14 DEF AddSucceeded, Jobs, Phases, EditorStates
<1>15. ASSUME NEW n \in Names, AddRejected(n) PROVE Chain(m)'
    BY <1>15 DEF AddRejected, Jobs, Phases, EditorStates
<1>16. ASSUME NEW n \in Names, QueuedRejected(n) PROVE Chain(m)'
    BY <1>16 DEF QueuedRejected, Jobs, Phases
<1>17. CASE Kill
    BY <1>17, DeathChain DEF Kill
<1>18. CASE UNCHANGED vars
    BY <1>18 DEF vars
<1> QED
    BY <1>1, <1>2, <1>3, <1>4, <1>5, <1>6, <1>7, <1>8, <1>9, <1>10, <1>11,
       <1>12, <1>13, <1>14, <1>15, <1>16, <1>17, <1>18
       DEF Next, UserStep, StorageStep, FirestoreStep
-----------------------------------------------------------------------------
(* The progress bar.                                                       *)

(* The chains of an activity that its bar spins for, and those that hid it *)
(* whatever else was running.                                              *)
Behind(d, n) ==
    /\ job[n].editor = d
    /\ job[n].phase \in {"image", "thumb", "add", "thumbFailed"}

Refused(d, n) == job[n].editor = d /\ job[n].phase = "rejected"

Truthful(d) ==
    editor[d].state = "open" =>
        /\ editor[d].progress => \E n \in Names : Behind(d, n)
        /\ (\E n \in Names : Behind(d, n)) =>
               editor[d].progress \/ \E n \in Names : Refused(d, n)

(* A step that leaves a bar and the two kinds of chains of its activity    *)
(* alone, or moves a chain within its kind, keeps the bar truthful.        *)
LEMMA BarKept ==
    ASSUME NEW d \in Editors, Truthful(d),
           editor'[d].state = "open" => editor[d].state = "open",
           editor'[d].progress = editor[d].progress,
           \A n \in Names : Behind(d, n)' <=> Behind(d, n),
           \A n \in Names : Refused(d, n) => Refused(d, n)'
    PROVE  Truthful(d)'
BY DEF Truthful

(* No step makes a bar lie.                                                *)
LEMMA NextTruthful ==
    ASSUME IInv, [Next]_vars, NEW d \in Editors
    PROVE  Truthful(d)'
<1>0. TypeOK /\ \A n \in Names : HasEditor(n)
    BY DEF IInv, Chain
<1>1. Truthful(d)
    BY DEF IInv, BarTellsTruth, Truthful, Behind, Refused
<1> USE <1>0 DEF TypeOK, HasEditor
<1>2. ASSUME NEW e \in Editors, Open(e)
      PROVE  Truthful(d)'
    <2>1. CASE e = d
        <3>1. \A n \in Names : ~Behind(d, n)'
            BY <1>2, <2>1 DEF Open, Behind
        <3>2. editor'[d].progress = FALSE
            BY <1>2, <2>1 DEF Open, Fields
        <3> QED
            BY <3>1, <3>2 DEF Truthful
    <2>2. CASE e # d
        BY <1>1, <1>2, <2>2, BarKept DEF Open, Behind, Refused
    <2> QED
        BY <2>1, <2>2
<1>3. ASSUME NEW e \in Editors, Write(e) \/ Back(e)
      PROVE  Truthful(d)'
    <2>1. /\ editor'[d].state = "open" => editor[d].state = "open"
          /\ editor'[d].progress = editor[d].progress
          /\ job' = job
        BY <1>3 DEF Write, Back, EditorStates
    <2> QED
        BY <1>1, <2>1, BarKept DEF Behind, Refused
<1>4. ASSUME NEW e \in Editors, NEW p \in Pictures, Pick(e, p)
      PROVE  Truthful(d)'
    <2>1. /\ editor'[d].state = editor[d].state
          /\ editor'[d].progress = editor[d].progress
        BY <1>4 DEF Pick, EditorStates
    <2>2. \A n \in Names : /\ job'[n].editor = job[n].editor
                           /\ job'[n].phase = job[n].phase
        BY <1>4 DEF Pick, Jobs
    <2> QED
        BY <1>1, <2>1, <2>2, BarKept DEF Behind, Refused
<1>5. ASSUME ProcessDies
      PROVE  Truthful(d)'
    BY <1>5 DEF ProcessDies, EditorStates, Fields, Truthful
<1>6. ASSUME NEW e \in Editors, NEW n \in Names, NEW ok \in BOOLEAN,
             Click(e, n, ok)
      PROVE  Truthful(d)'
    <2>1. CASE e = d
        <3>1. editor'[d].progress = TRUE
            BY <1>6, <2>1 DEF Click, EditorStates
        <3>2. Behind(d, n)'
            BY <1>6, <2>1 DEF Click, Behind, Jobs
        <3> QED
            BY <3>1, <3>2 DEF Truthful
    <2>2. CASE e # d
        <3>1. editor'[d] = editor[d]
            BY <1>6, <2>2 DEF Click, EditorStates
        <3>2. \A k \in Names : /\ Behind(d, k)' <=> Behind(d, k)
                               /\ Refused(d, k) => Refused(d, k)'
            BY <1>6, <2>2 DEF Click, Behind, Refused, Jobs
        <3> QED
            BY <1>1, <3>1, <3>2, BarKept
    <2> QED
        BY <2>1, <2>2
<1>7. ASSUME NEW n \in Names, StoreImage(n) \/ StoreThumb(n)
      PROVE  Truthful(d)'
    BY <1>1, <1>7, BarKept DEF StoreImage, StoreThumb, Behind, Refused
<1>8. ASSUME NEW n \in Names, ThumbUploaded(n) \/ ThumbFailed(n)
      PROVE  Truthful(d)'
    <2>1. \A k \in Names : /\ Behind(d, k)' <=> Behind(d, k)
                           /\ Refused(d, k) => Refused(d, k)'
        BY <1>8 DEF ThumbUploaded, ThumbFailed, Behind, Refused, Jobs
    <2>2. editor' = editor
        BY <1>8 DEF ThumbUploaded, ThumbFailed
    <2> QED
        BY <1>1, <2>1, <2>2, BarKept
<1>9. ASSUME NEW n \in Names, NEW ok \in BOOLEAN, ImageUploaded(n, ok)
      PROVE  Truthful(d)'
    <2>1. \A k \in Names : /\ Behind(d, k)' <=> Behind(d, k)
                           /\ Refused(d, k) => Refused(d, k)'
        BY <1>9 DEF ImageUploaded, Behind, Refused, Jobs
    <2>2. /\ editor'[d].state = editor[d].state
          /\ editor'[d].progress = editor[d].progress
        BY <1>9 DEF ImageUploaded, EditorStates
    <2> QED
        BY <1>1, <2>1, <2>2, BarKept
<1>10. ASSUME NEW n \in Names, Commit(n) \/ QueuedRejected(n)
      PROVE  Truthful(d)'
    <2>1. \A k \in Names : /\ Behind(d, k)' <=> Behind(d, k)
                           /\ Refused(d, k) => Refused(d, k)'
        BY <1>10 DEF Commit, QueuedRejected, Behind, Refused, Jobs
    <2>2. editor' = editor
        BY <1>10 DEF Commit, QueuedRejected
    <2> QED
        BY <1>1, <2>1, <2>2, BarKept
<1>11. ASSUME NEW n \in Names, AddSucceeded(n) \/ AddRejected(n)
      PROVE  Truthful(d)'
    <2>1. job[n].editor \in Editors
        BY <1>11 DEF AddSucceeded, AddRejected
    <2>2. CASE job[n].editor # d
        <3>1. editor'[d] = editor[d]
            BY <1>11, <2>1, <2>2 DEF AddSucceeded, AddRejected, EditorStates
        <3>2. \A k \in Names : /\ Behind(d, k)' <=> Behind(d, k)
                               /\ Refused(d, k) => Refused(d, k)'
            BY <1>11, <2>2 DEF AddSucceeded, AddRejected, Behind, Refused, Jobs
        <3> QED
            BY <1>1, <3>1, <3>2, BarKept
    <2>3. CASE job[n].editor = d /\ AddSucceeded(n)
        BY <2>3 DEF AddSucceeded, EditorStates, Truthful
    <2>4. CASE job[n].editor = d /\ AddRejected(n)
        <3>1. editor'[d].progress = FALSE
            BY <2>4 DEF AddRejected, EditorStates
        <3>2. Refused(d, n)'
            BY <2>4 DEF AddRejected, Refused, Jobs
        <3> QED
            BY <3>1, <3>2 DEF Truthful
    <2> QED
        BY <1>11, <2>2, <2>3, <2>4
<1>12. CASE UNCHANGED vars
    BY <1>1, <1>12, BarKept DEF vars, Behind, Refused
<1> QED
    BY <1>2, <1>3, <1>4, <1>5, <1>6, <1>7, <1>8, <1>9, <1>10, <1>11, <1>12
       DEF Next, UserStep, StorageStep, FirestoreStep, Kill, ClickCrashes,
           ImageFailed
-----------------------------------------------------------------------------
(* Invariance.                                                             *)

(* The invariant is inductive.                                             *)
LEMMA NextIInv == IInv /\ [Next]_vars => IInv'
<1> SUFFICES ASSUME IInv, [Next]_vars PROVE IInv'
    OBVIOUS
<1>1. TypeOK'
    BY NextTypeOK
<1>2. \A n \in Names : Chain(n)'
    BY NextChain
<1>3. BarTellsTruth'
    BY NextTruthful DEF BarTellsTruth, Truthful, Behind, Refused
<1> QED
    BY <1>1, <1>2, <1>3 DEF IInv

(* The inductive invariant holds in every state of the editor.             *)
THEOREM Invariance == Spec => []IInv
BY InitIInv, NextIInv, PTL DEF Spec

(* Every field keeps its type, whatever fails and whenever the process     *)
(* dies.                                                                   *)
THEOREM TypeCorrect == Spec => []TypeOK
<1>1. IInv => TypeOK
    BY DEF IInv
<1> QED
    BY <1>1, Invariance, PTL

(* The document is committed last: no committed document names a picture   *)
(* or a thumbnail that is not in storage.                                  *)
THEOREM PostsAreComplete == Spec => []PostsComplete
<1>1. IInv => PostsComplete
    BY NewPostAssumption
       DEF IInv, TypeOK, Chain, CommittedPhase, BothStored, PostsComplete, Bitmaps
<1> QED
    BY <1>1, Invariance, PTL

(* Published pictures are the ones on screen when the button was pressed,  *)
(* but for failed compressions and a change of picture during the upload.  *)
THEOREM PublishedPicturesAgree == Spec => []PicturesAgree
<1>1. IInv => PicturesAgree
    BY DEF IInv, TypeOK, Chain, CommittedPhase, BothStored, PicturesAgree
<1> QED
    BY <1>1, Invariance, PTL

(* The second compression of a chain never leaves a null bitmap.           *)
THEOREM BitmapIsHeld == Spec => []BitmapHeld
<1>1. IInv => BitmapHeld
    BY NewPostAssumption DEF IInv, Chain, ImageUnderWay, BitmapHeld, Bitmaps
<1> QED
    BY <1>1, Invariance, PTL

(* The progress bar that the chains of an activity share spins exactly     *)
(* while one runs or has lost its thumbnail, unless a refusal has hidden   *)
(* it.                                                                     *)
THEOREM BarsTellTheTruth == Spec => []BarTellsTruth
<1>1. IInv => BarTellsTruth
    BY DEF IInv
<1> QED
    BY <1>1, Invariance, PTL
-----------------------------------------------------------------------------
(* Refinement.                                                             *)

Shown == [n \in posts |-> [image |-> images[n], thumb |-> thumbs[n]]]

(* The initial states are those of the board.                              *)
LEMMA InitBoard == Init => Board!Init
BY DEF Init, Board!Init

(* Only a commit shows a post, and then with both pictures; no other step  *)
(* touches the pictures of a committed name.                               *)
LEMMA NextBoard == IInv /\ [Next]_vars => [Board!Next]_Shown
<1> SUFFICES ASSUME IInv, [Next]_vars PROVE [Board!Next]_Shown
    OBVIOUS
<1>0. TypeOK /\ \A n \in Names : Chain(n)
    BY DEF IInv
<1>1. ASSUME NEW n \in Names, Commit(n), n \notin posts
      PROVE  Board!Next
    <2>1. images[n] \in Bitmaps /\ thumbs[n] \in Bitmaps
        BY <1>0, <1>1 DEF Commit, Chain, BothStored, Stored
    <2>2. Board!Publish(n, images[n], thumbs[n])
        BY <1>1 DEF Commit, Board!Publish
    <2> QED
        BY <2>1, <2>2 DEF Board!Next, Board!Publish
<1>2. ASSUME posts' = posts,
             \A n \in posts : images'[n] = images[n] /\ thumbs'[n] = thumbs[n]
      PROVE  Shown' = Shown
    BY <1>2 DEF Shown
<1>3. ASSUME NEW n \in Names, Commit(n), n \in posts
      PROVE  Shown' = Shown
    BY <1>2, <1>3 DEF Commit
<1>4. ASSUME NEW n \in Names, StoreImage(n) \/ StoreThumb(n)
      PROVE  Shown' = Shown
    <2>1. n \notin posts
        BY <1>0, <1>4 DEF StoreImage, StoreThumb, Chain, CommittedPhase, Stored
    <2> QED
        BY <1>0, <1>2, <1>4, <2>1 DEF StoreImage, StoreThumb, TypeOK
<1>5. CASE \A n \in Names : ~Commit(n) /\ ~StoreImage(n) /\ ~StoreThumb(n)
    <2>1. UNCHANGED <<posts, images, thumbs>>
        BY <1>5 DEF Next, vars, UserStep, StorageStep, FirestoreStep, Open,
           Write, Pick, Back, ClickCrashes, Click, ImageUploaded, ImageFailed,
           ThumbUploaded, ThumbFailed, AddSucceeded, AddRejected,
           QueuedRejected, Kill, ProcessDies
    <2> QED
        BY <1>2, <2>1
<1> QED
    BY <1>1, <1>3, <1>4, <1>5

(* The chain of callbacks, with its failures, deaths and double clicks,    *)
(* implements publishing in one step.                                      *)
THEOREM ImplementsBoard == Spec => BoardSpec
BY InitBoard, NextBoard, Invariance, PTL DEF Spec, BoardSpec, Board!Spec, Shown
=============================================================================

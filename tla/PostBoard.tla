----------------------------- MODULE PostBoard -----------------------------
(***************************************************************************)
(* What the community board promises of publishing, whatever the upload    *)
(* pipeline behind it does: a post becomes visible in one step, complete   *)
(* with its picture and its thumbnail, and what is visible never changes.  *)
(***************************************************************************)

CONSTANTS Names,    \* the image names a post can be published under
          Bitmaps   \* the pictures storage can hold

VARIABLE shown      \* image name -> the two pictures of the visible post

Init == shown = [n \in {} |-> {}]

(* One post appears under a fresh name; the older ones stay as they were. *)
Publish(n, image, thumb) ==
    /\ n \notin DOMAIN shown
    /\ shown' = [m \in DOMAIN shown \cup {n} |->
                    IF m = n THEN [image |-> image, thumb |-> thumb]
                             ELSE shown[m]]

Next == \E n \in Names, image, thumb \in Bitmaps : Publish(n, image, thumb)

Spec == Init /\ [][Next]_shown
=============================================================================

------------------------------ MODULE MCLikes -------------------------------
(* Two users: two devices of one of them, or one of each.                  *)
EXTENDS Likes
=============================================================================

----------------------------- MODULE MCNewPost -----------------------------
(* One editor, two names and two pictures: a double click and a change of  *)
(* picture during an upload.                                               *)
EXTENDS NewPost
=============================================================================

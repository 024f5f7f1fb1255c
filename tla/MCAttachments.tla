--------------------------- MODULE MCAttachments ---------------------------
(* Instances of Attachments for TLC. *)
EXTENDS Attachments, TLC

CONSTANTS m1, m2, k1, k2

\* Two messages name the same upload, or one each; the others are the same up to
\* renaming.
SharedOrNot == {m1 :> k1 @@ m2 :> k1, m1 :> k1 @@ m2 :> k2}
=============================================================================

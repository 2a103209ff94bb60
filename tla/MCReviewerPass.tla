--------------------------- MODULE MCReviewerPass ---------------------------
(***************************************************************************)
(* ReviewerPass on small instances.  The constants are given by each .cfg. *)
(***************************************************************************)
EXTENDS ReviewerPass

\* What does not hold under two failures: no head waits for ever.
EveryHeadIsAnswered == <>[]Answered(head)
=============================================================================

---------------------------- MODULE MCReviewModal ----------------------------
(* An instance of ReviewModal for TLC. *)
EXTENDS ReviewModal, TLC

MCSignatures == {"drawn", "photo"}
=============================================================================

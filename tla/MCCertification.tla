--------------------------- MODULE MCCertification ---------------------------
(* The instance of Certification for model checking. *)
EXTENDS Certification

SetEndsAtThree == <<3>>
=============================================================================

---------------------------- MODULE MCSubmission ----------------------------
(* An instance of the submission handler for TLC.                          *)
EXTENDS Submission
=============================================================================

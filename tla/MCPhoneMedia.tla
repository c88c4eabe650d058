---------------------------- MODULE MCPhoneMedia ----------------------------
(* The phone's media sessions for TLC. *)
EXTENDS PhoneMedia
=============================================================================

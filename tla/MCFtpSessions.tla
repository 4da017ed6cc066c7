--------------------------- MODULE MCFtpSessions ---------------------------
(***************************************************************************)
(* TLC instance of FtpSessions: two sessions, files of up to two chunks,   *)
(* one chunk per request.                                                  *)
(***************************************************************************)
EXTENDS FtpSessions
=============================================================================

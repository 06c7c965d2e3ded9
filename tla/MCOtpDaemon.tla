---------------------------- MODULE MCOtpDaemon ----------------------------
(* The TLC instance of OtpDaemon: the daemon with three descendants.        *)
EXTENDS OtpDaemon
=============================================================================

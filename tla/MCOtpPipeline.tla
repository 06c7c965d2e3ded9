--------------------------- MODULE MCOtpPipeline ---------------------------
(***************************************************************************)
(* An instance of OtpPipeline with buffers for three characters: every     *)
(* file of up to four characters and every key of up to four.  B, Z and    *)
(* the space make sums with and without a wrap.                            *)
(***************************************************************************)
EXTENDS OtpPipeline

MCFiles == UNION {[1 .. n -> {1, 25, Newline, Other}] : n \in 0 .. 4}
=============================================================================

----------------------------- MODULE MCMessages -----------------------------
(* Messages with two programs on the device and replies of up to three      *)
(* units, a part of one and one over what is left of a longer one; name     *)
(* servers' replies of up to two answers, cut anywhere, where memory may    *)
(* hold 0; and headers of up to three lines in two spellings.               *)
EXTENDS Messages
=============================================================================

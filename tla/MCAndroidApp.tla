---------------------------- MODULE MCAndroidApp ----------------------------
(* AndroidApp with two processes, an old one and the one that replaces it,  *)
(* and two questions at a time.                                             *)
EXTENDS AndroidApp
=============================================================================

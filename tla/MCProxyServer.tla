--------------------------- MODULE MCProxyServer ---------------------------
(* Model values for three connection objects and two thread slots.         *)
EXTENDS ProxyServer
=============================================================================

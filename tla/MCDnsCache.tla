----------------------------- MODULE MCDnsCache -----------------------------
(* DnsCache with connections for the same and for different hosts beside    *)
(* the loader.                                                              *)
EXTENDS DnsCache
=============================================================================

---------------------------- MODULE MCProxyServer ----------------------------
(* Small instances of ProxyServer. *)
EXTENDS ProxyServer
=============================================================================

---------------------------- MODULE MCHttpServer ----------------------------
(* Instances of HttpServer for TLC.                                        *)
EXTENDS HttpServer, TLC

\* Connections do not differ, nor do the threads that call stop-server.
Symmetric == Permutations(Conns) \cup Permutations(Callers)
=============================================================================

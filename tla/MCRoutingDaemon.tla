-------------------------- MODULE MCRoutingDaemon --------------------------
(* RoutingDaemon on small tables: see the .cfg files. *)
EXTENDS RoutingDaemon
=============================================================================

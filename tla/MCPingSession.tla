--------------------------- MODULE MCPingSession ---------------------------
(* PingSession with two clients: see PingSession.cfg. *)
EXTENDS PingSession, TLC
=============================================================================

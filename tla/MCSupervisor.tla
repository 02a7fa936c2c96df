---------------------------- MODULE MCSupervisor ----------------------------
(* Two attempts, limits of two and three polls, two unread log lines.      *)
EXTENDS Supervisor
=============================================================================

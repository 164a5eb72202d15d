------------------------------- MODULE MCHost -------------------------------
(* Two runs that may come to want different images, two processes of which   *)
(* one may be the contributor's own, and three disturbances: enough for a     *)
(* crash, the reuse of its pid and a command in between.                       *)
EXTENDS HostAgent

RunsValue == {"r1", "r2"}
=============================================================================

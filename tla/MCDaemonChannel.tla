--------------------------- MODULE MCDaemonChannel ---------------------------
(* A slow call beside a prompt one that starts the helper and a prompt one   *)
(* that gives up quietly when it is not alive.                               *)
EXTENDS DaemonChannel

CONSTANTS slow, start, query
==============================================================================

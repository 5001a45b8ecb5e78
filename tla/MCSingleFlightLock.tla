------------------------- MODULE MCSingleFlightLock -------------------------
(* A small instance of the single-flight lock for TLC. *)
EXTENDS SingleFlightLock

CONSTANTS worker, reviewer, chat, chat2

\* A node lane and a bash reviewer; two chats of the dashboard.
MCLanes == {worker, reviewer}
MCBash == {reviewer}
MCChats == {chat, chat2}
=============================================================================

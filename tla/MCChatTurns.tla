---------------------------- MODULE MCChatTurns ----------------------------
(* Values for TLC: see ChatTurns.cfg and SessionEvents.cfg. *)
EXTENDS ChatTurns

CONSTANTS first, second, page, todo

OneRun == {first}
TwoRuns == {first, second}
OneClient == {page}
NoClient == {}
OneTodo == {todo}
=============================================================================

------------------------- MODULE MCHistoryRollback -------------------------
(***************************************************************************)
(* HistoryRollback with two chats and one reader.                          *)
(***************************************************************************)
EXTENDS HistoryRollback

CONSTANTS a, b, r1

Chats   == {a, b}
Readers == {r1}
============================================================================

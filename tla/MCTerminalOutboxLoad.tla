------------------------- MODULE MCTerminalOutboxLoad -------------------------
(***************************************************************************)
(* TerminalOutboxLoad on the files an older manager wrote: up to two       *)
(* events, with or without a chat_id, some of the abolished code.          *)
(***************************************************************************)
EXTENDS TerminalOutboxLoad

MCPreviousEvents ==
    [call : {1, 2}, chat : BOOLEAN, extra : {FALSE}, code : {"allowed", "chat"}]

MCPreviousFiles ==
    [top : {TRUE}, events : UNION {[1..n -> MCPreviousEvents] : n \in 0..2}]
=============================================================================

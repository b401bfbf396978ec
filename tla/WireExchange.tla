----------------------------- MODULE WireExchange -----------------------------
(***************************************************************************)
(* The frames of one WebSocket connection (session_manager/protocol.rs and *)
(* run_connection, dispatch and handle_request of transport.rs): a reader  *)
(* that parses frames and answers requests through an unbounded queue, and *)
(* a writer task that turns the queue into frames, pings, and ends the     *)
(* connection when the client has been silent for too long.                *)
(*                                                                         *)
(* A frame is what from_value looks at: the version, the id, the method,   *)
(* and whether there is a result or an error.                              *)
(***************************************************************************)
EXTENDS Naturals, Sequences, Places

CONSTANTS
    WireFrames,     \* frames a client may send
    WireMaxFrames   \* bound on the frames of a connection

\* id "other" is a fraction, an array or an object; a method that is no string
\* counts as absent.
WireFrame ==
    [ version : BOOLEAN,
      id      : {"absent", "null", "text", "number", "other"},
      method  : {"absent", "session.register", "session.bye", "session.tools_changed"},
      result  : BOOLEAN,
      error   : {"absent", "valid", "invalid"} ]

ASSUME WireFramesAssumption == WireFrames \subseteq WireFrame
ASSUME WireMaxFramesAssumption == WireMaxFrames \in Nat

VARIABLES
    wireIn,         \* frames on their way to the manager
    wireRead,       \* frames the reader has taken, all of them
    wireOut,        \* the queue: messages for the writer
    wireWritten,    \* frames the writer has sent
    wireReader,     \* "reading", "leaving" (out of its loop), or "ended"
    wireWriter,     \* "running", "polled" (found the queue empty, the token is next),
                    \* "done", or "broken": the socket failed or was silent
    wireCancel,     \* the CancellationToken of the connection
    wireLooked      \* history: answers owed when the writer last polled the queue

wireVars == <<wireIn, wireRead, wireOut, wireWritten, wireReader, wireWriter, wireCancel,
              wireLooked>>

WireTypeOK ==
    /\ wireIn \in Seq(WireFrames)
    /\ wireRead \in Seq(WireFrames)
    /\ wireWritten \in Seq(WireFrame)
    /\ wireReader \in {"reading", "leaving", "ended"}
    /\ wireWriter \in {"running", "polled", "done", "broken"}
    /\ wireCancel \in BOOLEAN
    /\ wireLooked \in Nat

WireInit ==
    /\ wireIn = <<>>
    /\ wireRead = <<>>
    /\ wireOut = <<>>
    /\ wireWritten = <<>>
    /\ wireReader = "reading"
    /\ wireWriter = "running"
    /\ wireCancel = FALSE
    /\ wireLooked = 0

-----------------------------------------------------------------------------
(* WireMessage *)

WireMessage(kind, id, method, ok) == [kind |-> kind, id |-> id, method |-> method, ok |-> ok]
ParseError == WireMessage("parse_error", "null", "absent", FALSE)
Response(id, ok) == WireMessage("response", id, "absent", ok)

\* id_from_value
IdReadable(f) == f.id # "other"

\* WireMessage::parse and from_value
ParseFrame(f) ==
    LET shape == <<f.id # "absent", f.method # "absent", f.result, f.error # "absent">> IN
    CASE ~f.version \/ ~IdReadable(f) -> ParseError
      [] OTHER ->
           CASE shape = <<TRUE, TRUE, FALSE, FALSE>>  ->
                  WireMessage("request", f.id, f.method, TRUE)
             [] shape = <<FALSE, TRUE, FALSE, FALSE>> ->
                  WireMessage("notification", "absent", f.method, TRUE)
             [] shape = <<TRUE, FALSE, TRUE, FALSE>>  -> Response(f.id, TRUE)
             [] shape = <<TRUE, FALSE, FALSE, TRUE>> /\ f.error = "valid" ->
                  Response(f.id, FALSE)
             [] OTHER -> ParseError

\* to_value, for the responses of the reader.
PrintResponse(m) ==
    [ version |-> TRUE, id |-> m.id, method |-> "absent",
      result  |-> m.ok,
      error   |-> IF m.ok THEN "absent" ELSE "valid" ]

-----------------------------------------------------------------------------
(* The client *)

SendFrame(f) ==
    /\ Len(wireRead) + Len(wireIn) < WireMaxFrames
    /\ wireIn' = Append(wireIn, f)
    /\ UNCHANGED <<wireRead, wireOut, wireWritten, wireReader, wireWriter, wireCancel,
                   wireLooked>>

-----------------------------------------------------------------------------
(* The reader *)

\* What a frame is answered with; a registration and a bye may succeed or not,
\* any other method is not supported.
Replies(m) ==
    CASE m.kind = "parse_error" -> {<<Response("null", FALSE)>>}
      [] m.kind = "request" ->
           {<<Response(m.id, ok)>> : ok \in
              CASE m.method = "session.register" -> BOOLEAN
                [] m.method = "session.bye"      -> {TRUE}
                [] OTHER                         -> {FALSE}}
      [] OTHER -> {<<>>}

IsBye(m) == m.kind = "request" /\ m.method = "session.bye"

\* The reader's debts: the frames it has read that want an answer, and their ids.
Owed == {k \in DOMAIN wireRead :
            ParseFrame(wireRead[k]).kind \in {"request", "parse_error"}}
OwedIds == Picked([k \in DOMAIN wireRead |-> ParseFrame(wireRead[k]).id], Owed)

\* The ids of the responses the client can read out of the frames it was sent.
AnsweredIds == [i \in DOMAIN wireWritten |->
                  IF ParseFrame(wireWritten[i]).kind = "response"
                  THEN ParseFrame(wireWritten[i]).id ELSE "unreadable"]

\* The rx of the queue lives as long as the writer task.
Listening == wireWriter \in {"running", "polled"}

\* One round of the reader's loop. session.bye is answered and ends the loop; the
\* token is cancelled later (CancelConnection). tx.send to a writer that has gone
\* is ignored.
ReadFrame ==
    /\ wireReader = "reading"
    /\ ~wireCancel
    /\ wireIn # <<>>
    /\ wireIn' = Tail(wireIn)
    /\ wireRead' = Append(wireRead, Head(wireIn))
    /\ \E reply \in Replies(ParseFrame(Head(wireIn))) :
          wireOut' = IF Listening THEN wireOut \o reply ELSE wireOut
    /\ wireReader' = IF IsBye(ParseFrame(Head(wireIn))) THEN "leaving" ELSE wireReader
    /\ UNCHANGED <<wireWritten, wireWriter, wireCancel, wireLooked>>

\* The stream ends, or the writer has cancelled the connection.
EndReading ==
    /\ wireReader = "reading"
    /\ wireCancel \/ wireIn = <<>>
    /\ wireReader' = "leaving"
    /\ UNCHANGED <<wireIn, wireRead, wireOut, wireWritten, wireWriter, wireCancel, wireLooked>>

\* After the loop: cancel.cancel(), and the senders are dropped.
CancelConnection ==
    /\ wireReader = "leaving"
    /\ wireReader' = "ended"
    /\ wireCancel' = TRUE
    /\ UNCHANGED <<wireIn, wireRead, wireOut, wireWritten, wireWriter, wireLooked>>

-----------------------------------------------------------------------------
(* The writer. `biased` makes select! poll rx.recv() first, the ticker and *)
(* the token after it; on the multi-thread runtime the reader runs between *)
(* two polls.                                                              *)

\* Variant: select! without biased: the token may be polled although there is
\* something in the queue.
PollQueueUnbiased ==
    /\ wireWriter = "running"
    /\ wireLooked' = Len(OwedIds)
    /\ \/ /\ wireOut # <<>>
          /\ wireOut' = Tail(wireOut)
          /\ wireWritten' = Append(wireWritten, PrintResponse(Head(wireOut)))
          /\ UNCHANGED wireWriter
       \/ /\ wireWriter' = "polled"
          /\ UNCHANGED <<wireOut, wireWritten>>
    /\ UNCHANGED <<wireIn, wireRead, wireReader, wireCancel>>

\* rx.recv(): a message is sent as a frame and the loop starts again; with an
\* empty queue the other branches are polled. (A closed queue, which follows the
\* cancellation, ends the writer as the token does.)
PollQueue ==
    /\ wireWriter = "running"
    /\ wireLooked' = Len(OwedIds)
    /\ \/ /\ wireOut # <<>>
          /\ wireOut' = Tail(wireOut)
          /\ wireWritten' = Append(wireWritten, PrintResponse(Head(wireOut)))
          /\ UNCHANGED wireWriter
       \/ /\ wireOut = <<>>
          /\ wireWriter' = "polled"
          /\ UNCHANGED <<wireOut, wireWritten>>
    /\ UNCHANGED <<wireIn, wireRead, wireReader, wireCancel>>

\* cancelled(): the writer stops, whatever has been queued since it polled the
\* queue; otherwise select! waits, and polls from the start when it is woken (a
\* ping is sent on the way when the ticker is due).
PollToken ==
    /\ wireWriter = "polled"
    /\ wireWriter' = IF wireCancel THEN "done" ELSE "running"
    /\ UNCHANGED <<wireIn, wireRead, wireOut, wireWritten, wireReader, wireCancel, wireLooked>>

\* Sending a message or a ping fails: the writer ends, the reader is not told.
SinkFails ==
    /\ Listening
    /\ wireWriter' = "broken"
    /\ UNCHANGED <<wireIn, wireRead, wireOut, wireWritten, wireReader, wireCancel, wireLooked>>

\* The ticker is due and there was no frame for ws_ping_timeout.
KeepAliveExpires ==
    /\ wireWriter = "polled"
    /\ wireWriter' = "broken"
    /\ wireCancel' = TRUE
    /\ UNCHANGED <<wireIn, wireRead, wireOut, wireWritten, wireReader, wireLooked>>

WireNext ==
    \/ \E f \in WireFrames : SendFrame(f)
    \/ ReadFrame
    \/ EndReading
    \/ CancelConnection
    \/ PollQueue
    \/ PollToken
    \/ SinkFails
    \/ KeepAliveExpires

WireSpec == WireInit /\ [][WireNext]_wireVars

-----------------------------------------------------------------------------
(* Properties *)

\* The client gets the answers to its requests in their order, each once and
\* under its id, a parse error under null, and nothing else; and a writer that
\* ends although the socket works has sent every answer that was owed when it
\* last looked at the queue. What the reader queues between that look and the
\* look at the token is lost: it may be the answer to session.bye.
AnswersReachClient ==
    /\ Len(AnsweredIds) <= Len(OwedIds)
    /\ AnsweredIds = SubSeq(OwedIds, 1, Len(AnsweredIds))
    /\ wireWriter = "done" => wireLooked <= Len(AnsweredIds)
=============================================================================

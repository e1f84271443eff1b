------------------------------ MODULE Connection ------------------------------
(***************************************************************************)
(* The loop of a WebSocket connection (src/transport_ws.rs) and of the     *)
(* stdio transport (src/transport_stdio.rs): one frame or line at a time,  *)
(* handled to its end before the next is read, with Handler::handle of     *)
(* src/handler.rs, which answers a request and not a notification. Unlike  *)
(* an HTTP request, a call is not dropped when its client goes away.       *)
(***************************************************************************)
EXTENDS Naturals, Sequences

CONSTANTS MaxFrames  \* bound on what the client sends; a frame is its number

\* What a frame holds: a request, a notification, an array of one of each, no
\* JSON, something the loop fails on (too large, or no text), or nothing; a
\* WebSocket also has pings and closes.
Kinds(t) ==
    {"request", "notification", "batch", "garbage", "broken"}
        \cup (IF t = "ws" THEN {"ping", "close"} ELSE {"blank"})

VARIABLES
    transport,  \* "ws" or "stdio"
    sent,       \* the frames of the client, in order: kind, and whether binary
    read,       \* how many of them the loop has read
    pc,         \* of the loop: "read", "handle", "reply" or "over"
    handled,    \* the frames the handler went through to the end, in order
    out,        \* the answers, in order: the number of a frame, 0 for no id
    gone,       \* whether the connection or the input has been closed
    panicked    \* whether the handler has panicked

vars == <<transport, sent, read, pc, handled, out, gone, panicked>>

Init ==
    /\ transport \in {"ws", "stdio"}
    /\ sent = <<>> /\ read = 0 /\ pc = "read"
    /\ handled = <<>> /\ out = <<>>
    /\ gone = FALSE /\ panicked = FALSE

ClientSends(kind, binary) ==
    /\ ~gone /\ Len(sent) < MaxFrames
    /\ binary => transport = "ws" /\ kind \notin {"ping", "close"}
    /\ sent' = Append(sent, [kind |-> kind, binary |-> binary])
    /\ UNCHANGED <<transport, read, pc, handled, out, gone, panicked>>

ClientGoes ==
    /\ ~gone /\ gone' = TRUE
    /\ UNCHANGED <<transport, sent, read, pc, handled, out, panicked>>

Current == sent[read]

\* What is done with a frame: it ends the loop, is handled, is answered without
\* the handler, or is passed over. An array over a WebSocket is passed over:
\* the handler finds no method and no id in it.
Ends(f) == f.kind \in {"broken", "close"}
Handles(f) == f.kind \in {"request", "notification"} \/ (f.kind = "batch" /\ transport = "stdio")
AnswersAlone(f) == f.kind = "ping" \/ (f.kind = "garbage" /\ ~f.binary)

ReadFrame ==
    /\ pc = "read" /\ read < Len(sent)
    /\ read' = read + 1
    /\ LET f == sent[read + 1]
       IN  pc' = IF Ends(f) THEN "over"
                 ELSE IF Handles(f) THEN "handle"
                 ELSE IF AnswersAlone(f) THEN "reply" ELSE "read"
    /\ UNCHANGED <<transport, sent, handled, out, gone, panicked>>

\* The end of the input. A WebSocket that breaks takes unread frames with it.
ReadEnd ==
    /\ pc = "read" /\ gone
    /\ transport = "ws" \/ read = Len(sent)
    /\ pc' = "over"
    /\ UNCHANGED <<transport, sent, read, handled, out, gone, panicked>>

\* Wrong variant of Answered: a binary frame is handled and not answered.
AnsweredText(f) == f.kind \in {"request", "batch"} /\ ~f.binary
\* Of what it handles, the loop answers what has an id (the pong that the library
\* sends by itself is left out).
Answered(f) == f.kind \in {"request", "batch"}

\* Wrong variant of Handle: the call is dropped with its client.
HandleUnlessGone ==
    /\ pc = "handle" /\ ~gone
    /\ handled' = Append(handled, read)
    /\ pc' = IF Answered(Current) THEN "reply" ELSE "read"
    /\ UNCHANGED <<transport, sent, read, out, gone, panicked>>

\* The handler ends, with or without an answer.
Handle ==
    /\ pc = "handle"
    /\ handled' = Append(handled, read)
    /\ pc' = IF Answered(Current) THEN "reply" ELSE "read"
    /\ UNCHANGED <<transport, sent, read, out, gone, panicked>>

\* truncate of src/sap_client.rs slices a text of SAP inside a character: the
\* task of the connection, or the process, ends.
Panic ==
    /\ pc = "handle" /\ panicked' = TRUE
    /\ pc' = "over"
    /\ UNCHANGED <<transport, sent, read, handled, out, gone>>

Id == IF Current.kind = "garbage" THEN 0 ELSE read

\* Wrong variant of AfterReply: the frame is handled once more.
AfterReplyAgain == IF Handles(Current) /\ Len(out) < MaxFrames THEN "handle" ELSE "read"
AfterReply == "read"

Reply ==
    /\ pc = "reply"
    /\ out' = Append(out, Id)
    /\ pc' = AfterReply
    /\ UNCHANGED <<transport, sent, read, handled, gone, panicked>>

\* Nobody takes the answer: the loop ends.
ReplyFails ==
    /\ pc = "reply" /\ gone
    /\ pc' = "over"
    /\ UNCHANGED <<transport, sent, read, handled, out, gone, panicked>>

Loop == ReadFrame \/ ReadEnd \/ Handle \/ Reply \/ ReplyFails

Next ==
    \/ \E k \in Kinds(transport), b \in BOOLEAN : ClientSends(k, b)
    \/ ClientGoes \/ Panic \/ Loop

\* The runtime polls the task of the loop, SAP is only waited for with a
\* timeout, so that the handler ends, and a client that stays takes its answers.
Fairness == WF_vars(Loop)

Spec == Init /\ [][Next]_vars /\ Fairness
-----------------------------------------------------------------------------
\* But for answers without an id, 0.
Ascending(seq) == \A j, k \in DOMAIN seq : j < k /\ seq[j] # 0 /\ seq[k] # 0 => seq[j] < seq[k]

\* No frame is handled or answered twice or out of order, none is answered
\* that a client does not expect an answer to, and before the loop reads on,
\* every request it has read has its answer.
AnswersFollowRequests ==
    /\ Ascending(handled) /\ Ascending(out)
    /\ \A k \in DOMAIN out : out[k] # 0 => sent[out[k]].kind \in {"request", "batch", "ping"}
    /\ pc = "read" => \A k \in 1 .. read :
                          sent[k].kind = "request" => \E j \in DOMAIN out : out[j] = k

\* A call that has begun runs to its end whether or not its client is still
\* there, unless the handler panics.
BegunIsFinished ==
    \A k \in 1 .. MaxFrames :
        pc = "handle" /\ read = k ~> panicked \/ \E j \in DOMAIN handled : handled[j] = k

\* A request is answered, unless the connection ends before.
RequestsAnswered ==
    \A k \in 1 .. MaxFrames :
        k \in DOMAIN sent /\ sent[k].kind = "request"
            ~> pc = "over" \/ \E j \in DOMAIN out : out[j] = k

\* The loop of a client that has gone ends: no task stays behind.
LoopEnds == gone ~> pc = "over"

\* Whether its client stays or not, what was begun comes to its end.
CallsEnd == BegunIsFinished /\ LoopEnds
=============================================================================

--------------------------------- MODULE Turn ---------------------------------
(***************************************************************************)
(* One turn of a conversation (conversation.py: _async_handle_message over *)
(* api.py: stream_utterance): the utterance is sent to Casa, the answer is *)
(* read frame by frame and fed to the chat log, and one result is given to *)
(* Assist.  TIMEOUT_TOTAL may cut the turn at any of its awaits, and so    *)
(* may Home Assistant when the user barges in.  Casa is external.          *)
(*                                                                         *)
(* pc:                                                                     *)
(*   idle        not begun             connecting  awaits _ensure_ws, post *)
(*   sending     awaits the send       reading     awaits the next frame   *)
(*   feeding     awaits the chat log, the stream suspended in a yield      *)
(*   confirming  awaits the send of handoff_received                       *)
(*   cancelling  awaits the send of cancel, under the deadline             *)
(*   closing     the same in stream.aclose(), past the deadline            *)
(*   over        the result was given, or the turn has raised              *)
(***************************************************************************)
EXTENDS Naturals, Sequences

CONSTANT MaxInbox   \* bound: frames that wait to be read

ASSUME InboxAssumption == MaxInbox \in Nat

VARIABLES
  transport,    \* "ws" or "sse"
  pc,           \* see above
  socket,       \* "open" or "lost"
  inbox,        \* the frames in the utterance's queue, or in the response
  sawContent,   \* saw_content
  timer,        \* whether TIMEOUT_TOTAL has passed
  result,       \* what the turn will give to Assist
  casa,         \* external: what Casa does with the utterance
  interrupted,  \* history: the cancel frame itself was cut off
  reauth        \* whether the reauthentication was started

turnVars == <<transport, pc, socket, inbox, sawContent, timer, result, casa, interrupted, reauth>>

\* What the two transports can bring; "other" is a frame of no known type, or a
\* handoff that is malformed.
Frames == {"block", "empty", "other", "handoff", "error", "done"}

TurnInit ==
  /\ transport \in {"ws", "sse"}
  /\ pc = "idle"
  /\ socket = "open"
  /\ inbox = <<>>
  /\ sawContent = FALSE
  /\ timer = FALSE
  /\ result = "none"
  /\ casa = "idle"
  /\ interrupted = FALSE
  /\ reauth = FALSE

-----------------------------------------------------------------------------
(* How the stream ends.                                                    *)

\* Defect: the cancel frame is sent only while nothing was said.
CancelsOnlySilence == transport = "ws" /\ socket = "open" /\ ~sawContent

\* Whether the finally of the WebSocket stream sends a cancel frame when no
\* terminal frame was read.
SendsCancel == transport = "ws" /\ socket = "open"

\* The turn ends with r; no terminal frame was read.  The stream is closed
\* by the exception that passes through it, or by aclose.
Abandon(r, closes) ==
  /\ result' = r
  /\ inbox' = <<>>
  /\ pc' = IF SendsCancel THEN closes ELSE "over"

\* The turn ends with r after a terminal frame, or before there was a stream.
End(r) ==
  /\ result' = r
  /\ inbox' = <<>>
  /\ pc' = "over"

-----------------------------------------------------------------------------
(* The turn.                                                               *)

\* An agent that Casa does not advertise has no client.
Begin ==
  /\ pc = "idle"
  /\ \/ pc' = "connecting" /\ UNCHANGED <<result, inbox>>
     \/ End("connection")
  /\ UNCHANGED <<transport, socket, sawContent, timer, casa, interrupted, reauth>>

\* _ensure_ws returns and the queue is registered; or the post is answered 200.
Connected ==
  /\ pc = "connecting"
  /\ IF transport = "ws" THEN pc' = "sending" /\ UNCHANGED casa
                         ELSE pc' = "reading" /\ casa' = "answering"
  /\ UNCHANGED <<transport, socket, inbox, sawContent, timer, result, interrupted, reauth>>

\* Casa cannot be reached, or it answers 401.
ConnectFails ==
  /\ pc = "connecting"
  /\ \/ End("connection") /\ UNCHANGED reauth
     \/ End("auth") /\ reauth' = TRUE
  /\ UNCHANGED <<transport, socket, sawContent, timer, casa, interrupted>>

Sent ==
  /\ pc = "sending"
  /\ socket = "open"
  /\ pc' = "reading"
  /\ casa' = "answering"
  /\ UNCHANGED <<transport, socket, inbox, sawContent, timer, result, interrupted, reauth>>

\* The send of the utterance, of handoff_received or of cancel raises.
SendFails ==
  /\ socket = "lost"
  /\ \/ pc = "sending" /\ Abandon("connection", "cancelling")
     \/ pc = "confirming" /\ End("connection")
     \/ pc \in {"cancelling", "closing"} /\ pc' = "over" /\ UNCHANGED <<result, inbox>>
  /\ UNCHANGED <<transport, socket, sawContent, timer, casa, interrupted, reauth>>

Rest == inbox' = Tail(inbox)

\* Defect: a stream that breaks after the first words passes for a whole one.
BrokenIsWhole == IF sawContent THEN "content" ELSE "connection"

\* "__closed__" is turned into an error.
Broken == "connection"

\* One frame is taken from the queue, and through the generators.
Read ==
  /\ pc = "reading"
  /\ inbox # <<>>
  /\ \/ Head(inbox) \in {"empty", "other"} /\ Rest /\ UNCHANGED <<pc, sawContent, result>>
     \/ Head(inbox) = "block" /\ Rest /\ sawContent' = TRUE /\ pc' = "feeding"
        /\ UNCHANGED result
     \/ Head(inbox) = "handoff" /\ Rest /\ pc' = "confirming" /\ UNCHANGED <<sawContent, result>>
     \/ Head(inbox) = "error" /\ End("error") /\ UNCHANGED sawContent
     \/ Head(inbox) = "closed" /\ End(Broken) /\ UNCHANGED sawContent
     \/ Head(inbox) = "done" /\ End(IF sawContent THEN "content" ELSE "silent")
        /\ UNCHANGED sawContent
  /\ UNCHANGED <<transport, socket, timer, casa, interrupted, reauth>>

\* The chat log has taken the words, or raises.
Fed ==
  /\ pc = "feeding"
  /\ \/ pc' = "reading" /\ UNCHANGED <<result, inbox>>
     \/ Abandon("raised", "closing")
  /\ UNCHANGED <<transport, socket, sawContent, timer, casa, interrupted, reauth>>

\* Defect: the handoff is spoken without the receipt.
SpeaksWithoutReceipt == pc = "confirming" /\ UNCHANGED casa

\* handoff_received reaches Casa.
Receipt ==
  /\ pc = "confirming"
  /\ socket = "open"
  /\ casa' = "confirmed"

Confirmed ==
  /\ Receipt
  /\ End("handoff")
  /\ UNCHANGED <<transport, socket, sawContent, timer, interrupted, reauth>>

\* The cancel frame reaches Casa.
CancelSent ==
  /\ pc \in {"cancelling", "closing"}
  /\ socket = "open"
  /\ casa' = "cancelled"
  /\ pc' = "over"
  /\ UNCHANGED <<transport, socket, inbox, sawContent, timer, result, interrupted, reauth>>

-----------------------------------------------------------------------------
(* Cancellation.                                                           *)

\* CancelledError at the current await.  A send that is cut off may have
\* reached Casa.
CutOff(r) ==
  \/ /\ pc = "connecting"
     /\ End(r)
     /\ UNCHANGED <<casa, interrupted>>
  \/ /\ pc = "sending"
     /\ Abandon(r, "cancelling")
     /\ casa' \in IF socket = "open" THEN {casa, "answering"} ELSE {casa}
     /\ UNCHANGED interrupted
  \/ /\ pc = "reading"
     /\ Abandon(r, "cancelling")
     /\ UNCHANGED <<casa, interrupted>>
  \/ /\ pc = "feeding"
     /\ Abandon(r, "closing")
     /\ UNCHANGED <<casa, interrupted>>
  \/ /\ pc = "confirming"
     /\ End(r)
     /\ casa' \in IF socket = "open" THEN {casa, "confirmed"} ELSE {casa}
     /\ UNCHANGED interrupted
  \/ /\ pc \in {"cancelling", "closing"}
     /\ End(r)
     /\ interrupted' = TRUE
     /\ UNCHANGED casa

\* Defect: the deadline is for the first frame only.
UntilFirstWords == pc \in {"connecting", "sending", "reading"} /\ ~sawContent

\* asyncio.timeout is armed.
UnderDeadline == pc \in {"connecting", "sending", "reading", "feeding", "confirming", "cancelling"}

\* TIMEOUT_TOTAL passes.  A turn that was cancelled stays so.
TimesOut ==
  /\ ~timer
  /\ UnderDeadline
  /\ timer' = TRUE
  /\ CutOff(IF result = "cancelled" THEN result ELSE "timeout")
  /\ UNCHANGED <<transport, socket, sawContent, reauth>>

\* Home Assistant cancels the turn; once is enough.
BargeIn ==
  /\ result # "cancelled"
  /\ CutOff("cancelled")
  /\ UNCHANGED <<transport, socket, sawContent, timer, reauth>>

-----------------------------------------------------------------------------
(* Casa and the network.                                                   *)

\* The frame is queued while the turn still reads the stream.
Delivered(frame) ==
  inbox' = IF pc \in {"sending", "reading", "feeding", "confirming"} THEN Append(inbox, frame)
                                                                     ELSE inbox

CasaSends(frame) ==
  /\ casa = "answering"
  /\ socket = "open"
  /\ Len(inbox) < MaxInbox
  /\ frame = "handoff" => transport = "ws"
  /\ casa' = CASE frame = "handoff" -> "handingOff"
               [] frame = "done" -> "done"
               [] frame = "error" -> "failed"
               [] OTHER -> casa
  /\ Delivered(frame)
  /\ UNCHANGED <<transport, pc, socket, sawContent, timer, result, interrupted, reauth>>

\* The connection breaks, if there is one; a response that just ends counts as done.
ConnectionLost ==
  /\ socket = "open"
  /\ pc \notin {"idle", "connecting"}
  /\ socket' = "lost"
  /\ \/ Delivered("closed")
     \/ transport = "sse" /\ Delivered("done")
  /\ UNCHANGED <<transport, pc, sawContent, timer, result, casa, interrupted, reauth>>

-----------------------------------------------------------------------------
(* The specification.                                                      *)

TurnStep ==
  \/ Begin \/ Connected \/ ConnectFails \/ Sent \/ SendFails \/ Read \/ Fed
  \/ Confirmed \/ CancelSent

TurnNext ==
  \/ TurnStep
  \/ TimesOut \/ BargeIn
  \/ \E frame \in Frames : CasaSends(frame)
  \/ ConnectionLost

\* Time passes, and a send ends or the connection breaks.  Nothing is asked of
\* Casa.
TurnSpec ==
  /\ TurnInit
  /\ [][TurnNext]_turnVars
  /\ WF_turnVars(TimesOut)
  /\ WF_turnVars(CancelSent \/ SendFails)

-----------------------------------------------------------------------------
(* Properties.                                                             *)

\* The type invariant.
TurnTypeOK ==
  /\ transport \in {"ws", "sse"}
  /\ pc \in {"idle", "connecting", "sending", "reading", "feeding", "confirming", "cancelling",
             "closing", "over"}
  /\ socket \in {"open", "lost"}
  /\ inbox \in Seq(Frames \cup {"closed"})
  /\ sawContent \in BOOLEAN
  /\ timer \in BOOLEAN
  /\ result \in {"none", "content", "silent", "handoff", "error", "connection", "auth", "timeout",
                 "cancelled", "raised"}
  /\ casa \in {"idle", "answering", "handingOff", "confirmed", "done", "failed", "cancelled"}
  /\ interrupted \in BOOLEAN
  /\ reauth \in BOOLEAN

\* A turn that is over leaves no Casa speaking on a socket that is open: unless
\* the cancel frame was itself cut off, by a deadline after a barge-in or the
\* other way around.
AbandonedIsCancelled ==
  pc = "over" /\ transport = "ws" /\ casa = "answering" /\ socket = "open" => interrupted

\* A handoff is spoken only after Casa got its receipt.  A receipt without the
\* handoff being spoken is left by a deadline or a barge-in during its send, and
\* by nothing else.
HandoffsAgree ==
  /\ result = "handoff" => casa = "confirmed"
  /\ pc = "over" /\ casa = "confirmed" => result \in {"handoff", "timeout", "cancelled"}

\* Over the WebSocket the words of an answer are given as the result only if
\* Casa has said all of it: one that Casa ends with an error, or that the
\* connection cuts, ends with an error whatever was heard before.
OnlyWholeAnswers ==
  /\ transport = "ws" /\ result \in {"content", "silent"} => casa = "done"
  /\ result = "error" => casa = "failed"

\* Every turn ends, whatever Casa does.
TurnEnds == pc = "connecting" ~> pc = "over"

=============================================================================

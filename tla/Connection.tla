----------------------------- MODULE Connection -----------------------------
(***************************************************************************)
(* What a client promises of its connection to Casa, without its tasks,    *)
(* locks and readers.  There is one connection at a time, and a new one    *)
(* only once the last is lost.  What Casa agreed to on a connection is     *)
(* forgotten with it.  Frames are written one by one, on the connection    *)
(* that is current as long as the write lasts.  CONNECTED is shown only of *)
(* a connection that is up, and a rejected secret stops everything but     *)
(* the closing, which is final.                                            *)
(***************************************************************************)
EXTENDS Naturals

CONSTANT None

VARIABLES
  made,     \* how many connections there were so far
  current,  \* the connection in use, or None
  up,       \* whether it is not known to be lost
  terms,    \* what Casa said to the route on it: "none", "accepted", "refused"
  writing,  \* the frame being written: on which connection, and whether it is a job's
  shown,    \* the state that is shown to the user
  over      \* whether the client was closed

\* No frame.
Nothing == [connection |-> None, job |-> FALSE]

linkVars == <<made, current, up, terms>>
connectionVars == <<linkVars, writing, shown, over>>

ConnectionInit ==
  /\ made = 0
  /\ current = None
  /\ up = FALSE
  /\ terms = "none"
  /\ writing = Nothing
  /\ shown = "disconnected"
  /\ over = FALSE

MayConnect == ~over /\ shown # "auth_failed" /\ ~up

Connect ==
  /\ MayConnect
  /\ writing = Nothing
  /\ made' = made + 1
  /\ current' = made + 1
  /\ up' = TRUE
  /\ terms' = "none"
  /\ UNCHANGED <<writing, shown, over>>

Show ==
  /\ ~over
  /\ up
  /\ shown # "auth_failed"
  /\ shown' = "connected"
  /\ UNCHANGED <<linkVars, writing, over>>

\* Casa rejects the secret.
Reject ==
  /\ MayConnect
  /\ shown' = "auth_failed"
  /\ UNCHANGED <<linkVars, writing, over>>

\* Casa's answer to the route is recorded.
Agree(answer) ==
  /\ up
  /\ writing = Nothing
  /\ terms' = answer
  /\ UNCHANGED <<made, current, up, writing, shown, over>>

\* A job frame needs Casa's agreement.
BeginWrite(job) ==
  /\ ~over
  /\ up
  /\ writing = Nothing
  /\ job => terms = "accepted"
  /\ writing' = [connection |-> current, job |-> job]
  /\ UNCHANGED <<linkVars, shown, over>>

\* The frame was written, or was not.
EndWrite ==
  /\ writing # Nothing
  /\ writing' = Nothing
  /\ UNCHANGED <<linkVars, shown, over>>

Lose ==
  /\ up
  /\ up' = FALSE
  /\ UNCHANGED <<made, current, terms, writing, shown, over>>

\* The connection is given up, between two frames.
GiveUp ==
  /\ current # None
  /\ writing = Nothing
  /\ current' = None
  /\ up' = FALSE
  /\ terms' = "none"
  /\ shown' = IF over \/ shown = "auth_failed" THEN shown ELSE "disconnected"
  /\ UNCHANGED <<made, writing, over>>

CloseConnection ==
  /\ ~over
  /\ over' = TRUE
  /\ shown' = "disconnected"
  /\ writing' \in {writing, Nothing}
  /\ UNCHANGED linkVars

ConnectionNext ==
  \/ Connect
  \/ Show
  \/ Reject
  \/ \E answer \in {"accepted", "refused"} : Agree(answer)
  \/ \E job \in BOOLEAN : BeginWrite(job)
  \/ EndWrite
  \/ Lose
  \/ GiveUp
  \/ CloseConnection

ConnectionSpec == ConnectionInit /\ [][ConnectionNext]_connectionVars

\* From its first byte to its last a frame is on the current connection, and a
\* job on one whose terms Casa has accepted.
FramesStayCurrent ==
  writing # Nothing =>
    /\ writing.connection = current
    /\ writing.job => terms = "accepted"

=============================================================================

------------------------------ MODULE MpscQueue ------------------------------
(***************************************************************************)
(* What std.sync.mpsc promises (docs/specs/stdlib/channel.spec.md, B2 to   *)
(* B8), as its users see it: one queue, atomic sends and receives, and an  *)
(* end that the receiver learns of only once it is final.                  *)
(***************************************************************************)
EXTENDS Sequences

CONSTANTS Senders, Messages

VARIABLES
  queue,      \* sent and not yet received
  open,       \* the live Sender handles
  listening,  \* the Receiver is alive
  received,   \* what the Receiver has got, in order
  ended       \* recv has returned Err(RecvError)

queueVars == <<queue, open, listening, received, ended>>

Init ==
  /\ queue = << >>
  /\ open \in {{s} : s \in Senders}
  /\ listening = TRUE
  /\ received = << >>
  /\ ended = FALSE

Clone(s) ==
  /\ open # {}
  /\ open' = open \union {s}
  /\ UNCHANGED <<queue, listening, received, ended>>

Send(m) ==
  /\ open # {} /\ listening
  /\ queue' = Append(queue, m)
  /\ UNCHANGED <<open, listening, received, ended>>

DropSender(s) ==
  /\ open' = open \ {s}
  /\ UNCHANGED <<queue, listening, received, ended>>

Receive ==
  /\ listening /\ queue # << >>
  /\ received' = Append(received, Head(queue))
  /\ queue' = Tail(queue)
  /\ UNCHANGED <<open, listening, ended>>

\* Buffered values are drained first.
End ==
  /\ listening /\ queue = << >> /\ open = {}
  /\ ended' = TRUE
  /\ UNCHANGED <<queue, open, listening, received>>

\* What was not received is gone.
DropReceiver ==
  /\ listening' = FALSE
  /\ queue' = << >>
  /\ UNCHANGED <<open, received, ended>>

Next ==
  \/ \E s \in Senders : Clone(s) \/ DropSender(s)
  \/ \E m \in Messages : Send(m)
  \/ Receive \/ End \/ DropReceiver

Spec == Init /\ [][Next]_queueVars

=============================================================================

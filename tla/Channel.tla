------------------------------- MODULE Channel -------------------------------
(***************************************************************************)
(* The channel of library/std/sync/runtime/channel.c: a list behind a      *)
(* mutex and a condition variable, an atomic count of Sender handles that  *)
(* is changed outside the mutex, and the two drop hooks, the last of which *)
(* frees everything.                                                       *)
(*                                                                         *)
(* Every Sender handle belongs to one thread at a time, and so does the    *)
(* Receiver.  A critical section that touches only what the mutex guards   *)
(* is one step; recv, which also reads sender_count and gives the mutex up *)
(* to wait, is not.                                                        *)
(***************************************************************************)
EXTENDS Integers, Sequences, FiniteSets

CONSTANTS
  Senders,      \* Sender handles, the first one and its clones
  First,        \* the one that ruxen_channel_new_pair returns
  MaxSends,     \* bound: messages a handle sends
  DropsOverlap  \* may two halves be dropped at the same time?

ASSUME ChannelAssumption ==
  /\ IsFiniteSet(Senders)
  /\ First \in Senders
  /\ MaxSends \in Nat
  /\ DropsOverlap \in BOOLEAN

VARIABLES
  mem,      \* the RuxenChannel: "live" or "freed"
  queue,    \* head, tail and the slots between
  count,    \* sender_count
  alive,    \* receiver_alive
  locked,   \* recv holds mu between two steps
  spc,      \* where each Sender handle is
  rpc,      \* where the Receiver is
  sent,     \* history: messages each handle has sent
  received, \* history: what recv and try_recv have returned
  ended,    \* history: recv has returned Err
  uaf       \* history: the channel was used, or freed, after it was freed

vars == <<mem, queue, count, alive, locked, spc, rpc, sent, received, ended, uaf>>

Messages == Senders \X (1..MaxSends)

DropSteps == {"broadcast", "tryfree", "free"}
SenderSteps == {"none", "idle", "gone"} \union DropSteps
RecvSteps == {"check", "wait", "waiting", "relock"}
ReceiverSteps == {"idle", "gone", "tryfree", "free"} \union RecvSteps

TypeOK ==
  /\ mem \in {"live", "freed"}
  /\ queue \in Seq(Messages)
  /\ count \in Nat
  /\ alive \in BOOLEAN
  /\ locked \in BOOLEAN
  /\ spc \in [Senders -> SenderSteps]
  /\ rpc \in ReceiverSteps
  /\ sent \in [Senders -> 0..MaxSends]
  /\ received \in Seq(Messages)
  /\ ended \in BOOLEAN
  /\ uaf \in BOOLEAN

\* ruxen_channel_new_pair.
Init ==
  /\ mem = "live"
  /\ queue = << >>
  /\ count = 1
  /\ alive = TRUE
  /\ locked = FALSE
  /\ spc = [s \in Senders |-> IF s = First THEN "idle" ELSE "none"]
  /\ rpc = "idle"
  /\ sent = [s \in Senders |-> 0]
  /\ received = << >>
  /\ ended = FALSE
  /\ uaf = FALSE

\* Any access to the channel.
Touch == uaf' = (uaf \/ mem = "freed")

\* pthread_cond_signal and _broadcast: there is at most one waiter.
Signalled == IF rpc = "waiting" THEN "relock" ELSE rpc

MayDrop ==
  DropsOverlap \/ (rpc \notin DropSteps /\ \A s \in Senders : spc[s] \notin DropSteps)

-----------------------------------------------------------------------------
(* Senders                                                                 *)

\* Mutant: no pthread_cond_signal.
SendSilently(s) ==
  /\ spc[s] = "idle" /\ ~locked
  /\ alive
  /\ sent[s] < MaxSends
  /\ sent' = [sent EXCEPT ![s] = @ + 1]
  /\ queue' = Append(queue, <<s, sent'[s]>>)
  /\ Touch
  /\ UNCHANGED <<mem, count, alive, locked, spc, rpc, received, ended>>

\* ruxen_channel_send.  After the receiver is gone it changes nothing.
Send(s) ==
  /\ spc[s] = "idle" /\ ~locked
  /\ alive
  /\ sent[s] < MaxSends
  /\ sent' = [sent EXCEPT ![s] = @ + 1]
  /\ queue' = Append(queue, <<s, sent'[s]>>)
  /\ rpc' = Signalled
  /\ Touch
  /\ UNCHANGED <<mem, count, alive, locked, spc, received, ended>>

\* ruxen_channel_send returning 1.
SendRefused(s) ==
  /\ spc[s] = "idle" /\ ~locked
  /\ ~alive
  /\ Touch
  /\ UNCHANGED <<mem, queue, count, alive, locked, spc, rpc, sent, received, ended>>

\* Mutant: the new handle is not counted.
CloneUncounted(s, c) ==
  /\ spc[s] = "idle"
  /\ spc[c] = "none"
  /\ spc' = [spc EXCEPT ![c] = "idle"]
  /\ Touch
  /\ UNCHANGED <<mem, queue, count, alive, locked, rpc, sent, received, ended>>

\* ruxen_channel_sender_clone.
Clone(s, c) ==
  /\ spc[s] = "idle"
  /\ spc[c] = "none"
  /\ count' = count + 1
  /\ spc' = [spc EXCEPT ![c] = "idle"]
  /\ Touch
  /\ UNCHANGED <<mem, queue, alive, locked, rpc, sent, received, ended>>

\* ruxen_channel_sender_drop: the atomic_fetch_sub, outside the mutex.
DropSender(s) ==
  /\ spc[s] = "idle"
  /\ MayDrop
  /\ count' = count - 1
  /\ spc' = [spc EXCEPT ![s] = IF count = 1 THEN "broadcast" ELSE "tryfree"]
  /\ Touch
  /\ UNCHANGED <<mem, queue, alive, locked, rpc, sent, received, ended>>

\* Mutant: the broadcast does not take the mutex.
BroadcastUnlocked(s) ==
  /\ spc[s] = "broadcast"
  /\ rpc' = Signalled
  /\ spc' = [spc EXCEPT ![s] = "tryfree"]
  /\ Touch
  /\ UNCHANGED <<mem, queue, count, alive, locked, sent, received, ended>>

\* The last one wakes the receiver.
Broadcast(s) ==
  /\ spc[s] = "broadcast" /\ ~locked
  /\ rpc' = Signalled
  /\ spc' = [spc EXCEPT ![s] = "tryfree"]
  /\ Touch
  /\ UNCHANGED <<mem, queue, count, alive, locked, sent, received, ended>>

\* Mutant: one half is enough.
LastHalfEither == count = 0 \/ ~alive

\* The test of try_free_channel, without the mutex.  Neither of the two
\* reads can be undone, so they are one step.
LastHalf == count = 0 /\ ~alive

SenderTryFree(s) ==
  /\ spc[s] = "tryfree"
  /\ spc' = [spc EXCEPT ![s] = IF LastHalf THEN "free" ELSE "gone"]
  /\ Touch
  /\ UNCHANGED <<mem, queue, count, alive, locked, rpc, sent, received, ended>>

\* The body of try_free_channel: the slots, the mutex, the channel.
SenderFree(s) ==
  /\ spc[s] = "free"
  /\ spc' = [spc EXCEPT ![s] = "gone"]
  /\ mem' = "freed"
  /\ queue' = << >>
  /\ Touch
  /\ UNCHANGED <<count, alive, locked, rpc, sent, received, ended>>

-----------------------------------------------------------------------------
(* The receiver                                                            *)

Take ==
  /\ queue # << >>
  /\ received' = Append(received, Head(queue))
  /\ queue' = Tail(queue)

\* ruxen_channel_recv: lock.
Recv ==
  /\ rpc = "idle" /\ ~locked
  /\ locked' = TRUE
  /\ rpc' = "check"
  /\ Touch
  /\ UNCHANGED <<mem, queue, count, alive, spc, sent, received, ended>>

RecvTake ==
  /\ rpc = "check"
  /\ Take
  /\ locked' = FALSE
  /\ rpc' = "idle"
  /\ Touch
  /\ UNCHANGED <<mem, count, alive, spc, sent, ended>>

\* The loop condition holds: pthread_cond_wait is called.
RecvWait ==
  /\ rpc = "check"
  /\ queue = << >> /\ count > 0
  /\ rpc' = "wait"
  /\ Touch
  /\ UNCHANGED <<mem, queue, count, alive, locked, spc, sent, received, ended>>

\* pthread_cond_wait: release the mutex and sleep, atomically.
RecvSleep ==
  /\ rpc = "wait"
  /\ locked' = FALSE
  /\ rpc' = "waiting"
  /\ Touch
  /\ UNCHANGED <<mem, queue, count, alive, spc, sent, received, ended>>

SpuriousWakeup ==
  /\ rpc = "waiting"
  /\ rpc' = "relock"
  /\ UNCHANGED <<mem, queue, count, alive, locked, spc, sent, received, ended, uaf>>

\* Mutant: "if" instead of "while".
RecvRelockOnce ==
  /\ rpc = "relock" /\ ~locked
  /\ IF queue # << >>
       THEN locked' = TRUE /\ rpc' = "check" /\ UNCHANGED ended
       ELSE rpc' = "idle" /\ ended' = TRUE /\ UNCHANGED locked
  /\ Touch
  /\ UNCHANGED <<mem, queue, count, alive, spc, sent, received>>

\* pthread_cond_wait returns with the mutex, and the loop asks again.
RecvRelock ==
  /\ rpc = "relock" /\ ~locked
  /\ locked' = TRUE
  /\ rpc' = "check"
  /\ Touch
  /\ UNCHANGED <<mem, queue, count, alive, spc, sent, received, ended>>

\* Err(RecvError).
RecvEnd ==
  /\ rpc = "check"
  /\ queue = << >> /\ count = 0
  /\ locked' = FALSE
  /\ rpc' = "idle"
  /\ ended' = TRUE
  /\ Touch
  /\ UNCHANGED <<mem, queue, count, alive, spc, sent, received>>

\* ruxen_channel_try_recv.
TryRecv ==
  /\ rpc = "idle" /\ ~locked
  /\ Take \/ (queue = << >> /\ UNCHANGED <<queue, received>>)
  /\ Touch
  /\ UNCHANGED <<mem, count, alive, locked, spc, rpc, sent, ended>>

\* Mutant: receiver_drop never looks whether it is the last half.
DropReceiverLeaks ==
  /\ rpc = "idle" /\ ~locked
  /\ MayDrop
  /\ alive' = FALSE
  /\ rpc' = "gone"
  /\ Touch
  /\ UNCHANGED <<mem, queue, count, locked, spc, sent, received, ended>>

\* ruxen_channel_receiver_drop, then try_free_channel.
DropReceiver ==
  /\ rpc = "idle" /\ ~locked
  /\ MayDrop
  /\ alive' = FALSE
  /\ rpc' = "tryfree"
  /\ Touch
  /\ UNCHANGED <<mem, queue, count, locked, spc, sent, received, ended>>

ReceiverTryFree ==
  /\ rpc = "tryfree"
  /\ rpc' = IF LastHalf THEN "free" ELSE "gone"
  /\ Touch
  /\ UNCHANGED <<mem, queue, count, alive, locked, spc, sent, received, ended>>

ReceiverFree ==
  /\ rpc = "free"
  /\ rpc' = "gone"
  /\ mem' = "freed"
  /\ queue' = << >>
  /\ Touch
  /\ UNCHANGED <<count, alive, locked, spc, sent, received, ended>>

-----------------------------------------------------------------------------
SenderNext(s) ==
  \/ Send(s) \/ SendRefused(s) \/ DropSender(s)
  \/ \E c \in Senders : Clone(s, c)
  \/ Broadcast(s) \/ SenderTryFree(s) \/ SenderFree(s)

\* The steps of a recv that has begun.
Receiving == RecvTake \/ RecvWait \/ RecvSleep \/ RecvRelock \/ RecvEnd

ReceiverNext ==
  \/ Recv \/ Receiving \/ SpuriousWakeup \/ TryRecv
  \/ DropReceiver \/ ReceiverTryFree \/ ReceiverFree

Next == ReceiverNext \/ \E s \in Senders : SenderNext(s)

\* A thread inside a call goes on.  When a program sends, drops or receives
\* is its own business.
Spec ==
  /\ Init /\ [][Next]_vars
  /\ WF_vars(Receiving)
  /\ \A s \in Senders : WF_vars(Broadcast(s))

-----------------------------------------------------------------------------
(* Properties                                                              *)

\* The handles that count: those whose drop has not yet reached sender_count.
Open == {s \in Senders : spc[s] = "idle"}

\* Once the receiver is gone nobody can tell what is left in the list.
Promise == INSTANCE MpscQueue
             WITH queue <- IF alive THEN queue ELSE << >>,
                  open <- Open, listening <- alive

\* The channel does what std.sync.mpsc promises: values arrive once and in
\* the order of the sends, none is lost, and recv reports the end only when
\* the list is drained and every Sender is gone, however spurious wake-ups
\* and concurrent drops fall.
KeepsPromise == Promise!Spec

\* No lost wake-up: recv sleeps on the condition variable only while there is
\* nothing to receive and a Sender is left, or the last one is about to
\* broadcast.
NoSleepOnNews ==
  rpc = "waiting" =>
    queue = << >> /\ (count > 0 \/ \E s \in Senders : spc[s] = "broadcast")

\* Nobody touches the channel, or frees it again, after it was freed.
NoUseAfterFree == ~uaf

\* When both halves are gone the channel is freed.
NothingLeaks ==
  rpc = "gone" /\ (\A s \in Senders : spc[s] \in {"none", "gone"}) => mem = "freed"

\* A recv returns once there is a value, or no Sender left.
RecvReturns ==
  rpc \in RecvSteps /\ (queue # << >> \/ count = 0) ~> rpc = "idle"

=============================================================================

---------------------------- MODULE ChannelProofs ----------------------------
(***************************************************************************)
(* For any number of Sender handles and of messages: the channel never     *)
(* misses a wake-up, leaks nothing, and implements MpscQueue; and if the   *)
(* drops of its halves do not overlap, it is never used after it is freed. *)
(***************************************************************************)
EXTENDS Channel, FiniteSetTheorems, SequenceTheorems, TLAPS

\* sender_count is the number of handles whose drop has not begun.
Counting == count = Cardinality(Open)

\* recv holds the mutex exactly while it looks, and until it sleeps.
Mutex == locked <=> rpc \in {"check", "wait"}

\* receiver_alive, and where the receiver can be.
Listening == alive <=> rpc \in {"idle"} \union RecvSteps

\* Who frees the channel has seen that the receiver is gone.
Freeing == \A s \in Senders : spc[s] = "free" => ~alive

\* From the decision to wait on, there is no news that nobody will announce.
Sleeping ==
  rpc \in {"wait", "waiting"} =>
    queue = << >> /\ (count > 0 \/ \E s \in Senders : spc[s] = "broadcast")

IInv ==
  /\ TypeOK
  /\ Counting
  /\ Mutex
  /\ Listening
  /\ Freeing
  /\ Sleeping
  /\ NothingLeaks

\* There is a live handle while the count is positive, and none when it is 0.
LEMMA OpenFinite == IsFiniteSet(Open)
  BY ChannelAssumption, FS_Subset DEF Open

LEMMA CountOpen ==
  ASSUME IInv
  PROVE  /\ count = 0 => Open = {}
         /\ count > 0 => Open # {}
  BY OpenFinite, FS_EmptySet, FS_CardinalityType DEF IInv, Counting

\* Steps that leave every live handle alive, and the count.
LEMMA SameOpen ==
  ASSUME Counting, count' = count, Open' = Open
  PROVE  Counting'
  BY DEF Counting

-----------------------------------------------------------------------------
THEOREM ChannelInit == Init => IInv
<1> SUFFICES ASSUME Init PROVE IInv
  OBVIOUS
<1>1. Open = {First}
  BY ChannelAssumption DEF Init, Open
<1>2. Counting
  BY <1>1, FS_Singleton DEF Counting, Init
<1>3. TypeOK
  <2>1. queue \in Seq(Messages) /\ received \in Seq(Messages)
    BY EmptySeq DEF Init
  <2>2. sent \in [Senders -> 0..MaxSends]
    BY ChannelAssumption DEF Init
  <2>3. spc \in [Senders -> SenderSteps] /\ rpc \in ReceiverSteps
    BY DEF Init, SenderSteps, ReceiverSteps
  <2> QED
    BY <2>1, <2>2, <2>3 DEF Init, TypeOK
<1> QED
  BY <1>2, <1>3 DEF Init, IInv, Mutex, Listening, Freeing, Sleeping, NothingLeaks,
                    RecvSteps

\* Every step of the program keeps the invariant: first the types, then each
\* part by the actions that can disturb it.
LEMMA TypeStep == IInv /\ [Next]_vars => TypeOK'
<1> SUFFICES ASSUME IInv, [Next]_vars PROVE TypeOK'
  OBVIOUS
<1>0. TypeOK
  BY DEF IInv
<1> USE <1>0 DEF TypeOK, SenderSteps, ReceiverSteps, RecvSteps, DropSteps
<1>1. ASSUME NEW s \in Senders, Send(s) PROVE TypeOK'
  <2>1. sent' \in [Senders -> 0..MaxSends] /\ sent'[s] \in 1..MaxSends
    BY <1>1, ChannelAssumption DEF Send
  <2>2. <<s, sent'[s]>> \in Messages
    BY <2>1 DEF Messages
  <2>3. queue' \in Seq(Messages)
    BY <1>1, <2>2 DEF Send
  <2> QED
    BY <1>1, <2>1, <2>3 DEF Send, Signalled, Touch
<1>2. ASSUME NEW s \in Senders, NEW c \in Senders, Clone(s, c) PROVE TypeOK'
  BY <1>2 DEF Clone, Touch
<1>3. ASSUME NEW s \in Senders, DropSender(s) PROVE TypeOK'
  <2>1. count > 0
    BY <1>3, CountOpen DEF DropSender, Open
  <2> QED
    BY <1>3, <2>1 DEF DropSender, Touch
<1>4. ASSUME NEW s \in Senders, SendRefused(s) \/ Broadcast(s) \/ SenderTryFree(s)
      PROVE  TypeOK'
  BY <1>4 DEF SendRefused, Broadcast, SenderTryFree, Signalled, Touch
<1>5. ASSUME NEW s \in Senders, SenderFree(s) PROVE TypeOK'
  BY <1>5 DEF SenderFree, Touch
<1>6. CASE RecvTake \/ TryRecv
  <2>1. CASE Take
    <3>1. Head(queue) \in Messages /\ Tail(queue) \in Seq(Messages)
      BY <2>1, HeadTailProperties DEF Take
    <3> QED
      BY <1>6, <2>1, <3>1, AppendProperties DEF RecvTake, TryRecv, Take, Touch
  <2>2. CASE TryRecv /\ UNCHANGED <<queue, received>>
    BY <2>2 DEF TryRecv, Touch
  <2> QED
    BY <1>6, <2>1, <2>2 DEF RecvTake, TryRecv
<1>7. CASE Recv \/ RecvWait \/ RecvSleep \/ SpuriousWakeup \/ RecvRelock \/ RecvEnd
  BY <1>7 DEF Recv, RecvWait, RecvSleep, SpuriousWakeup, RecvRelock, RecvEnd, Touch
<1>8. CASE DropReceiver \/ ReceiverTryFree \/ ReceiverFree
  <2>1. CASE DropReceiver
    BY <2>1 DEF DropReceiver, Touch
  <2>2. CASE ReceiverTryFree
    BY <2>2 DEF ReceiverTryFree, Touch
  <2>3. CASE ReceiverFree
    BY <2>3, EmptySeq DEF ReceiverFree, Touch
  <2> QED
    BY <1>8, <2>1, <2>2, <2>3
<1>9. CASE UNCHANGED vars
  BY <1>9 DEF vars
<1> QED
  BY <1>1, <1>2, <1>3, <1>4, <1>5, <1>6, <1>7, <1>8, <1>9
     DEF Next, SenderNext, ReceiverNext, Receiving

\* sender_count follows the handles: clone adds one, drop takes one away, and
\* every other step leaves both alone.
LEMMA CountStep == IInv /\ [Next]_vars => Counting'
<1> SUFFICES ASSUME IInv, [Next]_vars PROVE Counting'
  OBVIOUS
<1>0. Counting /\ spc \in [Senders -> SenderSteps] /\ count \in Nat
  BY DEF IInv, TypeOK
<1>1. ASSUME NEW s \in Senders, NEW c \in Senders, Clone(s, c) PROVE Counting'
  <2>1. c \notin Open /\ Open' = Open \union {c}
    BY <1>0, <1>1 DEF Clone, Open
  <2> QED
    BY <1>0, <1>1, <2>1, OpenFinite, FS_AddElement DEF Clone, Counting
<1>2. ASSUME NEW s \in Senders, DropSender(s) PROVE Counting'
  <2>1. s \in Open /\ Open' = Open \ {s}
    BY <1>0, <1>2 DEF DropSender, Open
  <2> QED
    BY <1>0, <1>2, <2>1, OpenFinite, FS_RemoveElement DEF DropSender, Counting
<1>3. ASSUME NEW s \in Senders,
             Send(s) \/ SendRefused(s) \/ Broadcast(s) \/ SenderTryFree(s) \/ SenderFree(s)
      PROVE  Counting'
  <2>1. count' = count /\ Open' = Open
    BY <1>0, <1>3
       DEF Send, SendRefused, Broadcast, SenderTryFree, SenderFree, Open
  <2> QED
    BY <1>0, <2>1, SameOpen
<1>4. CASE ReceiverNext \/ UNCHANGED vars
  <2>1. count' = count /\ spc' = spc
    BY <1>4 DEF ReceiverNext, Receiving, Recv, RecvTake, RecvWait, RecvSleep, RecvRelock,
                RecvEnd, SpuriousWakeup, TryRecv, DropReceiver, ReceiverTryFree,
                ReceiverFree, vars
  <2> QED
    BY <1>0, <2>1, SameOpen DEF Open
<1> QED
  BY <1>1, <1>2, <1>3, <1>4 DEF Next, SenderNext

\* The receiver's own flags, and what whoever frees has seen of them.
LEMMA FlagStep == IInv /\ [Next]_vars => Mutex' /\ Listening' /\ Freeing'
<1> SUFFICES ASSUME IInv, [Next]_vars PROVE Mutex' /\ Listening' /\ Freeing'
  OBVIOUS
<1>0. /\ Mutex /\ Listening /\ Freeing
      /\ spc \in [Senders -> SenderSteps] /\ alive \in BOOLEAN /\ locked \in BOOLEAN
  BY DEF IInv, TypeOK
<1> USE <1>0 DEF Mutex, Listening, Freeing, RecvSteps
<1>1. ASSUME NEW s \in Senders, SenderNext(s) PROVE Mutex' /\ Listening' /\ Freeing'
  <2>1. alive' = alive /\ locked' = locked /\ (rpc' = rpc \/ rpc' = Signalled)
    BY <1>1 DEF SenderNext, Send, SendRefused, Clone, DropSender, Broadcast,
                SenderTryFree, SenderFree
  <2>2. \A r \in Senders : spc'[r] = "free" => spc[r] = "free" \/ ~alive
    BY <1>1 DEF SenderNext, Send, SendRefused, Clone, DropSender, Broadcast,
                SenderTryFree, SenderFree, LastHalf
  <2> QED
    BY <2>1, <2>2 DEF Signalled
<1>2. CASE Receiving \/ Recv
  BY <1>2 DEF Receiving, Recv, RecvTake, RecvWait, RecvSleep, RecvRelock, RecvEnd
<1>3. CASE SpuriousWakeup \/ TryRecv \/ UNCHANGED vars
  BY <1>3 DEF SpuriousWakeup, TryRecv, vars
<1>4. CASE DropReceiver \/ ReceiverTryFree \/ ReceiverFree
  BY <1>4 DEF DropReceiver, ReceiverTryFree, ReceiverFree
<1> QED
  BY <1>1, <1>2, <1>3, <1>4 DEF Next, ReceiverNext

\* The receiver decides to wait under the mutex, so a send, which needs it,
\* signals a receiver that already sleeps; the last drop needs it to broadcast.
LEMMA SleepStep == IInv /\ [Next]_vars => Sleeping'
<1> SUFFICES ASSUME IInv, [Next]_vars PROVE Sleeping'
  OBVIOUS
<1>0. /\ Sleeping /\ Mutex /\ Listening
      /\ spc \in [Senders -> SenderSteps] /\ count \in Nat
  BY DEF IInv, TypeOK
<1> USE <1>0 DEF Sleeping, Mutex, Listening, RecvSteps
<1>1. ASSUME NEW s \in Senders, Send(s) PROVE Sleeping'
  BY <1>1 DEF Send, Signalled
<1>2. ASSUME NEW s \in Senders, NEW c \in Senders, Clone(s, c) PROVE Sleeping'
  BY <1>2 DEF Clone
<1>3. ASSUME NEW s \in Senders, DropSender(s) PROVE Sleeping'
  BY <1>3 DEF DropSender
<1>4. ASSUME NEW s \in Senders, Broadcast(s) PROVE Sleeping'
  BY <1>4 DEF Broadcast, Signalled
<1>5. ASSUME NEW s \in Senders, SendRefused(s) \/ SenderTryFree(s) \/ SenderFree(s)
      PROVE  Sleeping'
  BY <1>5 DEF SendRefused, SenderTryFree, SenderFree
<1>6. CASE Receiving \/ Recv
  BY <1>6 DEF Receiving, Recv, RecvTake, RecvWait, RecvSleep, RecvRelock, RecvEnd
<1>7. CASE SpuriousWakeup \/ TryRecv \/ UNCHANGED vars
  BY <1>7 DEF SpuriousWakeup, TryRecv, vars
<1>8. CASE DropReceiver \/ ReceiverTryFree \/ ReceiverFree
  BY <1>8 DEF DropReceiver, ReceiverTryFree, ReceiverFree
<1> QED
  BY <1>1, <1>2, <1>3, <1>4, <1>5, <1>6, <1>7, <1>8 DEF Next, SenderNext, ReceiverNext

\* Whoever leaves last finds both halves gone and frees.
LEMMA LeakStep == IInv /\ [Next]_vars => NothingLeaks'
<1> SUFFICES ASSUME IInv, [Next]_vars PROVE NothingLeaks'
  OBVIOUS
<1>0. /\ NothingLeaks /\ Listening
      /\ spc \in [Senders -> SenderSteps] /\ count \in Nat
  BY DEF IInv, TypeOK
<1> USE <1>0 DEF NothingLeaks, Listening, RecvSteps
<1>1. ASSUME NEW s \in Senders, SenderTryFree(s) PROVE NothingLeaks'
  <2>1. CASE LastHalf
    BY <1>1, <2>1 DEF SenderTryFree
  <2>2. CASE ~LastHalf
    <3>1. alive \/ \E t \in Senders : spc[t] = "idle"
      BY <2>2, CountOpen DEF LastHalf, Open
    <3>2. CASE alive
      BY <1>1, <3>2 DEF SenderTryFree
    <3>3. CASE \E t \in Senders : spc[t] = "idle"
      BY <1>1, <3>3 DEF SenderTryFree
    <3> QED
      BY <3>1, <3>2, <3>3
  <2> QED
    BY <2>1, <2>2
<1>2. CASE ReceiverTryFree
  <2>1. CASE LastHalf
    BY <1>2, <2>1 DEF ReceiverTryFree
  <2>2. CASE ~LastHalf
    <3>1. \E t \in Senders : spc[t] = "idle"
      BY <1>2, <2>2, CountOpen DEF LastHalf, Open, ReceiverTryFree
    <3> QED
      BY <1>2, <3>1 DEF ReceiverTryFree
  <2> QED
    BY <2>1, <2>2
<1>3. ASSUME NEW s \in Senders, Send(s) \/ SendRefused(s) \/ Broadcast(s)
      PROVE  NothingLeaks'
  BY <1>3 DEF Send, SendRefused, Broadcast, Signalled
<1>4. ASSUME NEW s \in Senders, NEW c \in Senders, Clone(s, c) PROVE NothingLeaks'
  BY <1>4 DEF Clone
<1>5. ASSUME NEW s \in Senders, DropSender(s) \/ SenderFree(s) PROVE NothingLeaks'
  BY <1>5 DEF DropSender, SenderFree
<1>6. CASE Receiving \/ Recv
  BY <1>6 DEF Receiving, Recv, RecvTake, RecvWait, RecvSleep, RecvRelock, RecvEnd
<1>7. CASE SpuriousWakeup \/ TryRecv \/ UNCHANGED vars
  BY <1>7 DEF SpuriousWakeup, TryRecv, vars
<1>8. CASE DropReceiver \/ ReceiverFree
  BY <1>8 DEF DropReceiver, ReceiverFree
<1> QED
  BY <1>1, <1>2, <1>3, <1>4, <1>5, <1>6, <1>7, <1>8 DEF Next, SenderNext, ReceiverNext

THEOREM ChannelStep == IInv /\ [Next]_vars => IInv'
  BY TypeStep, CountStep, FlagStep, SleepStep, LeakStep DEF IInv

THEOREM ChannelInvariant == Spec => []IInv
  BY ChannelInit, ChannelStep, PTL DEF Spec

-----------------------------------------------------------------------------
(* What follows from the invariant                                         *)

\* Every variable keeps its type, sender_count never goes below 0.
THEOREM ChannelTypeCorrect == Spec => []TypeOK
<1>1. IInv => TypeOK
  BY DEF IInv
<1> QED
  BY <1>1, ChannelInvariant, PTL

\* No wake-up is lost: recv sleeps only while no message and no end has come.
THEOREM ChannelNoSleepOnNews == Spec => []NoSleepOnNews
<1>1. IInv => NoSleepOnNews
  BY DEF IInv, Sleeping, NoSleepOnNews
<1> QED
  BY <1>1, ChannelInvariant, PTL

\* After the last drop of a half has returned, the channel has been freed.
THEOREM ChannelNothingLeaks == Spec => []NothingLeaks
<1>1. IInv => NothingLeaks
  BY DEF IInv
<1> QED
  BY <1>1, ChannelInvariant, PTL

-----------------------------------------------------------------------------
(* The channel implements MpscQueue                                        *)

LEMMA PromiseInit == Init => Promise!Init
<1> SUFFICES ASSUME Init PROVE Promise!Init
  OBVIOUS
<1>1. Open = {First}
  BY ChannelAssumption DEF Init, Open
<1> QED
  BY <1>1, ChannelAssumption DEF Init, Promise!Init

\* Every step of the code is one of the promise's, or changes nothing that
\* its users see.
LEMMA PromiseStep == IInv /\ [Next]_vars => [Promise!Next]_(Promise!queueVars)
<1> SUFFICES ASSUME IInv, [Next]_vars PROVE [Promise!Next]_(Promise!queueVars)
  OBVIOUS
<1>0. /\ Listening /\ Freeing
      /\ spc \in [Senders -> SenderSteps] /\ count \in Nat
  BY DEF IInv, TypeOK
<1> USE <1>0 DEF Listening, RecvSteps
<1>1. ASSUME NEW s \in Senders, Send(s) PROVE Promise!Next
  <2>1. <<s, sent'[s]>> \in Messages
    <3>1. sent'[s] \in 1..MaxSends
      BY <1>1, ChannelAssumption DEF Send, IInv, TypeOK
    <3> QED
      BY <3>1 DEF Messages
  <2>2. Promise!Send(<<s, sent'[s]>>)
    BY <1>1 DEF Send, Promise!Send, Open
  <2> QED
    BY <2>1, <2>2 DEF Promise!Next
<1>2. ASSUME NEW s \in Senders, NEW c \in Senders, Clone(s, c) PROVE Promise!Next
  <2>1. Open # {} /\ Open' = Open \union {c}
    BY <1>2 DEF Clone, Open
  <2>2. Promise!Clone(c)
    BY <1>2, <2>1 DEF Clone, Promise!Clone
  <2> QED
    BY <2>2 DEF Promise!Next
<1>3. ASSUME NEW s \in Senders, DropSender(s) PROVE Promise!Next
  <2>1. Open' = Open \ {s}
    BY <1>3 DEF DropSender, Open
  <2>2. Promise!DropSender(s)
    BY <1>3, <2>1 DEF DropSender, Promise!DropSender
  <2> QED
    BY <2>2 DEF Promise!Next
<1>4. ASSUME NEW s \in Senders,
             SendRefused(s) \/ Broadcast(s) \/ SenderTryFree(s) \/ SenderFree(s)
      PROVE  UNCHANGED Promise!queueVars
  <2>1. Open' = Open
    BY <1>4 DEF SendRefused, Broadcast, SenderTryFree, SenderFree, Open
  <2>2. SenderFree(s) => ~alive
    BY DEF SenderFree, Freeing
  <2> QED
    BY <1>4, <2>1, <2>2
       DEF SendRefused, Broadcast, SenderTryFree, SenderFree, Promise!queueVars
<1>5. CASE RecvTake \/ (TryRecv /\ Take)
  <2>1. Promise!Receive
    BY <1>5 DEF RecvTake, TryRecv, Take, Promise!Receive, Open
  <2> QED
    BY <2>1 DEF Promise!Next
<1>6. CASE RecvEnd
  <2>1. Open = {}
    BY <1>6, CountOpen DEF RecvEnd
  <2>2. Promise!End
    BY <1>6, <2>1 DEF RecvEnd, Promise!End, Open
  <2> QED
    BY <2>2 DEF Promise!Next
<1>7. CASE DropReceiver
  <2>1. Promise!DropReceiver
    BY <1>7 DEF DropReceiver, Promise!DropReceiver, Open
  <2> QED
    BY <2>1 DEF Promise!Next
<1>8. CASE \/ Recv \/ RecvWait \/ RecvSleep \/ RecvRelock \/ SpuriousWakeup
           \/ (TryRecv /\ ~Take)
           \/ ReceiverTryFree \/ ReceiverFree \/ UNCHANGED vars
  BY <1>8 DEF Recv, RecvWait, RecvSleep, RecvRelock, SpuriousWakeup, TryRecv,
              ReceiverTryFree, ReceiverFree, vars, Promise!queueVars, Open
<1> QED
  BY <1>1, <1>2, <1>3, <1>4, <1>5, <1>6, <1>7, <1>8
     DEF Next, SenderNext, ReceiverNext, Receiving

\* For any number of handles and messages, what happens to the channel is what
\* std.sync.mpsc promises.
THEOREM ChannelKeepsPromise == Spec => KeepsPromise
  BY PromiseInit, PromiseStep, ChannelInvariant, PTL
     DEF Spec, KeepsPromise, Promise!Spec

-----------------------------------------------------------------------------
(* When no two halves are dropped at the same time                         *)

\* At most one half is in the middle of its drop.
Solo ==
  /\ \A s, t \in Senders : spc[s] \in DropSteps /\ spc[t] \in DropSteps => s = t
  /\ rpc \in DropSteps => \A s \in Senders : spc[s] \notin DropSteps

\* The half that frees is the last one, and nobody is left after it.
LastFrees ==
  /\ \A s \in Senders : spc[s] = "free" => count = 0
  /\ rpc = "free" => count = 0
  /\ mem = "freed" => rpc = "gone" /\ \A s \in Senders : spc[s] \in {"none", "gone"}

SInv == IInv /\ Solo /\ LastFrees /\ NoUseAfterFree

LEMMA SoloStep ==
  ASSUME ~DropsOverlap, SInv, [Next]_vars
  PROVE  Solo'
<1>0. Solo /\ spc \in [Senders -> SenderSteps]
  BY DEF SInv, IInv, TypeOK
<1> USE <1>0 DEF Solo, DropSteps
<1>1. ASSUME NEW s \in Senders, SenderNext(s) PROVE Solo'
  <2>1. CASE DropSender(s)
    BY <2>1 DEF DropSender, MayDrop
  <2>2. CASE Broadcast(s) \/ SenderTryFree(s) \/ SenderFree(s)
    BY <2>2 DEF Broadcast, SenderTryFree, SenderFree, Signalled
  <2>3. CASE Send(s) \/ SendRefused(s) \/ \E c \in Senders : Clone(s, c)
    BY <2>3 DEF Send, SendRefused, Clone, Signalled
  <2> QED
    BY <1>1, <2>1, <2>2, <2>3 DEF SenderNext
<1>2. CASE Receiving \/ Recv \/ SpuriousWakeup \/ TryRecv
  BY <1>2 DEF Receiving, Recv, RecvTake, RecvWait, RecvSleep, RecvRelock, RecvEnd,
              SpuriousWakeup, TryRecv
<1>3. CASE DropReceiver
  BY <1>3 DEF DropReceiver, MayDrop
<1>4. CASE ReceiverTryFree \/ ReceiverFree \/ UNCHANGED vars
  BY <1>4 DEF ReceiverTryFree, ReceiverFree, vars
<1> QED
  BY <1>1, <1>2, <1>3, <1>4 DEF Next, ReceiverNext

\* Alone, a half that reads both conditions of try_free is the last one.
LEMMA LastFreesStep ==
  ASSUME SInv, [Next]_vars
  PROVE  LastFrees' /\ NoUseAfterFree'
<1>0. /\ Solo /\ LastFrees /\ NoUseAfterFree /\ Listening /\ Freeing
      /\ spc \in [Senders -> SenderSteps] /\ rpc \in ReceiverSteps
      /\ count \in Nat /\ (count = 0 => Open = {}) /\ mem \in {"live", "freed"}
  BY CountOpen DEF SInv, IInv, TypeOK
<1> USE <1>0 DEF LastFrees, NoUseAfterFree, Touch, DropSteps
<1>1. ASSUME NEW s \in Senders, SenderNext(s) PROVE LastFrees' /\ NoUseAfterFree'
  <2>1. CASE DropSender(s)
    <3>1. count > 0 /\ mem = "live"
      BY <2>1 DEF DropSender, Open
    <3>2. /\ \A t \in Senders : spc'[t] = "free" => spc[t] = "free"
          /\ mem' = mem /\ uaf' = (uaf \/ mem = "freed") /\ rpc' = rpc
      BY <2>1 DEF DropSender
    <3>3. LastFrees'
      BY <3>1, <3>2
    <3>4. NoUseAfterFree'
      BY <3>1, <3>2, Zenon
    <3> QED
      BY <3>3, <3>4
  <2>2. CASE SenderTryFree(s)
    BY <2>2 DEF SenderTryFree, LastHalf
  <2>3. CASE SenderFree(s)
    <3>1. rpc = "gone"
      BY <2>3 DEF SenderFree, Freeing, Listening, Solo, ReceiverSteps
    <3>2. \A t \in Senders \ {s} : spc[t] \in {"none", "gone"}
      BY <2>3 DEF SenderFree, Solo, Open, SenderSteps
    <3> QED
      BY <2>3, <3>1, <3>2 DEF SenderFree
  <2>4. CASE Send(s) \/ SendRefused(s) \/ Broadcast(s)
    BY <2>4 DEF Send, SendRefused, Broadcast, Signalled
  <2>5. ASSUME NEW c \in Senders, Clone(s, c) PROVE LastFrees' /\ NoUseAfterFree'
    BY <2>5 DEF Clone, Open
  <2> QED
    BY <1>1, <2>1, <2>2, <2>3, <2>4, <2>5 DEF SenderNext
<1>2. CASE Receiving \/ Recv \/ SpuriousWakeup \/ TryRecv
  <2>1. /\ mem = "live" /\ mem' = mem /\ count' = count /\ spc' = spc
        /\ rpc' # "free"
    BY <1>2 DEF Receiving, Recv, RecvTake, RecvWait, RecvSleep, RecvRelock, RecvEnd,
                SpuriousWakeup, TryRecv
  <2>2. uaf' = uaf \/ uaf' = (uaf \/ mem = "freed")
    BY <1>2 DEF Receiving, Recv, RecvTake, RecvWait, RecvSleep, RecvRelock, RecvEnd,
                SpuriousWakeup, TryRecv
  <2>3. LastFrees'
    BY <2>1
  <2>4. NoUseAfterFree'
    BY <2>1, <2>2, Zenon
  <2> QED
    BY <2>3, <2>4
<1>3. CASE DropReceiver
  <2>1. mem = "live"
    BY <1>3 DEF DropReceiver
  <2> QED
    BY <1>3, <2>1 DEF DropReceiver
<1>4. CASE ReceiverTryFree
  BY <1>4 DEF ReceiverTryFree, LastHalf
<1>5. CASE ReceiverFree
  <2>1. \A s \in Senders : spc[s] \in {"none", "gone"}
    BY <1>5 DEF ReceiverFree, Solo, Open, SenderSteps
  <2> QED
    BY <1>5, <2>1 DEF ReceiverFree
<1>6. CASE UNCHANGED vars
  BY <1>6 DEF vars
<1> QED
  BY <1>1, <1>2, <1>3, <1>4, <1>5, <1>6 DEF Next, ReceiverNext

\* Dropped one at a time, the halves free the channel once, and last.
THEOREM ChannelNoUseAfterFree ==
  ASSUME ~DropsOverlap
  PROVE  Spec => []NoUseAfterFree
<1>1. Init => SInv
  BY ChannelInit DEF Init, SInv, Solo, LastFrees, NoUseAfterFree, DropSteps
<1>2. SInv /\ [Next]_vars => SInv'
  BY ChannelStep, SoloStep, LastFreesStep DEF SInv
<1>3. SInv => NoUseAfterFree
  BY DEF SInv
<1> QED
  BY <1>1, <1>2, <1>3, PTL DEF Spec

=============================================================================

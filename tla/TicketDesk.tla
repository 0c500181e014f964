------------------------------ MODULE TicketDesk ------------------------------
(***************************************************************************)
(* What a program that counts behind a SharedSync[Mutex[Int]] from several *)
(* threads, and joins them, relies on (B10 of std.sync): every worker adds *)
(* one to the counter in one indivisible step and keeps the number it got, *)
(* and what is collected from a worker is what it ended with.              *)
(***************************************************************************)
EXTENDS Integers

CONSTANTS Workers

VARIABLES
  value,     \* the counter
  ticket,    \* the number each worker drew, 0 for none
  done,      \* the workers that have ended
  collected  \* the workers whose ticket was collected, with the ticket

vars == <<value, ticket, done, collected>>

Init ==
  /\ value = 0
  /\ ticket = [w \in Workers |-> 0]
  /\ done = {}
  /\ collected = {}

Draw(w) ==
  /\ w \notin done /\ ticket[w] = 0
  /\ value' = value + 1
  /\ ticket' = [ticket EXCEPT ![w] = value']
  /\ UNCHANGED <<done, collected>>

Finish(w) ==
  /\ w \notin done
  /\ done' = done \union {w}
  /\ UNCHANGED <<value, ticket, collected>>

Collect(w) ==
  /\ w \in done
  /\ \A c \in collected : c[1] # w
  /\ collected' = collected \union {<<w, ticket[w]>>}
  /\ UNCHANGED <<value, ticket, done>>

Next == \E w \in Workers : Draw(w) \/ Finish(w) \/ Collect(w)

Spec == Init /\ [][Next]_vars
=============================================================================

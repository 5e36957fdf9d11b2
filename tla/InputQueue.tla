------------------------------ MODULE InputQueue ------------------------------
(***************************************************************************)
(* What the key-event bridge between the two cores promises: a bounded    *)
(* FIFO of key events.  Core 0 appends, core 1 takes the oldest event, and *)
(* core 0 may empty the queue (mode switch, modal work).  Nothing else     *)
(* ever adds, drops, repeats or reorders an event.                         *)
(*                                                                         *)
(* The promise is void once a flush has overlapped a take ("intact" is     *)
(* FALSE): AppInput shows what the ring does then.                         *)
(***************************************************************************)
EXTENDS Naturals, Sequences

CONSTANT Capacity       \* events the queue can hold

VARIABLES q,            \* the events waiting, oldest first
          accepted,     \* number of the last event accepted
          taken,        \* the event handed out last (0: none yet)
          pushRes,       \* result of the last push
          intact        \* no flush has overlapped a take

vars == <<q, accepted, taken, pushRes, intact>>

Init == /\ q = <<>>
        /\ accepted = 0
        /\ taken = 0
        /\ pushRes = "ok"
        /\ intact = TRUE

Accept == /\ Len(q) < Capacity
          /\ accepted' = accepted + 1
          /\ q' = Append(q, accepted')
          /\ pushRes' = "ok"
          /\ UNCHANGED <<taken, intact>>

Reject == /\ Len(q) = Capacity
          /\ pushRes' = "full"
          /\ UNCHANGED <<q, accepted, taken, intact>>

Take == /\ q # <<>>
        /\ taken' = Head(q)
        /\ q' = Tail(q)
        /\ UNCHANGED <<accepted, pushRes, intact>>

Flush == /\ q' = <<>>
         /\ UNCHANGED <<accepted, taken, pushRes, intact>>

\* The promise ends here; whatever follows is allowed.
Break == intact /\ ~intact'

Next == \/ intact /\ (Accept \/ Reject \/ Take \/ Flush)
        \/ Break
        \/ ~intact /\ ~intact'

Spec == Init /\ [][Next]_vars
===============================================================================

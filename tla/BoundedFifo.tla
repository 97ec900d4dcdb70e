---------------------------- MODULE BoundedFifo ----------------------------
(***************************************************************************)
(* What a unidirectional ring promises to its two users: a FIFO of at most *)
(* Capacity messages.  The messages held are those that were produced and  *)
(* not yet consumed; got is the message the consumer obtained last.        *)
(***************************************************************************)
EXTENDS Naturals, Sequences

CONSTANTS Msg,      \* the messages
          NoMsg,    \* the value of got before anything was consumed
          Capacity  \* the number of slots

VARIABLES queue,    \* messages produced and not consumed, oldest first
          got       \* the message consumed last

vars == <<queue, got>>

Init == queue = <<>> /\ got = NoMsg

Put(m) ==
    /\ Len(queue) < Capacity
    /\ queue' = Append(queue, m)
    /\ got' = got

Get ==
    /\ queue # <<>>
    /\ got' = Head(queue)
    /\ queue' = Tail(queue)

Next == Get \/ \E m \in Msg : Put(m)

Spec == Init /\ [][Next]_vars
=============================================================================

-------------------------- MODULE RequestResponse --------------------------
(***************************************************************************)
(* What a bidirectional ring promises to its two users: a client sends     *)
(* requests, a server takes them in order and answers each one exactly     *)
(* once and in order, and at most Capacity requests are without a          *)
(* collected response at any time.                                         *)
(***************************************************************************)
EXTENDS Naturals, Sequences

CONSTANTS Request, Response,
          NoMsg,     \* what a party got before it got anything
          Capacity   \* the number of slots

VARIABLES requests,   \* sent and not yet taken by the server, oldest first
          taken,      \* number of requests taken and not yet answered
          responses,  \* responses not yet collected by the client
          got         \* per party: the message it obtained last

vars == <<requests, taken, responses, got>>

Outstanding == Len(requests) + taken + Len(responses)

Init ==
    /\ requests = <<>> /\ taken = 0 /\ responses = <<>>
    /\ got = [p \in {"client", "server"} |-> NoMsg]

Send(r) ==
    /\ Outstanding < Capacity
    /\ requests' = Append(requests, r)
    /\ UNCHANGED <<taken, responses, got>>

Take ==
    /\ requests # <<>>
    /\ got' = [got EXCEPT !["server"] = Head(requests)]
    /\ requests' = Tail(requests) /\ taken' = taken + 1
    /\ UNCHANGED responses

Answer(r) ==
    /\ taken > 0
    /\ taken' = taken - 1 /\ responses' = Append(responses, r)
    /\ UNCHANGED <<requests, got>>

Collect ==
    /\ responses # <<>>
    /\ got' = [got EXCEPT !["client"] = Head(responses)]
    /\ responses' = Tail(responses)
    /\ UNCHANGED <<requests, taken>>

Next ==
    \/ Take \/ Collect
    \/ \E r \in Request : Send(r)
    \/ \E r \in Response : Answer(r)

Spec == Init /\ [][Next]_vars
=============================================================================

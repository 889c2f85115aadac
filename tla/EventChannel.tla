---------------------------- MODULE EventChannel ----------------------------
(***************************************************************************)
(* What a Tjost_Pipe promises its two users: a lossless, duplicate-free    *)
(* first-in first-out channel for the events tjost_pipe_produce accepted.  *)
(* A rejected event (produce returned -1) leaves no trace here.            *)
(***************************************************************************)
EXTENDS Naturals, Sequences

CONSTANT Event          \* the events the producer may offer

VARIABLES sent,         \* every event the channel accepted, in order
          received      \* every event handed to the consumer, in order

Init == sent = << >> /\ received = << >>

Send(e) == /\ sent' = Append(sent, e)
           /\ UNCHANGED received

Receive == /\ Len(received) < Len(sent)
           /\ received' = Append(received, sent[Len(received) + 1])
           /\ UNCHANGED sent

Next == (\E e \in Event : Send(e)) \/ Receive

Spec == Init /\ [][Next]_<<sent, received>>
=============================================================================

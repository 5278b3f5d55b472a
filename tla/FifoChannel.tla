---------------------------- MODULE FifoChannel ----------------------------
(***************************************************************************)
(* What the two ends of a queue service rely on: a bounded FIFO that        *)
(* delivers every message once, in order and unchanged, and that is emptied *)
(* only when the firmware restarts.  A message is named by how many were    *)
(* sent before it.                                                          *)
(***************************************************************************)
EXTENDS Naturals, Sequences

CONSTANTS Modulus, Capacity

VARIABLES
    sent,       \* how many messages were sent, modulo Modulus
    queue       \* sent and not yet taken

Init == sent = 0 /\ queue = <<>>

Send ==
    /\ Len(queue) < Capacity
    /\ queue' = Append(queue, sent)
    /\ sent' = (sent + 1) % Modulus

Take ==
    /\ queue # <<>>
    /\ queue' = Tail(queue)
    /\ UNCHANGED sent

Restart == sent' = 0 /\ queue' = <<>>

Next == Send \/ Take \/ Restart

Spec == Init /\ [][Next]_<<sent, queue>>
=============================================================================

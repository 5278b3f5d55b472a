------------------------ MODULE MCEdgetpuWakelock ------------------------
(* Client wakelocks of the edgetpu driver on small instances. *)
EXTENDS EdgetpuWakelock, TLC

CONSTANTS c1, c2

\* One client uses both flags, the other only the plain one.
OneSuspends == c1 :> Flags @@ c2 :> {"plain"}
\* Every client uses both.
AllSuspend == [c \in Client |-> Flags]

\* Threads are alike; so are clients where nothing tells them apart.
ThreadSymmetry == Permutations(Thread)
Symmetry == Permutations(Client) \cup ThreadSymmetry
==========================================================================

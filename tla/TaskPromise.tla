----------------------------- MODULE TaskPromise -----------------------------
(***************************************************************************)
(* What the path from the backend's inbox file to the executor promises    *)
(* about the messages of one agent, whatever threads, links and files are  *)
(* behind it: they start one at a time, in the order they were sent, each  *)
(* at most once per life of the runtime; a clear drops what waits, one     *)
(* message excepted; a restart may lose what was read and may run again    *)
(* what was read last.                                                     *)
(***************************************************************************)
EXTENDS Naturals

CONSTANT MaxMessages

VARIABLE status   \* status[m] of message m, numbered in sending order

Messages == 1..MaxMessages
States == {"unsent", "pending", "running", "finished", "cleared", "lost"}
With(s) == {m \in Messages : status[m] = s}

Init == status = [m \in Messages |-> "unsent"]

Send(m) ==
    /\ status[m] = "unsent"
    /\ \A earlier \in Messages : earlier < m => status[earlier] # "unsent"
    /\ status' = [status EXCEPT ![m] = "pending"]

Start(m) ==
    /\ status[m] = "pending"
    /\ With("running") = {}
    /\ \A earlier \in With("pending") : m <= earlier
    /\ status' = [status EXCEPT ![m] = "running"]

Finish(m) ==
    /\ status[m] = "running"
    /\ status' = [status EXCEPT ![m] = "finished"]

\* At most one message that is older than a cleared one survives.
Clear(S) ==
    /\ S # {}
    /\ \A p, q \in With("pending") \ S :
           (\E s \in S : p < s) /\ (\E s \in S : q < s) => p = q
    /\ status' = [m \in Messages |-> IF m \in S THEN "cleared" ELSE status[m]]

\* The messages after the last saved read position are read again; of the
\* others, those that were waiting or running are gone.
Restart(position) ==
    status' = [m \in Messages |->
                 IF status[m] = "unsent" THEN "unsent"
                 ELSE IF m > position THEN "pending"
                 ELSE IF status[m] \in {"pending", "running"} THEN "lost"
                 ELSE status[m]]

Next ==
    \/ \E m \in Messages : Send(m) \/ Start(m) \/ Finish(m)
    \/ \E S \in SUBSET With("pending") : Clear(S)
    \/ \E position \in 0..MaxMessages : Restart(position)

Spec == Init /\ [][Next]_status
=============================================================================

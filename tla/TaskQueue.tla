------------------------------ MODULE TaskQueue ------------------------------
(***************************************************************************)
(* What the dispatch queue of the background thread promises              *)
(* (proxy/async.c): tasks run once each, in the order they were dispatched *)
(* in.                                                                     *)
(***************************************************************************)
EXTENDS Sequences

CONSTANT Tasks

VARIABLE queue     \* tasks dispatched and not run, oldest first

Init == queue = <<>>

Dispatch(t) == queue' = Append(queue, t)

Run == queue # <<>> /\ queue' = Tail(queue)

Next == Run \/ \E t \in Tasks : Dispatch(t)

Spec == Init /\ [][Next]_queue

===============================================================================

-------------------------------- MODULE Async --------------------------------
(***************************************************************************)
(* The dispatch queue of the background thread (proxy/async.c).  Threads   *)
(* dispatch tasks: they append to a linked list under a mutex, and write a *)
(* byte to a pipe when the list was empty.  The background thread polls    *)
(* the pipe, reads it, and runs everything in the list under the mutex.    *)
(*                                                                         *)
(* A task is a piece of heap memory: running a task frees it, and the next *)
(* task may be allocated in its place.  An action is one access to what    *)
(* the threads share.                                                      *)
(***************************************************************************)
EXTENDS Integers, FiniteSets, Sequences

CONSTANTS
    Threads,       \* threads that dispatch tasks
    Background,    \* the background thread
    Tasks,         \* memory of tasks
    Null

ASSUME AsyncAssumption ==
    /\ Background \notin Threads
    /\ Null \notin Threads \cup {Background} \cup Tasks
    /\ IsFiniteSet(Tasks)

VARIABLES
    head, tail,    \* async_ctx.head, async_ctx.tail
    next,          \* of each task
    allocated,     \* tasks in memory
    mutex,         \* the thread that holds async_ctx.mutex
    pipe,          \* bytes in the pipe
    pc,            \* what each thread does next
    task           \* what each thread is dispatching

vars == <<head, tail, next, allocated, mutex, pipe, pc, task>>

Init ==
    /\ head = Null /\ tail = Null
    /\ next = [t \in Tasks |-> Null]
    /\ allocated = {}
    /\ mutex = Null
    /\ pipe = 0
    /\ pc = [th \in Threads \cup {Background} |-> IF th = Background THEN "poll" ELSE "idle"]
    /\ task = [th \in Threads |-> Null]

Goto(th, from, to) == pc[th] = from /\ pc' = [pc EXCEPT ![th] = to]

-------------------------------------------------------------------------------
(***************************************************************************)
(* async_dispatch()                                                        *)
(***************************************************************************)
Dispatch(th) ==
    /\ Goto(th, "idle", "lock")
    /\ \E t \in Tasks \ allocated :
          /\ allocated' = allocated \cup {t}
          /\ next' = [next EXCEPT ![t] = Null]
          /\ task' = [task EXCEPT ![th] = t]
    /\ UNCHANGED <<head, tail, mutex, pipe>>

Lock(th) ==
    /\ Goto(th, "lock", "append")
    /\ mutex = Null /\ mutex' = th
    /\ UNCHANGED <<head, tail, next, allocated, pipe, task>>

\* Mutation: every task is signalled.
AppendSignalling(th) ==
    /\ Goto(th, "append", "signal")
    /\ IF head = Null THEN head' = task[th] /\ UNCHANGED next
       ELSE next' = [next EXCEPT ![tail] = task[th]] /\ UNCHANGED head
    /\ UNCHANGED <<tail, allocated, mutex, pipe, task>>

\* Mutation: a second task goes before all others but the first.
AppendSecond(th) ==
    /\ IF head = Null
       THEN Goto(th, "append", "signal") /\ head' = task[th] /\ UNCHANGED next
       ELSE /\ Goto(th, "append", "unlock")
            /\ next' = [next EXCEPT ![head] = task[th], ![task[th]] = next[head]]
            /\ UNCHANGED head
    /\ UNCHANGED <<tail, allocated, mutex, pipe, task>>

\* The list is signalled once, with its first task.
AppendTask(th) ==
    /\ IF head = Null
       THEN Goto(th, "append", "signal") /\ head' = task[th] /\ UNCHANGED next
       ELSE /\ Goto(th, "append", "tail")
            /\ next' = [next EXCEPT ![tail] = task[th]]
            /\ UNCHANGED head
    /\ UNCHANGED <<tail, allocated, mutex, pipe, task>>

Signal(th) ==
    /\ Goto(th, "signal", "tail")
    /\ pipe' = pipe + 1
    /\ UNCHANGED <<head, tail, next, allocated, mutex, task>>

\* The write fails: async_dispatch() returns with the mutex locked.
SignalFails(th) ==
    /\ Goto(th, "signal", "failed")
    /\ UNCHANGED <<head, tail, next, allocated, mutex, pipe, task>>

SetTail(th) ==
    /\ Goto(th, "tail", "unlock")
    /\ tail' = task[th]
    /\ UNCHANGED <<head, next, allocated, mutex, pipe, task>>

Unlock(th) ==
    /\ Goto(th, "unlock", "idle")
    /\ mutex' = Null
    /\ task' = [task EXCEPT ![th] = Null]
    /\ UNCHANGED <<head, tail, next, allocated, pipe>>

-------------------------------------------------------------------------------
(***************************************************************************)
(* async_loop_next(), async_process()                                      *)
(***************************************************************************)

\* Mutation: a byte is taken whether or not there is one.
ReadBlindly ==
    /\ Goto(Background, "poll", "lock")
    /\ pipe' = pipe - 1
    /\ UNCHANGED <<head, tail, next, allocated, mutex, task>>

\* The pipe is emptied before the mutex is taken.
Read ==
    /\ Goto(Background, "poll", "lock")
    /\ pipe > 0 /\ pipe' = 0
    /\ UNCHANGED <<head, tail, next, allocated, mutex, task>>

LockList ==
    /\ Goto(Background, "lock", "run")
    /\ mutex = Null /\ mutex' = Background
    /\ UNCHANGED <<head, tail, next, allocated, pipe, task>>

\* Takes the first task off the list and runs it, which frees it.
Run ==
    /\ Goto(Background, "run", "run")
    /\ head # Null
    /\ head' = next[head]
    /\ allocated' = allocated \ {head}
    /\ UNCHANGED <<tail, next, mutex, pipe, task>>

\* Mutation: one task for each signal.
UnlockListEarly ==
    /\ Goto(Background, "run", "poll")
    /\ mutex' = Null
    /\ UNCHANGED <<head, tail, next, allocated, pipe, task>>

UnlockList ==
    /\ Goto(Background, "run", "poll")
    /\ head = Null
    /\ mutex' = Null
    /\ UNCHANGED <<head, tail, next, allocated, pipe, task>>

Next ==
    \/ \E th \in Threads :
          \/ Dispatch(th) \/ Lock(th) \/ AppendTask(th) \/ Signal(th) \/ SignalFails(th)
          \/ SetTail(th) \/ Unlock(th)
    \/ Read \/ LockList \/ Run \/ UnlockList

Spec == Init /\ [][Next]_vars

\* All threads are scheduled, and a thread that waits for the mutex gets it if it is
\* free again and again.
Fairness ==
    /\ \A th \in Threads :
          WF_vars(AppendTask(th) \/ Signal(th) \/ SignalFails(th) \/ SetTail(th) \/ Unlock(th))
    /\ WF_vars(Read) /\ SF_vars(LockList) /\ WF_vars(Run) /\ WF_vars(UnlockList)

FairSpec == Spec /\ Fairness

-------------------------------------------------------------------------------
(***************************************************************************)
(* Safety                                                                  *)
(***************************************************************************)
ThreadStates     == {"idle", "lock", "append", "signal", "tail", "unlock", "failed"}
BackgroundStates == {"poll", "lock", "run"}

TypeOK ==
    /\ head \in Tasks \cup {Null} /\ tail \in Tasks \cup {Null}
    /\ next \in [Tasks -> Tasks \cup {Null}]
    /\ allocated \subseteq Tasks
    /\ mutex \in Threads \cup {Background, Null}
    /\ pipe \in Nat
    /\ pc \in [Threads \cup {Background} -> ThreadStates \cup BackgroundStates]
    /\ \A th \in Threads : pc[th] \in ThreadStates
    /\ pc[Background] \in BackgroundStates
    /\ task \in [Threads -> Tasks \cup {Null}]

\* The tasks of a list, followed from its first for as long as there are tasks.
List(first, link) ==
    LET task_at[n \in 0..Cardinality(Tasks)] ==
            IF n = 0 THEN first
            ELSE IF task_at[n - 1] = Null THEN Null ELSE link[task_at[n - 1]]
        len == Cardinality({n \in 0..Cardinality(Tasks) : task_at[n] # Null})
    IN  [k \in 1..len |-> task_at[k - 1]]

Chain == List(head, next)

\* The pipe holds one byte at most, however dispatching and processing
\* interleave: what async_process() reads is one byte (assert(read_len == 1)).
SignalledOnce == pipe <= 1

\* No signal is lost: while there are tasks, the background thread is bound to
\* look at the list again, by a byte in the pipe, because it has read the byte and
\* not seen the list empty yet, or because the thread that makes the list
\* nonempty is about to write the byte (or fails to).
Signalled ==
    head # Null =>
        \/ pipe > 0
        \/ pc[Background] # "poll"
        \/ \E th \in Threads : pc[th] \in {"signal", "failed"}

\* A list that is not empty has one signal: none is lost, and none is there twice
\* (async_dispatch() signals the first task only, async_process() reads one byte).
OneSignal == SignalledOnce /\ Signalled

Queue == INSTANCE TaskQueue WITH queue <- Chain

\* Tasks run once each, in the order of the calls of async_dispatch().
ImplementsTaskQueue == Queue!Spec

-------------------------------------------------------------------------------
(***************************************************************************)
(* Liveness                                                                *)
(***************************************************************************)
Failed == \E th \in Threads : pc[th] = "failed"

\* Every task dispatched is run, unless a write to the pipe failed.
EveryTaskRuns ==
    \A t \in Tasks : (\E i \in DOMAIN Chain : Chain[i] = t) ~> t \notin allocated \/ Failed

===============================================================================

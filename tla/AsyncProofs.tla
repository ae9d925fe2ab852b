----------------------------- MODULE AsyncProofs -----------------------------
(***************************************************************************)
(* That the background thread's queue is signalled exactly when it has to  *)
(* be, for any number of threads and tasks.                                *)
(***************************************************************************)
EXTENDS Async, WellFoundedInduction, TLAPS, FiniteSetTheorems, SequenceTheorems

-------------------------------------------------------------------------------
(***************************************************************************)
(* Induction over the natural numbers, for what loops and lists compute.   *)
(***************************************************************************)

\* A set of numbers that has zero, and with each number the next, has all of them:
\* otherwise there is a smallest number that it lacks.
LEMMA NatInductionSet ==
  ASSUME NEW S, 0 \in S, \A n \in Nat : n \in S => n + 1 \in S
  PROVE  Nat \subseteq S
<1> DEFINE T == Nat \ S
<1>1. SUFFICES ASSUME T # {} PROVE FALSE
  OBVIOUS
<1>2. T \subseteq Nat
  OBVIOUS
<1>3. PICK x \in T : \A y \in T : ~ (<<y, x>> \in OpToRel(<, Nat))
  <2> HIDE DEF T
  <2> QED
    BY <1>1, <1>2, NatLessThanWellFounded, WFMin
<1>4. x \in Nat /\ x \notin S
  OBVIOUS
<1>5. x - 1 \in Nat
  BY <1>4
<1>6. x - 1 \in S
  <2>1. <<x - 1, x>> \in OpToRel(<, Nat)
    BY <1>4, <1>5 DEF OpToRel
  <2> QED
    BY <1>3, <1>5, <2>1
<1>7. x - 1 + 1 = x
  BY <1>4
<1> QED
  BY <1>4, <1>5, <1>6, <1>7

-------------------------------------------------------------------------------

Holding == {"append", "signal", "tail", "unlock", "failed"}

\* The mutex is held by the thread that is between lock and unlock.
MutexInv ==
    /\ \A th \in Threads : pc[th] \in Holding <=> mutex = th
    /\ pc[Background] = "run" <=> mutex = Background

\* There is one signal for a list that is not empty: about to be written, in the
\* pipe, or read.
SignalInv ==
    /\ pipe > 0 => pipe = 1 /\ head # Null /\ pc[Background] = "poll"
    /\ pc[Background] = "lock" => head # Null
    /\ \A th \in Threads :
          pc[th] = "signal" => head # Null /\ pipe = 0 /\ pc[Background] = "poll"

\* A thread that dispatches has a task.
TaskInv == \A th \in Threads : pc[th] # "idle" => task[th] \in Tasks

Inv == TypeOK /\ MutexInv /\ TaskInv /\ SignalInv /\ Signalled

\* A step of the background thread leaves the others where they are, and any other
\* leaves it and the other threads where they are.
LEMMA GotoElsewhere ==
    ASSUME TypeOK, NEW th \in Threads \cup {Background}, NEW from, NEW to, Goto(th, from, to)
    PROVE  /\ pc[th] = from /\ pc'[th] = to
           /\ \A other \in Threads \cup {Background} : other # th => pc'[other] = pc[other]
  BY DEF TypeOK, Goto

\* Every thread starts idle and the list empty.
LEMMA InitInv == Init => Inv
  BY AsyncAssumption
  DEF Init, Inv, TypeOK, MutexInv, TaskInv, SignalInv, Signalled, Holding, ThreadStates, BackgroundStates

\* A step of dispatching a task.
LEMMA DispatchStep ==
    ASSUME Inv, NEW th \in Threads,
           Dispatch(th) \/ Lock(th) \/ AppendTask(th) \/ Signal(th) \/ SignalFails(th)
           \/ SetTail(th) \/ Unlock(th)
    PROVE  Inv'
<1> USE AsyncAssumption DEF Inv
<1>1. CASE Dispatch(th)
  <2>1. Goto(th, "idle", "lock")
    BY <1>1 DEF Dispatch
  <2>2. /\ pc[th] = "idle" /\ pc'[th] = "lock"
        /\ \A other \in Threads \cup {Background} : other # th => pc'[other] = pc[other]
    BY <2>1, GotoElsewhere
  <2>3. TypeOK'
    BY <1>1, <2>2 DEF TypeOK, Dispatch, Goto, ThreadStates, BackgroundStates
  <2>4. MutexInv' /\ TaskInv' /\ SignalInv' /\ Signalled'
    BY <1>1, <2>2 DEF Dispatch, MutexInv, TaskInv, SignalInv, Signalled, Holding, TypeOK
  <2> QED BY <2>3, <2>4
<1>2. CASE Lock(th)
  <2>1. Goto(th, "lock", "append")
    BY <1>2 DEF Lock
  <2>2. /\ pc[th] = "lock" /\ pc'[th] = "append"
        /\ \A other \in Threads \cup {Background} : other # th => pc'[other] = pc[other]
    BY <2>1, GotoElsewhere
  <2>3. TypeOK'
    BY <1>2, <2>2 DEF TypeOK, Lock, Goto, ThreadStates, BackgroundStates
  <2>4. MutexInv' /\ TaskInv' /\ SignalInv' /\ Signalled'
    BY <1>2, <2>2 DEF Lock, MutexInv, TaskInv, SignalInv, Signalled, Holding
  <2> QED BY <2>3, <2>4
<1>3. CASE AppendTask(th)
  <2>1. CASE head = Null
    <3>1. Goto(th, "append", "signal") /\ head' = task[th]
      BY <1>3, <2>1 DEF AppendTask
    <3>2. /\ pc[th] = "append" /\ pc'[th] = "signal"
          /\ \A other \in Threads \cup {Background} : other # th => pc'[other] = pc[other]
      BY <3>1, GotoElsewhere
    <3>3. TypeOK'
      BY <1>3, <2>1, <3>1, <3>2 DEF TypeOK, AppendTask, Goto, ThreadStates, BackgroundStates
    <3>4. MutexInv' /\ TaskInv'
      BY <1>3, <3>2 DEF AppendTask, MutexInv, TaskInv, Holding
    <3>5. pipe = 0 /\ pc[Background] = "poll"
      BY <2>1, <3>2 DEF TypeOK, MutexInv, SignalInv, Holding, BackgroundStates
    <3>6. head' # Null /\ pipe' = 0
      BY <1>3, <3>1, <3>2, <3>5 DEF AppendTask, TaskInv
    <3>7. SignalInv' /\ Signalled'
      BY <3>2, <3>5, <3>6 DEF SignalInv, Signalled
    <3> QED BY <3>3, <3>4, <3>7
  <2>2. CASE head # Null
    <3>1. Goto(th, "append", "tail") /\ next' = [next EXCEPT ![tail] = task[th]] /\ head' = head
      BY <1>3, <2>2 DEF AppendTask
    <3>2. /\ pc[th] = "append" /\ pc'[th] = "tail"
          /\ \A other \in Threads \cup {Background} : other # th => pc'[other] = pc[other]
      BY <3>1, GotoElsewhere
    <3>3. TypeOK'
      BY <1>3, <3>1, <3>2 DEF TypeOK, AppendTask, Goto, ThreadStates, BackgroundStates
    <3>4. MutexInv' /\ TaskInv' /\ SignalInv' /\ Signalled'
      BY <1>3, <3>1, <3>2 DEF AppendTask, MutexInv, TaskInv, SignalInv, Signalled, Holding
    <3> QED BY <3>3, <3>4
  <2> QED BY <2>1, <2>2
<1>4. CASE Signal(th)
  <2>1. Goto(th, "signal", "tail")
    BY <1>4 DEF Signal
  <2>2. /\ pc[th] = "signal" /\ pc'[th] = "tail"
        /\ \A other \in Threads \cup {Background} : other # th => pc'[other] = pc[other]
    BY <2>1, GotoElsewhere
  <2>3. TypeOK'
    BY <1>4, <2>2 DEF TypeOK, Signal, Goto, ThreadStates, BackgroundStates
  <2>4. MutexInv' /\ TaskInv'
    BY <1>4, <2>2 DEF Signal, MutexInv, TaskInv, Holding
  <2>5. pipe' = 1 /\ head' # Null /\ pc'[Background] = "poll"
    BY <1>4, <2>2 DEF Signal, SignalInv
  <2>6. \A other \in Threads : pc'[other] # "signal"
    BY <2>2 DEF MutexInv, Holding
  <2>7. SignalInv' /\ Signalled'
    BY <2>5, <2>6 DEF SignalInv, Signalled
  <2> QED BY <2>3, <2>4, <2>7
<1>5. CASE SignalFails(th)
  <2>1. Goto(th, "signal", "failed")
    BY <1>5 DEF SignalFails
  <2>2. /\ pc[th] = "signal" /\ pc'[th] = "failed"
        /\ \A other \in Threads \cup {Background} : other # th => pc'[other] = pc[other]
    BY <2>1, GotoElsewhere
  <2>3. TypeOK'
    BY <1>5, <2>2 DEF TypeOK, SignalFails, Goto, ThreadStates, BackgroundStates
  <2>4. MutexInv' /\ TaskInv' /\ SignalInv' /\ Signalled'
    BY <1>5, <2>2 DEF SignalFails, MutexInv, TaskInv, SignalInv, Signalled, Holding
  <2> QED BY <2>3, <2>4
<1>6. CASE SetTail(th)
  <2>1. Goto(th, "tail", "unlock")
    BY <1>6 DEF SetTail
  <2>2. /\ pc[th] = "tail" /\ pc'[th] = "unlock"
        /\ \A other \in Threads \cup {Background} : other # th => pc'[other] = pc[other]
    BY <2>1, GotoElsewhere
  <2>3. TypeOK'
    BY <1>6, <2>2 DEF TypeOK, SetTail, Goto, ThreadStates, BackgroundStates
  <2>4. MutexInv' /\ TaskInv' /\ SignalInv' /\ Signalled'
    BY <1>6, <2>2 DEF SetTail, MutexInv, TaskInv, SignalInv, Signalled, Holding
  <2> QED BY <2>3, <2>4
<1>7. CASE Unlock(th)
  <2>1. Goto(th, "unlock", "idle")
    BY <1>7 DEF Unlock
  <2>2. /\ pc[th] = "unlock" /\ pc'[th] = "idle"
        /\ \A other \in Threads \cup {Background} : other # th => pc'[other] = pc[other]
    BY <2>1, GotoElsewhere
  <2>3. TypeOK'
    BY <1>7, <2>2 DEF TypeOK, Unlock, Goto, ThreadStates, BackgroundStates
  <2>4. mutex = th /\ mutex' = Null
    BY <1>7, <2>2 DEF Unlock, MutexInv, Holding
  <2>5. MutexInv' /\ TaskInv'
    BY <1>7, <2>2, <2>4 DEF Unlock, MutexInv, TaskInv, Holding, TypeOK
  <2>6. SignalInv' /\ Signalled'
    BY <1>7, <2>2 DEF Unlock, SignalInv, Signalled
  <2> QED BY <2>3, <2>5, <2>6
<1> QED BY <1>1, <1>2, <1>3, <1>4, <1>5, <1>6, <1>7

\* A step of the background thread.
LEMMA BackgroundStep ==
    ASSUME Inv, Read \/ LockList \/ Run \/ UnlockList
    PROVE  Inv'
<1> USE AsyncAssumption DEF Inv
<1>1. CASE Read
  <2>1. Goto(Background, "poll", "lock")
    BY <1>1 DEF Read
  <2>2. /\ pc[Background] = "poll" /\ pc'[Background] = "lock"
        /\ \A th \in Threads : pc'[th] = pc[th]
    BY <2>1, GotoElsewhere
  <2>3. TypeOK'
    BY <1>1, <2>2 DEF TypeOK, Read, Goto, ThreadStates, BackgroundStates
  <2>4. MutexInv' /\ TaskInv'
    BY <1>1, <2>2 DEF Read, MutexInv, TaskInv, Holding
  <2>5. head' # Null /\ pipe' = 0 /\ \A th \in Threads : pc'[th] # "signal"
    BY <1>1, <2>2 DEF Read, SignalInv
  <2>6. SignalInv' /\ Signalled'
    BY <2>2, <2>5 DEF SignalInv, Signalled
  <2> QED BY <2>3, <2>4, <2>6
<1>2. CASE LockList
  <2>1. Goto(Background, "lock", "run")
    BY <1>2 DEF LockList
  <2>2. /\ pc[Background] = "lock" /\ pc'[Background] = "run"
        /\ \A th \in Threads : pc'[th] = pc[th]
    BY <2>1, GotoElsewhere
  <2>3. TypeOK'
    BY <1>2, <2>2 DEF TypeOK, LockList, Goto, ThreadStates, BackgroundStates
  <2>4. MutexInv' /\ TaskInv' /\ SignalInv' /\ Signalled'
    BY <1>2, <2>2 DEF LockList, MutexInv, TaskInv, SignalInv, Signalled, Holding, TypeOK
  <2> QED BY <2>3, <2>4
<1>3. CASE Run
  <2>1. Goto(Background, "run", "run")
    BY <1>3 DEF Run
  <2>2. /\ pc[Background] = "run" /\ pc'[Background] = "run"
        /\ \A th \in Threads : pc'[th] = pc[th]
    BY <2>1, GotoElsewhere
  <2>3. TypeOK'
    BY <1>3, <2>2 DEF TypeOK, Run, Goto, ThreadStates, BackgroundStates
  <2>4. MutexInv' /\ TaskInv'
    BY <1>3, <2>2 DEF Run, MutexInv, TaskInv
  <2>5. pipe' = 0 /\ \A th \in Threads : pc'[th] # "signal"
    BY <1>3, <2>2 DEF Run, MutexInv, SignalInv, Holding, TypeOK
  <2>6. SignalInv' /\ Signalled'
    BY <2>2, <2>5 DEF SignalInv, Signalled
  <2> QED BY <2>3, <2>4, <2>6
<1>4. CASE UnlockList
  <2>1. Goto(Background, "run", "poll")
    BY <1>4 DEF UnlockList
  <2>2. /\ pc[Background] = "run" /\ pc'[Background] = "poll"
        /\ \A th \in Threads : pc'[th] = pc[th]
    BY <2>1, GotoElsewhere
  <2>3. TypeOK'
    BY <1>4, <2>2 DEF TypeOK, UnlockList, Goto, ThreadStates, BackgroundStates
  <2>4. mutex = Background /\ mutex' = Null
    BY <1>4, <2>2 DEF UnlockList, MutexInv
  <2>5. MutexInv' /\ TaskInv'
    BY <1>4, <2>2, <2>4 DEF UnlockList, MutexInv, TaskInv, Holding
  <2>6. SignalInv' /\ Signalled'
    BY <1>4, <2>2 DEF UnlockList, SignalInv, Signalled, TypeOK
  <2> QED BY <2>3, <2>5, <2>6
<1> QED BY <1>1, <1>2, <1>3, <1>4

\* What the invariant is about stays the same.
LEMMA Stutter == Inv /\ UNCHANGED vars => Inv'
  BY DEF Inv, TypeOK, MutexInv, TaskInv, SignalInv, Signalled, vars

\* Every step keeps the invariant.
LEMMA InvStep == Inv /\ [Next]_vars => Inv'
<1> SUFFICES ASSUME Inv, [Next]_vars PROVE Inv'
  OBVIOUS
<1>1. CASE UNCHANGED vars
  BY <1>1, Stutter
<1>2. CASE Next
  <2>1. CASE \E th \in Threads :
                Dispatch(th) \/ Lock(th) \/ AppendTask(th) \/ Signal(th) \/ SignalFails(th)
                \/ SetTail(th) \/ Unlock(th)
    BY <2>1, DispatchStep
  <2>2. CASE Read \/ LockList \/ Run \/ UnlockList
    BY <2>2, BackgroundStep
  <2> QED BY <1>2, <2>1, <2>2 DEF Next
<1> QED BY <1>1, <1>2

\* The inductive invariant of the queue: who holds the mutex, and where the one
\* signal of a list that is not empty is (async_dispatch(), async_process()).
THEOREM Invariant == Spec => []Inv
  BY InitInv, InvStep, PTL DEF Spec

\* Every variable keeps its type.
THEOREM TypeOKThm == Spec => []TypeOK
<1>1. Inv => TypeOK
  BY DEF Inv
<1> QED BY <1>1, Invariant, PTL

\* However many threads dispatch tasks, async_process() reads one byte from the
\* pipe (assert(read_len == 1) holds), and the background thread never goes to sleep
\* with tasks in the list that it is not going to be woken up for.
THEOREM OneSignalThm == Spec => []OneSignal
<1>1. Inv => SignalledOnce
  BY DEF Inv, TypeOK, SignalInv, SignalledOnce
<1>2. Inv => Signalled
  BY DEF Inv
<1>3. Inv => OneSignal
  BY <1>1, <1>2 DEF OneSignal
<1> QED BY <1>3, Invariant, PTL

-------------------------------------------------------------------------------
(***************************************************************************)
(* The list of tasks is a queue.                                           *)
(***************************************************************************)

\* q are the tasks of a list that starts with first and goes on along link.
Linked(q, first, link) ==
    /\ q \in Seq(Tasks)
    /\ \A i, j \in 1..Len(q) : q[i] = q[j] => i = j
    /\ first = IF Len(q) = 0 THEN Null ELSE q[1]
    /\ \A i \in 1..Len(q) : link[q[i]] = IF i < Len(q) THEN q[i + 1] ELSE Null

\* There is memory for every task of a list.
LEMMA LinkedLen ==
    ASSUME NEW q, NEW first, NEW link, Linked(q, first, link)
    PROVE  Cardinality(Tasks) \in Nat /\ Len(q) <= Cardinality(Tasks)
<1>1. q \in Injection(1..Len(q), Tasks)
  BY DEF Linked, Injection, IsInjective
<1>2. Len(q) \in Nat
  BY DEF Linked
<1>3. Cardinality(1..Len(q)) = Len(q)
  <2>1. 1 \in Int /\ Len(q) \in Int /\ (1 > Len(q) => Len(q) = 0)
    BY <1>2
  <2>2. Cardinality(1..Len(q)) = IF 1 > Len(q) THEN 0 ELSE Len(q) - 1 + 1
    BY <2>1, FS_Interval
  <2> QED
    BY <2>1, <2>2
<1>4. IsFiniteSet(Tasks)
  BY AsyncAssumption
<1>5. Cardinality(1..Len(q)) <= Cardinality(Tasks)
  BY <1>1, <1>4, FS_Injection
<1> QED
  BY <1>3, <1>4, <1>5, FS_CardinalityType

\* Following the links finds the tasks of the list, and stops after the last.
LEMMA ListIs ==
    ASSUME NEW q, NEW first, NEW link, Linked(q, first, link)
    PROVE  List(first, link) = q
<1> DEFINE C == Cardinality(Tasks)
           Step(f) == [n \in 0..C |-> IF n = 0 THEN first
                                      ELSE IF f[n - 1] = Null THEN Null ELSE link[f[n - 1]]]
           at == CHOOSE f : f = Step(f)
           g  == [n \in 0..C |-> IF n < Len(q) THEN q[n + 1] ELSE Null]
<1>1. C \in Nat /\ Len(q) \in 0..C /\ q \in Seq(Tasks)
  BY LinkedLen DEF Linked
<1>2. \A i \in 1..Len(q) : q[i] # Null
  BY AsyncAssumption DEF Linked
<1>3. g = Step(g)
  <2>1. \A n \in 0..C : g[n] = Step(g)[n]
    BY <1>1, <1>2 DEF Linked
  <2> QED
    BY <2>1
<1>4. at = Step(at)
  <2> HIDE DEF g, Step
  <2> QED
    BY <1>3
<1> HIDE DEF at
<1>5. \A n \in 0..C : at[n] = g[n]
  <2> DEFINE S == {n \in Nat : n <= C => at[n] = g[n]}
  <2>1. 0 \in S
    <3>1. 0 \in 0..C
      BY <1>1
    <3>2. at[0] = first /\ g[0] = first
      <4> HIDE DEF g
      <4> QED
        BY <1>3, <1>4, <3>1
    <3> QED
      BY <3>2
  <2>2. ASSUME NEW n \in Nat, n \in S PROVE n + 1 \in S
    <3> SUFFICES ASSUME n + 1 <= C PROVE at[n + 1] = g[n + 1]
      OBVIOUS
    <3>1. n \in 0..C /\ n + 1 \in 0..C /\ at[n] = g[n] /\ n + 1 # 0 /\ (n + 1) - 1 = n
      BY <1>1, <2>2
    <3>2. /\ at[n + 1] = IF at[n] = Null THEN Null ELSE link[at[n]]
          /\ g[n + 1] = IF g[n] = Null THEN Null ELSE link[g[n]]
      <4> HIDE DEF g
      <4> QED
        BY <1>3, <1>4, <3>1
    <3> QED
      BY <3>1, <3>2
  <2>3. Nat \subseteq S
    <3> HIDE DEF S
    <3> QED
      BY <2>1, <2>2, NatInductionSet
  <2> QED
    <3> HIDE DEF g
    <3> TAKE n \in 0..C
    <3>1. n \in Nat /\ n <= C
      BY <1>1
    <3>2. n \in S
      BY <2>3, <3>1
    <3> QED
      BY <3>1, <3>2
<1>6. {n \in 0..C : at[n] # Null} = 0..Len(q) - 1
  BY <1>1, <1>2, <1>5
<1>7. Cardinality({n \in 0..C : at[n] # Null}) = Len(q)
  <2>1. 0 \in Int /\ Len(q) - 1 \in Int
    BY <1>1
  <2>2. Cardinality(0..Len(q) - 1) = IF 0 > Len(q) - 1 THEN 0 ELSE (Len(q) - 1) - 0 + 1
    BY <2>1, FS_Interval
  <2>3. Cardinality(0..Len(q) - 1) = Len(q)
    BY <1>1, <2>2
  <2> QED
    BY <1>6, <2>3
<1>8. List(first, link) = [k \in 1..Len(q) |-> at[k - 1]]
  BY <1>7 DEF List, at
<1>9. \A k \in 1..Len(q) : at[k - 1] = q[k]
  BY <1>1, <1>5
<1> QED
  BY <1>1, <1>8, <1>9

\* The list q is between what the threads have made and not appended yet, and the
\* tail they may not have moved yet.
Waiting == {th \in Threads : pc[th] \in {"lock", "append"}}
Moving  == {th \in Threads : pc[th] \in {"signal", "tail", "failed"}}

InMemory(q) == \A i \in 1..Len(q) : q[i] \in allocated

NotListed(q) ==
    \A one \in Waiting : /\ task[one] \in allocated /\ next[task[one]] = Null
                         /\ \A i \in 1..Len(q) : q[i] # task[one]
                         /\ \A other \in Waiting : task[other] = task[one] => other = one

LastMoving(q) ==
    /\ \A one \in Moving : Len(q) # 0 /\ q[Len(q)] = task[one]
    /\ Len(q) # 0 /\ Moving = {} => tail = q[Len(q)]

LinkInv(q) == InMemory(q) /\ NotListed(q) /\ LastMoving(q)

Listed(q) == Linked(q, head, next) /\ LinkInv(q)

\* A list that has a first task is not empty.
LEMMA ListedLen ==
    ASSUME NEW q, Listed(q)
    PROVE  q \in Seq(Tasks) /\ Len(q) \in Nat /\ (Len(q) = 0 <=> head = Null)
  BY AsyncAssumption DEF Listed, Linked

\* A step that leaves the list alone.
LEMMA ListedKept ==
    ASSUME Inv, NEW q, Listed(q), NEW th \in Threads,
           Dispatch(th) \/ Lock(th) \/ Signal(th) \/ SignalFails(th) \/ SetTail(th) \/ Unlock(th)
    PROVE  Listed(q)'
<1> USE DEF Inv
<1>0. q \in Seq(Tasks) /\ Len(q) \in Nat
  BY ListedLen
<1>1. CASE Dispatch(th)
  <2>1. PICK t \in Tasks \ allocated : /\ allocated' = allocated \cup {t}
                                      /\ next' = [next EXCEPT ![t] = Null]
                                      /\ task' = [task EXCEPT ![th] = t]
    BY <1>1 DEF Dispatch
  <2>2. /\ pc[th] = "idle" /\ pc'[th] = "lock"
        /\ \A other \in Threads : other # th => pc'[other] = pc[other]
        /\ head' = head /\ tail' = tail
    BY <1>1, GotoElsewhere DEF Dispatch
  <2>3. Waiting' = Waiting \cup {th} /\ Moving' = Moving
    BY <2>2 DEF Waiting, Moving
  <2>4. \A i \in 1..Len(q) : q[i] \in Tasks /\ q[i] # t
    BY <1>0, <2>1 DEF Listed, LinkInv, InMemory, NotListed, LastMoving
  <2>5. Linked(q, head, next)'
    BY <1>0, <2>1, <2>2, <2>4 DEF Listed, Linked, TypeOK
  <2>6. task'[th] = t /\ next'[t] = Null /\ \A other \in Threads : other # th => task'[other] = task[other]
    BY <2>1 DEF TypeOK
  <2>7. \A other \in Waiting : other # th /\ task'[other] # t /\ next'[task[other]] = next[task[other]]
    BY <2>1, <2>2, <2>6 DEF Listed, LinkInv, InMemory, NotListed, LastMoving, Waiting, TypeOK
  <2>8. \A other \in Moving : other # th
    BY <2>2 DEF Moving
  <2>9. LinkInv(q)'
    <3>1. InMemory(q)'
      BY <2>1 DEF Listed, LinkInv, InMemory
    <3>2. NotListed(q)'
      BY <2>1, <2>3, <2>4, <2>6, <2>7 DEF Listed, LinkInv, NotListed, Waiting
    <3>3. LastMoving(q)'
      BY <2>2, <2>3, <2>6, <2>8 DEF Listed, LinkInv, LastMoving, Moving
    <3> QED
      BY <3>1, <3>2, <3>3 DEF LinkInv
  <2> QED
    BY <2>5, <2>9 DEF Listed
<1>2. CASE Lock(th)
  <2>1. /\ pc[th] = "lock" /\ pc'[th] = "append"
        /\ \A other \in Threads : other # th => pc'[other] = pc[other]
        /\ UNCHANGED <<head, tail, next, allocated, task>>
    BY <1>2, GotoElsewhere DEF Lock
  <2>2. Waiting' = Waiting /\ Moving' = Moving
    BY <2>1 DEF Waiting, Moving
  <2> QED
    BY <2>1, <2>2 DEF Listed, Linked, LinkInv, InMemory, NotListed, LastMoving
<1>3. CASE Signal(th) \/ SignalFails(th)
  <2>1. /\ pc[th] = "signal" /\ pc'[th] \in {"tail", "failed"}
        /\ \A other \in Threads : other # th => pc'[other] = pc[other]
        /\ UNCHANGED <<head, tail, next, allocated, task>>
    BY <1>3, GotoElsewhere DEF Signal, SignalFails
  <2>2. Waiting' = Waiting /\ Moving' = Moving
    BY <2>1 DEF Waiting, Moving
  <2> QED
    BY <2>1, <2>2 DEF Listed, Linked, LinkInv, InMemory, NotListed, LastMoving
<1>4. CASE SetTail(th)
  <2>1. /\ pc[th] = "tail" /\ pc'[th] = "unlock" /\ tail' = task[th]
        /\ \A other \in Threads : other # th => pc'[other] = pc[other]
        /\ UNCHANGED <<head, next, allocated, task>>
    BY <1>4, GotoElsewhere DEF SetTail
  <2>2. th \in Moving /\ \A other \in Moving : other = th
    BY <2>1 DEF Moving, MutexInv, Holding
  <2>3. Waiting' = Waiting /\ Moving' = {}
    BY <2>1, <2>2 DEF Waiting, Moving
  <2> QED
    BY <2>1, <2>2, <2>3 DEF Listed, Linked, LinkInv, InMemory, NotListed, LastMoving
<1>5. CASE Unlock(th)
  <2>1. /\ pc[th] = "unlock" /\ pc'[th] = "idle" /\ task' = [task EXCEPT ![th] = Null]
        /\ \A other \in Threads : other # th => pc'[other] = pc[other]
        /\ UNCHANGED <<head, tail, next, allocated>>
    BY <1>5, GotoElsewhere DEF Unlock
  <2>2. Waiting' = Waiting /\ Moving' = Moving /\ th \notin Waiting /\ th \notin Moving
    BY <2>1 DEF Waiting, Moving
  <2>3. \A other \in Waiting \cup Moving : task'[other] = task[other]
    BY <2>1, <2>2 DEF TypeOK, Waiting, Moving
  <2> QED
    BY <2>1, <2>2, <2>3 DEF Listed, Linked, LinkInv, InMemory, NotListed, LastMoving
<1> QED
  BY <1>1, <1>2, <1>3, <1>4, <1>5

\* A task that is appended goes to the end of the list.
LEMMA ListedAppended ==
    ASSUME Inv, NEW q, Listed(q), NEW th \in Threads, AppendTask(th)
    PROVE  Listed(Append(q, task[th]))'
<1> USE DEF Inv
<1> DEFINE r == Append(q, task[th])
<1>1. q \in Seq(Tasks) /\ Len(q) \in Nat /\ (Len(q) = 0 <=> head = Null)
  BY ListedLen
<1>2. /\ pc[th] = "append" /\ pc'[th] = IF head = Null THEN "signal" ELSE "tail"
      /\ \A other \in Threads : other # th => pc'[other] = pc[other]
      /\ UNCHANGED <<tail, allocated, task>>
  BY GotoElsewhere DEF AppendTask
<1>3. task[th] \in Tasks /\ th \in Waiting
  BY <1>2 DEF TaskInv, Waiting
<1>4. /\ \A i \in 1..Len(q) : q[i] # task[th]
      /\ task[th] \in allocated /\ next[task[th]] = Null
      /\ \A other \in Waiting : task[other] = task[th] => other = th
  BY <1>3 DEF Listed, LinkInv, InMemory, NotListed, LastMoving
<1>5. Waiting' = Waiting \ {th} /\ Moving = {} /\ Moving' = {th}
  BY <1>2 DEF Waiting, Moving, MutexInv, Holding
<1>6. /\ r \in Seq(Tasks) /\ Len(r) = Len(q) + 1 /\ r[Len(r)] = task[th]
      /\ \A i \in 1..Len(q) : r[i] = q[i]
  BY <1>1, <1>3
<1>7. \A i \in 1..Len(r) : i \in 1..Len(q) \/ i = Len(r)
  BY <1>1, <1>6
<1>8. \A i, j \in 1..Len(r) : r[i] = r[j] => i = j
  BY <1>1, <1>4, <1>6, <1>7 DEF Listed, Linked
<1>9. head' = IF Len(r) = 0 THEN Null ELSE r[1]
  BY <1>1, <1>6 DEF AppendTask, Listed, Linked
<1>10. /\ \A i \in 1..Len(r) : next'[r[i]] = IF i < Len(r) THEN r[i + 1] ELSE Null
       /\ \A other \in Waiting : next'[task[other]] = Null
  <2>1. CASE Len(q) = 0
    BY <1>1, <1>4, <1>6, <2>1 DEF AppendTask, Listed, LinkInv, InMemory, NotListed, LastMoving
  <2>2. CASE Len(q) # 0
    <3>1. tail = q[Len(q)] /\ next' = [next EXCEPT ![tail] = task[th]] /\ Len(q) \in 1..Len(q)
      BY <1>1, <1>2, <1>5, <2>2 DEF AppendTask, Listed, LinkInv, InMemory, NotListed, LastMoving
    <3>2. ASSUME NEW i \in 1..Len(r) PROVE next'[r[i]] = IF i < Len(r) THEN r[i + 1] ELSE Null
      <4>1. CASE i = Len(r)
        <5>1. r[i] # tail /\ next[r[i]] = Null /\ r[i] \in Tasks
          BY <1>3, <1>4, <1>6, <3>1, <4>1
        <5> QED
          BY <1>1, <1>6, <3>1, <4>1, <5>1 DEF TypeOK
      <4>2. CASE i = Len(q)
        <5>1. r[i] = tail /\ tail \in Tasks /\ i < Len(r) /\ i + 1 = Len(r)
          BY <1>1, <1>6, <3>1, <4>2
        <5> QED
          BY <1>6, <3>1, <5>1 DEF TypeOK
      <4>3. CASE i < Len(q)
        <5>1. i \in 1..Len(q) /\ i + 1 \in 1..Len(q) /\ r[i] = q[i] /\ r[i + 1] = q[i + 1]
          BY <1>1, <1>6, <4>3
        <5>2. q[i] # tail /\ next[q[i]] = q[i + 1]
          BY <1>1, <3>1, <4>3, <5>1 DEF Listed, Linked
        <5> QED
          BY <1>1, <1>6, <3>1, <4>3, <5>1, <5>2 DEF TypeOK
      <4> QED
        BY <1>1, <1>6, <4>1, <4>2, <4>3
    <3>3. ASSUME NEW other \in Waiting PROVE next'[task[other]] = Null
      BY <3>1 DEF Listed, LinkInv, InMemory, NotListed, LastMoving, TypeOK
    <3> QED
      BY <3>2, <3>3
  <2> QED
    BY <2>1, <2>2
<1>11. Linked(r, head', next')
  <2> HIDE DEF r
  <2> QED
    BY <1>6, <1>8, <1>9, <1>10 DEF Linked
<1>12. LinkInv(r)'
  <2>0. r' = r
    BY <1>2
  <2>1. (\A i \in 1..Len(r) : r[i] \in allocated)'
    BY <1>2, <1>4, <1>6, <1>7, <2>0 DEF Listed, LinkInv, InMemory, NotListed, LastMoving
  <2>2. \A x \in Waiting' :
          /\ task[x] \in allocated /\ next'[task[x]] = Null
          /\ \A i \in 1..Len(r) : r[i] # task[x]
          /\ \A other \in Waiting' : task[other] = task[x] => other = x
    <3> TAKE x \in Waiting'
    <3>1. x \in Waiting /\ x # th
      BY <1>5
    <3>2. task[x] # task[th]
      BY <1>4, <3>1
    <3>3. \A i \in 1..Len(r) : r[i] # task[x]
      BY <1>6, <1>7, <3>1, <3>2 DEF Listed, LinkInv, InMemory, NotListed, LastMoving
    <3> QED
      BY <1>5, <1>10, <3>1, <3>3 DEF Listed, LinkInv, InMemory, NotListed, LastMoving
  <2>3. \A x \in Moving' : Len(r) # 0 /\ r[Len(r)] = task[x]
    BY <1>1, <1>5, <1>6
  <2>4. ~ (Moving' = {})
    BY <1>5
  <2> HIDE DEF r
  <2> QED
    BY <1>2, <2>0, <2>1, <2>2, <2>3, <2>4 DEF LinkInv, InMemory, NotListed, LastMoving
<1>13. Linked(r, head, next)'
  BY <1>2, <1>11
<1> QED
  BY <1>12, <1>13 DEF Listed

\* A task that runs is the first of the list.
LEMMA ListedRun ==
    ASSUME Inv, NEW q, Listed(q), Run
    PROVE  q # <<>> /\ Listed(Tail(q))'
<1> USE DEF Inv
<1> DEFINE r == Tail(q)
<1>1. q \in Seq(Tasks) /\ Len(q) \in Nat /\ Len(q) # 0
  BY ListedLen DEF Run
<1>2. /\ head = q[1] /\ head' = next[head] /\ allocated' = allocated \ {head}
      /\ pc[Background] = "run" /\ UNCHANGED <<tail, next, task>>
  BY <1>1 DEF Run, Goto, Listed, Linked
<1>3. \A th \in Threads : pc'[th] = pc[th]
  BY GotoElsewhere, AsyncAssumption DEF Run
<1>4. Waiting' = Waiting /\ Moving' = Moving /\ Moving = {}
  BY <1>2, <1>3, AsyncAssumption DEF Waiting, Moving, MutexInv, Holding
<1>5. /\ r \in Seq(Tasks) /\ Len(r) = Len(q) - 1
      /\ \A i \in 1..Len(r) : r[i] = q[i + 1] /\ i + 1 \in 1..Len(q)
  BY <1>1
<1>6. \A i, j \in 1..Len(r) : r[i] = r[j] => i = j
  BY <1>1, <1>5 DEF Listed, Linked
<1>7. head' = IF Len(r) = 0 THEN Null ELSE r[1]
  <2>1. 1 \in 1..Len(q) /\ head' = IF 1 < Len(q) THEN q[2] ELSE Null
    BY <1>1, <1>2 DEF Listed, Linked
  <2> QED
    BY <1>1, <1>5, <2>1
<1>8. \A i \in 1..Len(r) : next[r[i]] = IF i < Len(r) THEN r[i + 1] ELSE Null
  <2> TAKE i \in 1..Len(r)
  <2>1. r[i] = q[i + 1] /\ i + 1 \in 1..Len(q)
    BY <1>5
  <2>2. next[q[i + 1]] = IF i + 1 < Len(q) THEN q[i + 2] ELSE Null
    BY <1>1, <2>1 DEF Listed, Linked
  <2>3. i < Len(r) => r[i + 1] = q[i + 2]
    BY <1>1, <1>5
  <2> QED
    BY <1>1, <1>5, <2>1, <2>2, <2>3
<1>9. Linked(r, head', next)
  <2> HIDE DEF r
  <2> QED
    BY <1>5, <1>6, <1>7, <1>8 DEF Linked
<1>10. LinkInv(r)'
  <2>1. \A i \in 1..Len(r) : r[i] \in allocated'
    <3> TAKE i \in 1..Len(r)
    <3>1. r[i] = q[i + 1] /\ i + 1 \in 1..Len(q) /\ 1 \in 1..Len(q) /\ i + 1 # 1
      BY <1>1, <1>5
    <3>2. q[i + 1] # q[1]
      BY <3>1 DEF Listed, Linked
    <3> QED
      BY <1>2, <3>1, <3>2 DEF Listed, LinkInv, InMemory, NotListed, LastMoving
  <2>2. \A x \in Waiting :
          /\ task[x] \in allocated' /\ next[task[x]] = Null
          /\ \A i \in 1..Len(r) : r[i] # task[x]
          /\ \A other \in Waiting : task[other] = task[x] => other = x
    BY <1>1, <1>2, <1>5 DEF Listed, LinkInv, InMemory, NotListed, LastMoving
  <2>3. Len(r) # 0 => tail = r[Len(r)]
    BY <1>1, <1>4, <1>5 DEF Listed, LinkInv, InMemory, NotListed, LastMoving
  <2> HIDE DEF r
  <2> QED
    BY <1>2, <1>4, <2>1, <2>2, <2>3 DEF LinkInv, InMemory, NotListed, LastMoving
<1>11. q # <<>>
  BY <1>1
<1> QED
  BY <1>2, <1>9, <1>10, <1>11 DEF Listed

\* The other steps of the background thread leave the list alone.
LEMMA ListedInBackground ==
    ASSUME Inv, NEW q, Listed(q), Read \/ LockList \/ UnlockList
    PROVE  Listed(q)'
<1>1. \A th \in Threads : pc'[th] = pc[th]
  BY GotoElsewhere, AsyncAssumption DEF Inv, Read, LockList, UnlockList
<1>2. UNCHANGED <<head, tail, next, allocated, task>>
  BY DEF Read, LockList, UnlockList
<1>3. Waiting' = Waiting /\ Moving' = Moving
  BY <1>1 DEF Waiting, Moving
<1> QED
  BY <1>2, <1>3 DEF Listed, Linked, LinkInv, InMemory, NotListed, LastMoving

\* What a step does to the list is what a step of the queue does, or nothing.
LEMMA ListedNext ==
    ASSUME Inv, NEW q, Listed(q), [Next]_vars
    PROVE  \E r : Listed(r)' /\ (r = q \/ (q # <<>> /\ r = Tail(q))
                                \/ \E t \in Tasks : r = Append(q, t))
<1>1. CASE UNCHANGED vars
  <2>1. Listed(q)'
    BY <1>1 DEF Listed, Linked, LinkInv, InMemory, NotListed, LastMoving, Waiting, Moving, vars
  <2> QED
    BY <2>1
<1>2. CASE Read \/ LockList \/ UnlockList
  BY <1>2, ListedInBackground
<1>3. CASE Run
  BY <1>3, ListedRun
<1>4. ASSUME NEW th \in Threads, AppendTask(th) PROVE \E t \in Tasks : Listed(Append(q, t))'
  <2>1. Listed(Append(q, task[th]))' /\ task' = task
    BY <1>4, ListedAppended DEF AppendTask
  <2>2. pc[th] # "idle"
    BY <1>4 DEF AppendTask, Goto
  <2>3. task[th] \in Tasks
    BY <2>2 DEF Inv, TaskInv
  <2> QED
    BY <2>1, <2>3
<1>5. ASSUME NEW th \in Threads,
             Dispatch(th) \/ Lock(th) \/ Signal(th) \/ SignalFails(th) \/ SetTail(th) \/ Unlock(th)
      PROVE  Listed(q)'
  BY <1>5, ListedKept
<1> QED
  BY <1>1, <1>2, <1>3, <1>4, <1>5 DEF Next

\* The linked list that async_dispatch() and async_process() keep is a queue: tasks
\* run once each, in the order they were dispatched in.
THEOREM ImplementsTaskQueueThm == Spec => ImplementsTaskQueue
<1> DEFINE LInv == Inv /\ \E q : Listed(q)
<1>1. Init => LInv /\ Queue!Init
  <2> SUFFICES ASSUME Init PROVE LInv /\ Queue!Init
    OBVIOUS
  <2>1. Listed(<<>>)
    BY AsyncAssumption DEF Init, Listed, Linked, LinkInv, InMemory, NotListed, LastMoving, Waiting, Moving
  <2>2. Chain = <<>>
    BY <2>1, ListIs DEF Listed, Chain
  <2> QED
    BY <2>1, <2>2, InitInv DEF Queue!Init
<1>2. LInv /\ [Next]_vars => LInv' /\ [Queue!Next]_Chain
  <2> SUFFICES ASSUME LInv, [Next]_vars PROVE LInv' /\ [Queue!Next]_Chain
    OBVIOUS
  <2>1. Inv'
    BY InvStep
  <2>2. PICK q : Listed(q)
    OBVIOUS
  <2>3. PICK r : Listed(r)' /\ (r = q \/ (q # <<>> /\ r = Tail(q))
                                \/ \E t \in Tasks : r = Append(q, t))
    BY <2>2, ListedNext
  <2>4. Chain = q
    BY <2>2, ListIs DEF Listed, Chain
  <2>5. Chain' = r
    BY <2>3, ListIs DEF Listed, Chain
  <2> QED
    BY <2>1, <2>3, <2>4, <2>5 DEF Queue!Next, Queue!Run, Queue!Dispatch
<1> QED
  BY <1>1, <1>2, PTL DEF Spec, ImplementsTaskQueue, Queue!Spec

===============================================================================

--------------------------- MODULE SharedParameters ---------------------------
(***************************************************************************)
(* What the proxy's cache promises, without packets, ids, acknowledgements *)
(* or bytes: one store of parameters that clients change and follow.       *)
(*                                                                         *)
(* Each request a client makes takes effect at most once, in the order the *)
(* client made them, and all of one request at a time.  Every client that  *)
(* joined is told the whole store and then each change of it, by whoever,  *)
(* in the order the changes were made.                                     *)
(***************************************************************************)
EXTENDS Integers, SequencesExt

CONSTANTS
    Clients,
    Parameters,
    Initial,          \* the value of each parameter at first: a sequence of numbers
    Modulus,          \* how many values each parameter's numbers have
    Values,           \* the values each parameter may have
    Parts             \* the store is told in parts: a sequence of sets of parameters

VARIABLES
    store,
    joined,           \* clients that are told of changes
    requests,         \* what a client asked for that did not take effect: sequences
    news,             \* what a client is still to be told: sequences of partial stores
    views             \* what a client was told

vars == <<store, joined, requests, news, views>>

Init ==
    /\ store = Initial
    /\ joined = {}
    /\ requests = [c \in Clients |-> <<>>]
    /\ news = [c \in Clients |-> <<>>]
    /\ views = [c \in Clients |-> [p \in {} |-> <<>>]]

\* A change sets a parameter to the values, or adds them to its first numbers; or it
\* leads to some value that the parameter may have.
NewValues(value, change) ==
    CASE change.how = "set"  -> {change.values}
      [] change.how = "add"  -> {[k \in DOMAIN value |->
                                    IF k \in DOMAIN change.values
                                    THEN (value[k] + change.values[k]) % Modulus[change.parameter]
                                    ELSE value[k]]}
      [] change.how = "some" -> Values[change.parameter]

Join(c) ==
    /\ c \notin joined
    /\ joined' = joined \cup {c}
    /\ news' = [news EXCEPT ![c] = [k \in DOMAIN Parts |-> Restrict(store, Parts[k])]]
    /\ UNCHANGED <<store, requests, views>>

\* A client that leaves is told nothing more, and what it still asks for is lost.
Leave(c) ==
    /\ joined' = joined \ {c}
    /\ news' = [news EXCEPT ![c] = <<>>]
    /\ views' = [views EXCEPT ![c] = [p \in {} |-> <<>>]]
    /\ requests' = [requests EXCEPT ![c] = <<>>]
    /\ UNCHANGED store

\* Any request.
Request(c) ==
    /\ requests'[c] # <<>>
    /\ requests' = [requests EXCEPT ![c] = Append(@, Last(requests'[c]))]
    /\ UNCHANGED <<store, joined, news, views>>

\* What one change may make of s = [store, told]: the store, and what is told of its
\* changes so far.  how is "none" where a request has no effect.
Changed(s, change) ==
    IF change.how = "none" THEN {s}
    ELSE {[store |-> [s.store EXCEPT ![change.parameter] = value],
           told  |-> Append(s.told, [p \in {change.parameter} |-> value])] :
             value \in NewValues(s.store[change.parameter], change)}

\* What the changes of one request may lead to, one after the other.
Effects(changes) ==
    LET after[k \in 0..Len(changes)] ==
            IF k = 0 THEN {[store |-> store, told |-> <<>>]}
            ELSE UNION {Changed(s, changes[k]) : s \in after[k - 1]}
    IN  after[Len(changes)]

\* The store changes, and everybody is told of it.
Apply(effect) ==
    /\ store' = effect.store
    /\ news' = [d \in Clients |-> IF d \in joined THEN news[d] \o effect.told ELSE news[d]]

\* The first request of a client takes effect.
TakeEffect(c) ==
    /\ requests[c] # <<>>
    /\ \E effect \in Effects(Head(requests[c])) : Apply(effect)
    /\ requests' = [requests EXCEPT ![c] = Tail(@)]
    /\ UNCHANGED <<joined, views>>

\* What a client knows after it was told a part of the store.
After(view, part) ==
    [p \in DOMAIN view \cup DOMAIN part |->
        IF p \in DOMAIN part THEN part[p] ELSE view[p]]

Tell(c) ==
    /\ news[c] # <<>>
    /\ views' = [views EXCEPT ![c] = After(@, Head(news[c]))]
    /\ news' = [news EXCEPT ![c] = Tail(@)]
    /\ UNCHANGED <<store, joined, requests>>

Next ==
    \E c \in Clients :
        \/ Join(c) \/ Leave(c)
        \/ Request(c) \/ TakeEffect(c) \/ Tell(c)

Spec == Init /\ [][Next]_vars

===============================================================================

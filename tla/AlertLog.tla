------------------------------ MODULE AlertLog ------------------------------
(***************************************************************************)
(* What the alert evaluator promises about its journal: for each key (one  *)
(* rule applied to one host) the log reads fired, resolved, fired, ...     *)
(* Deleting a host removes the events of its keys, and a key that is       *)
(* removed starts again with a fired.  Nothing is said of when an alert    *)
(* fires; a restart of the hub is a stuttering step.                       *)
(***************************************************************************)
EXTENDS Integers

CONSTANTS Keys,
          Ids     \* the ids a row of the log may have

VARIABLE log   \* the journal: records with a key and a kind, by row id

\* A key is open when its last event is a fired.
Open(k) ==
  \E i \in DOMAIN log : /\ log[i] = [key |-> k, kind |-> "fired"]
                        /\ \A j \in DOMAIN log : log[j].key = k => j <= i

Init == log = <<>>

\* An event is added after all the others.
Add(e) ==
  \E i \in Ids : /\ \A j \in DOMAIN log : j < i
                 /\ log' = [j \in DOMAIN log \cup {i} |-> IF j = i THEN e ELSE log[j]]

Fire(k) == ~Open(k) /\ Add([key |-> k, kind |-> "fired"])

Resolve(k) == Open(k) /\ Add([key |-> k, kind |-> "resolved"])

Remove(K) == log' = [i \in {j \in DOMAIN log : log[j].key \notin K} |-> log[i]]

Next == \/ \E k \in Keys : Fire(k) \/ Resolve(k)
        \/ \E K \in SUBSET Keys : Remove(K)

Spec == Init /\ [][Next]_log
=============================================================================

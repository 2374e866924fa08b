----------------------------- MODULE Semaphore -----------------------------
(***************************************************************************)
(* What a concurrency gate promises its callers: per key, a set of         *)
(* holders; a caller is admitted only while fewer than the limit it names  *)
(* hold the key, and leaves at most once.  The limit is an argument of     *)
(* each call, because both gates of the program pass the row's             *)
(* max_concurrent, which an administrator may change while leases are out. *)
(* Concurrency and Forwarder implement this specification.                 *)
(***************************************************************************)
EXTENDS Integers, FiniteSets

CONSTANTS Keys,    \* what is gated: client ids or API key ids
          Holders, \* identities of the admitted callers
          Limits   \* the limits a caller may name

VARIABLE holders   \* holders[k]: who is inside the gate of k

Init == holders = [k \in Keys |-> {}]

\* h is inside some gate.
Inside(h) == \E k \in Keys : h \in holders[k]

Admit(k, h, m) ==
    /\ ~Inside(h)
    /\ Cardinality(holders[k]) < m
    /\ holders' = [holders EXCEPT ![k] = @ \cup {h}]

Leave(k, h) ==
    /\ h \in holders[k]
    /\ holders' = [holders EXCEPT ![k] = @ \ {h}]

Next == \E k \in Keys, h \in Holders :
            \/ \E m \in Limits : Admit(k, h, m)
            \/ Leave(k, h)

Spec == Init /\ [][Next]_holders
=============================================================================

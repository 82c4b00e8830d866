----------------------------- MODULE EventFeed -----------------------------
(* What a live connection promises the archive about the events Discord    *)
(* publishes: each one meets its fate once, and in the order they were     *)
(* published.  An event may be refused by the handler, be unreadable, or    *)
(* fall between two sessions; it is never handled twice or out of turn.    *)
EXTENDS Naturals

CONSTANT MaxEvents      \* bound: how many events are published

VARIABLES published,    \* events are numbered in the order of publication
          fate          \* of each event

Fates == {"pending", "handled", "refused", "unreadable", "missed"}
Events == 1..MaxEvents

Init == published = 0 /\ fate = [e \in Events |-> "pending"]

Publish ==
  /\ published < MaxEvents
  /\ published' = published + 1
  /\ UNCHANGED fate

Settle(e) ==
  /\ e <= published /\ fate[e] = "pending"
  /\ \A d \in Events : d < e => fate[d] # "pending"
  /\ \E f \in Fates \ {"pending"} : fate' = [fate EXCEPT ![e] = f]
  /\ UNCHANGED published

\* A new session begins: what the old one did not deliver is not sent again.
MissTheRest ==
  /\ fate' = [e \in Events |-> IF e <= published /\ fate[e] = "pending" THEN "missed" ELSE fate[e]]
  /\ UNCHANGED published

Next == Publish \/ MissTheRest \/ \E e \in Events : Settle(e)

Spec == Init /\ [][Next]_<<published, fate>>
=============================================================================

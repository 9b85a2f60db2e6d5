---------------------------- MODULE AbstractFeed ----------------------------
(***************************************************************************)
(* What the change feed promises a consumer: the changes of one vendor     *)
(* form one sequence, and every consumer receives that sequence from its   *)
(* start, in order, without a gap or a repetition, and to its end.         *)
(***************************************************************************)
EXTENDS Naturals, Sequences

CONSTANTS Changes, Consumers

VARIABLES
  changes,  \* the changes recorded so far, oldest first
  received  \* what each consumer has received, in order

vars == <<changes, received>>

Init ==
  /\ changes = <<>>
  /\ received = [c \in Consumers |-> <<>>]

Record(id) ==
  /\ changes' = Append(changes, id)
  /\ UNCHANGED received

Deliver(c) ==
  /\ Len(received[c]) < Len(changes)
  /\ received' = [received EXCEPT ![c] = Append(@, changes[Len(@) + 1])]
  /\ UNCHANGED changes

Next ==
  \/ \E id \in Changes : Record(id)
  \/ \E c \in Consumers : Deliver(c)

(* What never happens, and with it what always happens in the end. *)
Safety == Init /\ [][Next]_vars

Spec == Safety /\ \A c \in Consumers : WF_vars(Deliver(c))
=============================================================================

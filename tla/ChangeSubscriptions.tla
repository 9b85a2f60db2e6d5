------------------------- MODULE ChangeSubscriptions -------------------------
(***************************************************************************)
(* The third way to follow a vendor's change log: webhook subscriptions.   *)
(* A consumer registers an endpoint with its access key; some of the calls *)
(* that record a change leave a task behind, which runs after the answer,  *)
(* in a thread and a session of its own, and posts one change to every     *)
(* active subscription.  Nothing orders two tasks, and a process that      *)
(* stops takes its tasks along.                                            *)
(*                                                                         *)
(* The numbering of the log is ChangeFeed's subject: here change n is the  *)
(* n-th recorded.                                                          *)
(***************************************************************************)
EXTENDS Naturals, Sequences

CONSTANTS
  Subs,        \* bound: subscriptions ever created
  Keys,        \* access keys with the attestations scope
  OscalModels,      \* the OSCAL models
  Events,      \* the model sets a change may invalidate, a row of EVENT_MODELS each
  Filters,     \* model lists a subscription may name
  Tasks,       \* slots for concurrent tasks
  MaxRecorded,  \* bound: changes ever recorded
  MaxStops,    \* bound: tasks lost with their process
  MaxFailures  \* failures in a row that suspend a subscription, 10 in the code

ASSUME FanOutBounds == MaxRecorded \in Nat /\ MaxStops \in Nat
ASSUME MaxFailuresAssumption == MaxFailures \in Nat \ {0}
ASSUME ModelsAssumption == Events \subseteq SUBSET OscalModels /\ Filters \subseteq SUBSET OscalModels

VARIABLES
  changes,  \* table oscal_changes: the models each change invalidates
  live,     \* keys neither revoked nor expired
  subs,     \* table oscal_subscriptions, and the rows about to be inserted
  task,     \* fan-out tasks scheduled or running
  stops,    \* tasks lost so far
  tried,    \* history: pairs of a subscription and a change posted to it
  heard,    \* history: the pairs that reached the endpoint
  failed    \* history: deliveries to a subscription reported as failed

fanOutVars == <<changes, live, subs, task, stops, tried, heard, failed>>

SubRows ==
  [state : {"none", "opening", "active", "suspended", "deleted"},
   key : SUBSET Keys, models : SUBSET OscalModels, since : Nat, cursor : Nat, failures : Nat]

NoSub == [state |-> "none", key |-> {}, models |-> {}, since |-> 0, cursor |-> 0, failures |-> 0]

(***************************************************************************)
(* A task: the change it is to post (0: the newest when it starts), the    *)
(* subscriptions it has yet to post it to, the rows as it loaded them, and *)
(* what deliver_change returned for each.                                  *)
(***************************************************************************)
Results == {"none", "ok", "failed"}
TaskRecords ==
  [pc : {"idle", "scheduled", "running"}, change : Nat, todo : SUBSET Subs,
   loaded : [Subs -> SubRows], result : [Subs -> Results]]

NoTask ==
  [pc |-> "idle", change |-> 0, todo |-> {},
   loaded |-> [s \in Subs |-> NoSub], result |-> [s \in Subs |-> "none"]]

FanOutInit ==
  /\ changes = <<>>
  /\ live = Keys
  /\ subs = [s \in Subs |-> NoSub]
  /\ task = [t \in Tasks |-> NoTask]
  /\ stops = 0
  /\ tried = {}
  /\ heard = {}
  /\ failed = [s \in Subs |-> 0]

-----------------------------------------------------------------------------
(* A management endpoint records a change, and leaves no task. *)
Record(m) ==
  /\ Len(changes) < MaxRecorded
  /\ changes' = Append(changes, m)
  /\ UNCHANGED <<live, subs, task, stops, tried, heard, failed>>

(* An import, a Drive sync or the publication of a Drive file records one  *)
(* and leaves a task: for the change it recorded, or for the newest.       *)
Schedule(t, n) == task' = [task EXCEPT ![t] = [NoTask EXCEPT !.pc = "scheduled", !.change = n]]

RecordImport(t, m) ==
  /\ task[t].pc = "idle"
  /\ Len(changes) < MaxRecorded
  /\ changes' = Append(changes, m)
  /\ Schedule(t, Len(changes) + 1)
  /\ UNCHANGED <<live, subs, stops, tried, heard, failed>>

RecordDrive(t, m) ==
  /\ task[t].pc = "idle"
  /\ Len(changes) < MaxRecorded
  /\ changes' = Append(changes, m)
  /\ Schedule(t, 0)
  /\ UNCHANGED <<live, subs, stops, tried, heard, failed>>

-----------------------------------------------------------------------------
(* create_subscription: the key authenticates, the newest number is read ... *)
OpenSubscription(s, k, filter) ==
  /\ subs[s].state = "none"
  /\ k \in live
  /\ subs' = [subs EXCEPT ![s] =
       [state |-> "opening", key |-> {k}, models |-> filter,
        since |-> Len(changes), cursor |-> Len(changes), failures |-> 0]]
  /\ UNCHANGED <<changes, live, task, stops, tried, heard, failed>>

(* ... and the row is inserted. *)
CommitSubscription(s) ==
  /\ subs[s].state = "opening"
  /\ subs' = [subs EXCEPT ![s].state = "active"]
  /\ UNCHANGED <<changes, live, task, stops, tried, heard, failed>>

(* delete_subscription, with the key the subscription was created with. *)
DeleteSubscription(s) ==
  /\ subs[s].state \in {"active", "suspended"}
  /\ subs[s].key \subseteq live
  /\ subs' = [subs EXCEPT ![s].state = "deleted"]
  /\ UNCHANGED <<changes, live, task, stops, tried, heard, failed>>

(* revoke_key, or the key's expiry: no subscription is touched. *)
CutKey(k) ==
  /\ live' = live \ {k}
  /\ UNCHANGED <<changes, subs, task, stops, tried, heard, failed>>

-----------------------------------------------------------------------------
CaresAbout(s, m) == subs[s].models = {} \/ subs[s].models \cap m # {}

(* fan_out loads the active subscriptions; those that filter the change    *)
(* out it passes over.                                                     *)
StartFanOut(t) ==
  LET n == IF task[t].change = 0 THEN Len(changes) ELSE task[t].change IN
  /\ task[t].pc = "scheduled"
  /\ task' = [task EXCEPT ![t] =
       [NoTask EXCEPT !.pc = "running", !.change = n, !.loaded = subs,
                      !.todo = {s \in Subs : subs[s].state = "active" /\ CaresAbout(s, changes[n])}]]
  /\ UNCHANGED <<changes, live, subs, stops, tried, heard, failed>>

(***************************************************************************)
(* deliver_change: three attempts behind one answer.  An endpoint may have *)
(* received the change although every attempt timed out.                   *)
(***************************************************************************)
Posted(t, s, result) ==
  /\ task[t].pc = "running"
  /\ s \in task[t].todo
  /\ task' = [task EXCEPT ![t].todo = @ \ {s}, ![t].result[s] = result]
  /\ tried' = tried \cup {<<s, task[t].change>>}

DeliverOk(t, s) ==
  /\ Posted(t, s, "ok")
  /\ heard' = heard \cup {<<s, task[t].change>>}
  /\ UNCHANGED <<changes, live, subs, stops, failed>>

(* Mutant of DeliverFails: the failure ends the loop over subscriptions. *)
DeliverFailsForAll(t, s) ==
  /\ task[t].pc = "running"
  /\ s \in task[t].todo
  /\ task' = [task EXCEPT ![t].todo = {}, ![t].result[s] = "failed"]
  /\ tried' = tried \cup {<<s, task[t].change>>}
  /\ heard' = heard
  /\ failed' = [failed EXCEPT ![s] = @ + 1]
  /\ UNCHANGED <<changes, live, subs, stops>>

DeliverFails(t, s) ==
  /\ Posted(t, s, "failed")
  /\ heard' \in {heard, heard \cup {<<s, task[t].change>>}}
  /\ failed' = [failed EXCEPT ![s] = @ + 1]
  /\ UNCHANGED <<changes, live, subs, stops>>

-----------------------------------------------------------------------------
(* Mutant of TooMany: one failure too early. *)
TooManySoon(failures) == failures + 1 >= MaxFailures

TooMany(failures) == failures >= MaxFailures

(* A column is written if its value differs from the one loaded. *)
Written(old, new, current) == IF new = old THEN current ELSE new

(* Mutants of the two: the cursor follows failed deliveries; the state is  *)
(* written as it was loaded.                                               *)
AfterFailureMoved(row, seen, n) ==
  [row EXCEPT !.failures = seen.failures + 1, !.cursor = n,
              !.state = IF TooMany(seen.failures + 1) THEN "suspended" ELSE @]

AfterSuccessWhole(row, seen, n) ==
  [row EXCEPT !.failures = 0, !.cursor = n, !.state = seen.state]

(* What a task's commit writes to a row it loaded as seen. *)
AfterSuccess(row, seen, n) ==
  [row EXCEPT !.failures = Written(seen.failures, 0, @),
              !.cursor = Written(seen.cursor, n, @)]

AfterFailure(row, seen, n) ==
  [row EXCEPT !.failures = seen.failures + 1,
              !.state = IF TooMany(seen.failures + 1) THEN "suspended" ELSE @]

(* One commit ends the task.  If a subscription it posted to was deleted   *)
(* meanwhile, its update matches no row and nothing at all is written.     *)
Handled(t) == {s \in Subs : task[t].result[s] # "none"}

CommitFanOut(t) ==
  /\ task[t].pc = "running"
  /\ task[t].todo = {}
  /\ \A s \in Handled(t) : subs[s].state # "deleted"
  /\ subs' = [s \in Subs |->
       CASE task[t].result[s] = "none"   -> subs[s]
         [] task[t].result[s] = "ok"     -> AfterSuccess(subs[s], task[t].loaded[s], task[t].change)
         [] task[t].result[s] = "failed" -> AfterFailure(subs[s], task[t].loaded[s], task[t].change)]
  /\ task' = [task EXCEPT ![t] = NoTask]
  /\ UNCHANGED <<changes, live, stops, tried, heard, failed>>

FailFanOut(t) ==
  /\ task[t].pc = "running"
  /\ task[t].todo = {}
  /\ \E s \in Handled(t) : subs[s].state = "deleted"
  /\ task' = [task EXCEPT ![t] = NoTask]
  /\ UNCHANGED <<changes, live, subs, stops, tried, heard, failed>>

(* The process stops, and its task is gone. *)
LoseTask(t) ==
  /\ task[t].pc # "idle"
  /\ stops < MaxStops
  /\ stops' = stops + 1
  /\ task' = [task EXCEPT ![t] = NoTask]
  /\ UNCHANGED <<changes, live, subs, tried, heard, failed>>

-----------------------------------------------------------------------------
Deliver(t, s) == DeliverOk(t, s) \/ DeliverFails(t, s)
RunTask(t) ==
  \/ StartFanOut(t) \/ CommitFanOut(t) \/ FailFanOut(t)
  \/ \E s \in Subs : Deliver(t, s)

FanOutNext ==
  \/ \E m \in Events :
       Record(m) \/ \E t \in Tasks : RecordImport(t, m) \/ RecordDrive(t, m)
  \/ \E s \in Subs, k \in Keys, filter \in Filters : OpenSubscription(s, k, filter)
  \/ \E s \in Subs : CommitSubscription(s) \/ DeleteSubscription(s)
  \/ \E k \in Keys : CutKey(k)
  \/ \E t \in Tasks : RunTask(t) \/ LoseTask(t)

FanOutSpec == FanOutInit /\ [][FanOutNext]_fanOutVars

-----------------------------------------------------------------------------
(* The tables, the tasks and the histories hold values of their type. *)
FanOutTypeOK ==
  /\ changes \in Seq(Events) /\ Len(changes) <= MaxRecorded
  /\ live \subseteq Keys
  /\ subs \in [Subs -> SubRows]
  /\ task \in [Tasks -> TaskRecords]
  /\ stops \in Nat
  /\ tried \subseteq Subs \X Nat
  /\ heard \subseteq Subs \X Nat
  /\ failed \in [Subs -> Nat]

(***************************************************************************)
(* A subscription is suspended only after MaxFailures failed deliveries    *)
(* (feed.py:279-281, 307-309), although overlapping tasks overwrite each   *)
(* other's count: the count errs on the subscriber's side only.            *)
(***************************************************************************)
SuspensionWasEarned ==
  \A s \in Subs : subs[s].state = "suspended" => failed[s] >= MaxFailures

(***************************************************************************)
(* last_cursor never names a change the endpoint did not receive           *)
(* (feed.py:302-305): it is where the subscription began or the number of  *)
(* a delivered change, whichever task committed last.                      *)
(***************************************************************************)
CursorWasHeard ==
  \A s \in Subs : subs[s].cursor = subs[s].since \/ <<s, subs[s].cursor>> \in heard

(***************************************************************************)
(* A suspended subscription stays suspended (feed.py:309): a task that     *)
(* loaded it while it was active, and delivers, does not bring it back.    *)
(***************************************************************************)
SuspensionIsFinal ==
  [][\A s \in Subs : subs[s].state = "suspended" =>
       subs'[s].state \in {"suspended", "deleted"}]_fanOutVars

(***************************************************************************)
(* "Deliver a change to every live subscription that cares about it"       *)
(* (feed.py:277): a task that ends, other than with its process, has       *)
(* posted its change to every subscription it loaded as active and that    *)
(* does not filter the change out: an endpoint that fails, or a            *)
(* subscription that another task suspends or its owner deletes meanwhile, *)
(* keeps no other from being posted to.                                    *)
(***************************************************************************)
TaskReachesAll ==
  [][\A t \in Tasks :
       task[t].pc = "running" /\ task'[t].pc = "idle" /\ stops' = stops =>
         \A s \in Subs :
           task[t].loaded[s].state = "active" /\ CaresAbout(s, changes[task[t].change])
             => <<s, task[t].change>> \in tried]_fanOutVars

(***************************************************************************)
(* "revoking or expiring the key stops delivery" (oscal.py:227-229).  The  *)
(* code breaks it: a fan-out looks at the subscription's status only, and  *)
(* nothing sets that when a key is cut.                                    *)
(***************************************************************************)
CutKeyStopsDelivery ==
  [][\A s \in Subs, n \in 1 .. MaxRecorded :
       <<s, n>> \in tried' \ tried => subs[s].key \subseteq live]_fanOutVars
-----------------------------------------------------------------------------
(***************************************************************************)
(* The inductive invariant: a count never exceeds the deliveries that      *)
(* failed, in the table or in what a task loaded, and what a task holds as *)
(* delivered was heard.                                                    *)
(***************************************************************************)
CountsInv ==
  \A s \in Subs :
    /\ subs[s].failures <= failed[s]
    /\ \A t \in Tasks :
         /\ task[t].loaded[s].failures <= failed[s]
         /\ task[t].result[s] = "failed" => task[t].loaded[s].failures < failed[s]
         /\ task[t].result[s] = "ok" => <<s, task[t].change>> \in heard

FanOutInv == FanOutTypeOK /\ SuspensionWasEarned /\ CursorWasHeard /\ CountsInv
=============================================================================

----------------------------- MODULE ChangeFeed -----------------------------
(***************************************************************************)
(* The change log of one vendor and its readers: management calls record   *)
(* changes, consumers follow the log by polling or over an event stream.   *)
(*                                                                         *)
(* A management call commits its change to the evidence first; recording   *)
(* it is a second transaction, which reads the newest sequence number and  *)
(* inserts the next one.  Nothing locks the log and no constraint makes    *)
(* (vendor, sequence) unique.                                              *)
(***************************************************************************)
EXTENDS Naturals, Sequences, FiniteSets

CONSTANTS
  Writers,     \* management calls that may run at once
  MaxChanges,  \* bound: changes ever made
  MaxCrashes,  \* bound: calls that stop between their two commits
  Models,      \* the OSCAL models a change may invalidate
  Streams,     \* consumers on the event stream
  MaxDrops,    \* bound: connections lost, per stream
  Pollers,     \* consumers that poll
  Wants,       \* the models a poller filters for; none means all
  Limit        \* changes in a page

ASSUME BoundsAssumption == MaxChanges \in Nat /\ MaxCrashes \in Nat /\ MaxDrops \in Nat
ASSUME LimitAssumption == Limit \in Nat \ {0}
ASSUME WantsAssumption == Wants \in [Pollers -> SUBSET Models]

VARIABLES
  made,     \* changes made so far: change n is the n-th committed
  crashes,  \* calls lost so far
  writer,   \* the management calls in flight
  log,      \* table oscal_changes, the rows committed; late is history:
            \* the row came after one with a higher number
  stream,   \* the event streams, server and client
  poll      \* the pollers

vars == <<made, crashes, writer, log, stream, poll>>

Ids == 1 .. MaxChanges
Rows == [id : Ids, seq : Nat \ {0}, model : Models, late : BOOLEAN]

Resting == [pc |-> "idle", id |-> 0, seq |-> 0]

Init ==
  /\ made = 0
  /\ crashes = 0
  /\ writer = [w \in Writers |-> Resting]
  /\ log = {}
  /\ stream = [s \in Streams |-> [last |-> 0, pending |-> {}, got |-> <<>>, drops |-> 0]]
  /\ poll = [p \in Pollers |->
       [pc |-> "idle", cursor |-> 0, page |-> {}, more |-> FALSE, got |-> {}, raced |-> {}]]

-----------------------------------------------------------------------------
(* current_cursor: the newest sequence number, 0 while nothing is logged. *)
IsNewest(n) ==
  /\ \A r \in log : r.seq <= n
  /\ n = 0 \/ \E r \in log : r.seq = n

(* Mutant of After: the row at the cursor is given again. *)
FromOn(cursor) == {r \in log : r.seq >= cursor}

After(cursor) == {r \in log : r.seq > cursor}

(* Mutant of IsPage: no ORDER BY. *)
IsUnorderedPage(page, cursor) ==
  /\ page \subseteq After(cursor)
  /\ IF Cardinality(After(cursor)) > Limit THEN Cardinality(page) = Limit
     ELSE page = After(cursor)

(***************************************************************************)
(* A page after the cursor: ordered by sequence and cut at Limit, rows of  *)
(* one sequence number in any order.                                       *)
(***************************************************************************)
IsPage(page, cursor) ==
  /\ page \subseteq After(cursor)
  /\ \A r \in page, q \in After(cursor) \ page : r.seq <= q.seq
  /\ IF Cardinality(After(cursor)) > Limit THEN Cardinality(page) = Limit
     ELSE page = After(cursor)

-----------------------------------------------------------------------------
(* A management call commits its change to the evidence ... *)
Change(w) ==
  /\ writer[w].pc = "idle"
  /\ made < MaxChanges
  /\ made' = made + 1
  /\ writer' = [writer EXCEPT ![w] = [pc |-> "changed", id |-> made + 1, seq |-> 0]]
  /\ UNCHANGED <<crashes, log, stream, poll>>

(* Mutants of Number: the newest number again; the number of the change. *)
NumberAgain(w, n) ==
  /\ writer[w].pc = "changed"
  /\ IsNewest(n)
  /\ writer' = [writer EXCEPT ![w] = [pc |-> "numbered", id |-> writer[w].id, seq |-> n]]
  /\ UNCHANGED <<made, crashes, log, stream, poll>>

NumberById(w, n) ==
  /\ writer[w].pc = "changed"
  /\ IsNewest(n)
  /\ writer' = [writer EXCEPT ![w] =
       [pc |-> "numbered", id |-> writer[w].id, seq |-> writer[w].id]]
  /\ UNCHANGED <<made, crashes, log, stream, poll>>

(* ... record_change reads the newest sequence number ... *)
Number(w, n) ==
  /\ writer[w].pc = "changed"
  /\ IsNewest(n)
  /\ writer' = [writer EXCEPT ![w] =
       [pc |-> "numbered", id |-> writer[w].id, seq |-> n + 1]]
  /\ UNCHANGED <<made, crashes, log, stream, poll>>

Row(id, seq, m) ==
  [id |-> id, seq |-> seq, model |-> m, late |-> \E q \in log : q.seq > seq]

(* Mutant of AppendChange: ON CONFLICT DO NOTHING. *)
AppendChangeUnlessTaken(w, m) ==
  LET row == Row(writer[w].id, writer[w].seq, m) IN
  /\ writer[w].pc = "numbered"
  /\ log' = IF \E r \in log : r.seq = row.seq THEN log ELSE log \cup {row}
  /\ writer' = [writer EXCEPT ![w] = Resting]
  /\ UNCHANGED <<made, crashes, stream, poll>>

(* ... and commits the row.  raced is history: the rows committed while a  *)
(* poll was between its two SELECTs.                                       *)
AppendChange(w, m) ==
  LET row == Row(writer[w].id, writer[w].seq, m) IN
  /\ writer[w].pc = "numbered"
  /\ log' = log \cup {row}
  /\ writer' = [writer EXCEPT ![w] = Resting]
  /\ poll' = [p \in Pollers |->
       IF poll[p].pc = "selected" THEN [poll[p] EXCEPT !.raced = @ \cup {row.id}]
       ELSE poll[p]]
  /\ UNCHANGED <<made, crashes, stream>>

(* The process stops after the first commit. *)
Crash(w) ==
  /\ writer[w].pc # "idle"
  /\ crashes < MaxCrashes
  /\ crashes' = crashes + 1
  /\ writer' = [writer EXCEPT ![w] = Resting]
  /\ UNCHANGED <<made, log, stream, poll>>

-----------------------------------------------------------------------------
(***************************************************************************)
(* stream_events: the server keeps a cursor, the number of the last frame  *)
(* it sent; the client keeps the number of the last frame it received.     *)
(***************************************************************************)
IsSent(s, n) ==
  IF stream[s].pending = {} THEN n = stream[s].last
  ELSE /\ \A r \in stream[s].pending : r.seq <= n
       /\ \E r \in stream[s].pending : r.seq = n

(* One tick: a page after the cursor is written to the connection. *)
StreamTick(s, n, page) ==
  /\ IsSent(s, n)
  /\ IsPage(page, n)
  /\ page # {}
  /\ stream' = [stream EXCEPT ![s] =
       [last |-> stream[s].last, pending |-> stream[s].pending \cup page,
        got |-> stream[s].got, drops |-> stream[s].drops]]
  /\ UNCHANGED <<made, crashes, writer, log, poll>>

(* The client receives the frames in the order they were sent. *)
ReceiveFrame(s, row) ==
  /\ row \in stream[s].pending
  /\ \A q \in stream[s].pending : row.seq <= q.seq
  /\ stream' = [stream EXCEPT ![s] =
       [last |-> row.seq, pending |-> stream[s].pending \ {row},
        got |-> Append(stream[s].got, row.id), drops |-> stream[s].drops]]
  /\ UNCHANGED <<made, crashes, writer, log, poll>>

(* Mutant of Reconnect: the stream resumes at the last frame sent. *)
ReconnectAtSent(s) ==
  /\ stream[s].drops < MaxDrops
  /\ \E n \in 0 .. MaxChanges :
       /\ IsSent(s, n)
       /\ stream' = [stream EXCEPT ![s] =
            [last |-> n, pending |-> {},
             got |-> stream[s].got, drops |-> stream[s].drops + 1]]
  /\ UNCHANGED <<made, crashes, writer, log, poll>>

(* The connection is lost, or the server closes it after its last tick;    *)
(* the client resumes with Last-Event-ID.                                  *)
Reconnect(s) ==
  /\ stream[s].drops < MaxDrops
  /\ stream' = [stream EXCEPT ![s] =
       [last |-> stream[s].last, pending |-> {},
        got |-> stream[s].got, drops |-> stream[s].drops + 1]]
  /\ UNCHANGED <<made, crashes, writer, log, poll>>

-----------------------------------------------------------------------------
(* changes_since: one SELECT for the page, filtered after it was cut ... *)
Wanted(p, rows) == {r \in rows : Wants[p] = {} \/ r.model \in Wants[p]}

StartPoll(p, page) ==
  /\ poll[p].pc = "idle"
  /\ IsPage(page, poll[p].cursor)
  /\ poll' = [poll EXCEPT ![p] =
       [pc |-> "selected", cursor |-> poll[p].cursor, page |-> Wanted(p, page),
        more |-> Cardinality(After(poll[p].cursor)) > Limit,
        got |-> poll[p].got, raced |-> poll[p].raced]]
  /\ UNCHANGED <<made, crashes, writer, log, stream>>

(* Mutant of IsNextCursor: an empty page always jumps to the newest. *)
IsNextCursorJumping(p, n, latest) ==
  IF poll[p].page # {}
  THEN (\E r \in poll[p].page : r.seq = n) /\ \A r \in poll[p].page : r.seq <= n
  ELSE n = IF latest > poll[p].cursor THEN latest ELSE poll[p].cursor

(* ... and another, in a snapshot of its own, for the newest number.  The  *)
(* cursor handed out is the last row's or, for an empty page that was not  *)
(* cut, the newest.                                                        *)
IsNextCursor(p, n, latest) ==
  IF poll[p].page # {}
  THEN (\E r \in poll[p].page : r.seq = n) /\ \A r \in poll[p].page : r.seq <= n
  ELSE n = IF ~poll[p].more /\ latest > poll[p].cursor THEN latest ELSE poll[p].cursor

(* Mutant of FinishPoll: the cursor handed out is the one passed in. *)
FinishPollInPlace(p, n, latest) ==
  /\ poll[p].pc = "selected"
  /\ IsNewest(latest)
  /\ n = poll[p].cursor
  /\ poll' = [poll EXCEPT ![p] =
       [pc |-> "idle", cursor |-> n, page |-> {}, more |-> FALSE,
        got |-> poll[p].got \cup {r.id : r \in poll[p].page}, raced |-> poll[p].raced]]
  /\ UNCHANGED <<made, crashes, writer, log, stream>>

FinishPoll(p, n, latest) ==
  /\ poll[p].pc = "selected"
  /\ IsNewest(latest)
  /\ IsNextCursor(p, n, latest)
  /\ poll' = [poll EXCEPT ![p] =
       [pc |-> "idle", cursor |-> n, page |-> {}, more |-> FALSE,
        got |-> poll[p].got \cup {r.id : r \in poll[p].page}, raced |-> poll[p].raced]]
  /\ UNCHANGED <<made, crashes, writer, log, stream>>

-----------------------------------------------------------------------------
Cursors == 0 .. MaxChanges

Tick(s) == \E n \in Cursors, page \in SUBSET log : StreamTick(s, n, page)
Receive(s) == \E row \in stream[s].pending : ReceiveFrame(s, row)
Poll(p) ==
  \/ \E page \in SUBSET log : StartPoll(p, page)
  \/ \E n, latest \in Cursors : FinishPoll(p, n, latest)

Next ==
  \/ \E w \in Writers : Change(w) \/ Crash(w)
  \/ \E w \in Writers, n \in Cursors : Number(w, n)
  \/ \E w \in Writers, m \in Models : AppendChange(w, m)
  \/ \E s \in Streams : Tick(s) \/ Receive(s) \/ Reconnect(s)
  \/ \E p \in Pollers : Poll(p)

Spec == Init /\ [][Next]_vars

(***************************************************************************)
(* The generator ticks as long as the connection lives, TCP delivers what  *)
(* it carries, and a poller polls again.  Nothing is asked of the writers, *)
(* nor that a connection lives: reconnections are bounded instead.         *)
(***************************************************************************)
FairSpec ==
  /\ Spec
  /\ \A s \in Streams : WF_vars(Tick(s)) /\ WF_vars(Receive(s))
  /\ \A p \in Pollers : WF_vars(Poll(p))
-----------------------------------------------------------------------------
(* The log, the calls in flight and the consumers hold values of their type. *)
TypeOK ==
  /\ made \in 0 .. MaxChanges
  /\ crashes \in 0 .. MaxCrashes
  /\ writer \in [Writers -> [pc : {"idle", "changed", "numbered"},
                             id : 0 .. MaxChanges, seq : Nat]]
  /\ log \subseteq Rows
  /\ stream \in [Streams -> [last : Nat, pending : SUBSET Rows,
                             got : Seq(Ids), drops : Nat]]
  /\ poll \in [Pollers -> [pc : {"idle", "selected"}, cursor : Nat,
                           page : SUBSET Rows, more : BOOLEAN,
                           got : SUBSET Ids, raced : SUBSET Ids]]

(***************************************************************************)
(* "monotonic and gapless" (feed.py:19-20): below every number in the log  *)
(* there is another, down to 1, whatever calls overlap or stop midway.     *)
(***************************************************************************)
Gapless == \A r \in log : r.seq = 1 \/ \E q \in log : q.seq = r.seq - 1

(* What overlapping calls do to a row: it is committed after one with a    *)
(* higher number, or another has its number.                               *)
Undisturbed(r) == ~r.late /\ \A q \in log : q.seq = r.seq => q = r

(***************************************************************************)
(* "a dropped connection resumes from the last change the client actually  *)
(* received rather than replaying from zero or silently skipping the gap"  *)
(* (oscal.py:180-182): up to its last frame a client has every change that *)
(* no overlapping call disturbed, however many calls run at once.          *)
(***************************************************************************)
StreamMissesNothing ==
  \A s \in Streams : \A r \in log :
    Undisturbed(r) /\ r.seq <= stream[s].last =>
      \E i \in DOMAIN stream[s].got : stream[s].got[i] = r.id

(***************************************************************************)
(* The same of every change, as the text has it.  The code breaks it: two  *)
(* calls take one number, the stream receives the first and asks for       *)
(* greater ones (feed.py:135-141, 190-196).                                *)
(***************************************************************************)
StreamSkipsNothing ==
  \A s \in Streams : \A r \in log :
    r.seq <= stream[s].last => \E i \in DOMAIN stream[s].got : stream[s].got[i] = r.id

(* What a poller asked for, up to its cursor, and was not given, though    *)
(* nothing disturbed it.                                                   *)
Missed(p) ==
  {r.id : r \in {r \in Wanted(p, log) : Undisturbed(r) /\ r.seq <= poll[p].cursor}}
    \ poll[p].got

(***************************************************************************)
(* A poll "returns everything that has happened since the cursor"          *)
(* (feed.py:10-11), except for this: an empty page is followed by a second *)
(* SELECT, which may see a newer change.  Of the changes that no           *)
(* overlapping call disturbed, a poller misses only those committed        *)
(* between the two SELECTs of one of its polls (feed.py:190-206), whatever *)
(* page and filter.                                                        *)
(***************************************************************************)
PollMissesOnlyRaces == \A p \in Pollers : Missed(p) \subseteq poll[p].raced

Newest == CHOOSE n \in Cursors : IsNewest(n)

(***************************************************************************)
(* A poller that does not filter catches up with the log once changes stop *)
(* (feed.py:182-187).                                                      *)
(***************************************************************************)
UnfilteredPollCatchesUp ==
  \A p \in Pollers : Wants[p] = {} => <>[](poll[p].cursor = Newest)

(***************************************************************************)
(* A management call records its change in a second transaction: only a    *)
(* process that stopped in between loses one, and one at a time.  No row   *)
(* goes missing because calls overlap and take the same number.            *)
(* manage.py:576-585, feed.py:135-151.                                     *)
(***************************************************************************)
Lost == {n \in 1 .. made :
           ~(\E r \in log : r.id = n) /\ ~(\E w \in Writers : writer[w].id = n)}
LostOnlyToCrashes == Cardinality(Lost) <= crashes

(***************************************************************************)
(* The event stream implements the abstract feed, fairness included: its   *)
(* clients receive the log, in order, to its end.                          *)
(***************************************************************************)
Recorded == [n \in 1 .. Cardinality(log) |-> (CHOOSE r \in log : r.seq = n).id]
Feed == INSTANCE AbstractFeed WITH
  Changes <- Ids, Consumers <- Streams,
  changes <- Recorded, received <- [s \in Streams |-> stream[s].got]
ImplementsFeed == Feed!Spec
-----------------------------------------------------------------------------
(***************************************************************************)
(* The inductive invariant behind Gapless: a number a call has taken       *)
(* follows one in the log, where rows stay.                                *)
(***************************************************************************)
WritersInv ==
  \A w \in Writers :
    /\ writer[w].pc # "idle" => writer[w].id # 0
    /\ writer[w].pc = "numbered" =>
         /\ writer[w].seq # 0
         /\ writer[w].seq = 1 \/ \E q \in log : q.seq = writer[w].seq - 1

LogInv == TypeOK /\ WritersInv /\ Gapless

(***************************************************************************)
(* And the one behind StreamMissesNothing: what is on its way to a client  *)
(* is, but for what calls disturbed, the log from the client's last frame  *)
(* on.  A row that comes undisturbed comes after all there is.             *)
(***************************************************************************)
StreamHolds(s) ==
  /\ stream[s].last = 0 \/ \E r \in log : r.seq = stream[s].last
  /\ stream[s].pending \subseteq log
  /\ \A q \in stream[s].pending :
       /\ stream[s].last <= q.seq /\ (Undisturbed(q) => stream[s].last < q.seq)
       /\ \A r \in log : Undisturbed(r) /\ stream[s].last < r.seq /\ r.seq <= q.seq =>
            r \in stream[s].pending

StreamsInv == \A s \in Streams : StreamHolds(s)

StreamInv == LogInv /\ StreamsInv /\ StreamMissesNothing

(***************************************************************************)
(* Behind LostOnlyToCrashes: a call at rest holds no change.               *)
(***************************************************************************)
RestingInv == \A w \in Writers : writer[w].pc = "idle" => writer[w].id = 0

LossInv == LogInv /\ RestingInv /\ LostOnlyToCrashes

(***************************************************************************)
(* Behind PollMissesOnlyRaces: the page a poll holds has whatever it wants *)
(* from its cursor to the page's end, and all there is, unless it was cut, *)
(* but for what was committed after its first SELECT.                      *)
(***************************************************************************)
PollHolds(p) ==
  /\ poll[p].cursor = 0 \/ \E r \in log : r.seq = poll[p].cursor
  /\ poll[p].pc = "selected" =>
       /\ poll[p].page \subseteq log
       /\ \A q \in poll[p].page, r \in Wanted(p, log) :
            Undisturbed(r) /\ poll[p].cursor < r.seq /\ r.seq <= q.seq => r \in poll[p].page
       /\ ~poll[p].more => \A r \in Wanted(p, log) :
            Undisturbed(r) /\ poll[p].cursor < r.seq =>
              r \in poll[p].page \/ r.id \in poll[p].raced

PollsInv == \A p \in Pollers : PollHolds(p)

PollInv == LogInv /\ PollsInv /\ PollMissesOnlyRaces

(***************************************************************************)
(* Behind the refinement, which holds as long as no call has disturbed     *)
(* another's row: the log is numbered from 1 to its length, and a client   *)
(* has received its beginning, up to the last frame.                       *)
(***************************************************************************)
Ordered == \A r \in log : Undisturbed(r)

NumberedInv ==
  /\ \A r \in log : r.seq <= Cardinality(log)
  /\ \A n \in 1 .. Cardinality(log) : \E r \in log : r.seq = n

PrefixHolds(s) ==
  /\ Len(stream[s].got) = stream[s].last
  /\ \A i \in 1 .. stream[s].last : \E r \in log : r.seq = i /\ stream[s].got[i] = r.id

PrefixInv == \A s \in Streams : PrefixHolds(s)

FeedInv == StreamInv /\ IsFiniteSet(log) /\ (Ordered => NumberedInv /\ PrefixInv)
=============================================================================

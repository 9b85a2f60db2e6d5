-------------------------- MODULE ChangeLogProofs --------------------------
(***************************************************************************)
(* Proofs about the change log of a vendor and those who follow it.        *)
(* ChangeFeed, for any number of concurrent writers, of streams, page      *)
(* size, lost connections and crashes: the log is gapless, and of what no  *)
(* overlapping call disturbed a stream misses nothing.                     *)
(***************************************************************************)
EXTENDS ChangeFeed, ChangeSubscriptions, FiniteSetTheorems, TLAPS

LEMMA InitLogInv == Init => LogInv
  BY BoundsAssumption
  DEF Init, LogInv, TypeOK, WritersInv, Gapless, Resting

(* A step leaves the log, the writers and the consumers well typed. *)
LEMMA NextType == LogInv /\ [Next]_vars => TypeOK'
  <1> SUFFICES ASSUME LogInv, [Next]_vars PROVE TypeOK'
    OBVIOUS
  <1> USE DEF LogInv
  <1>1. ASSUME NEW w \in Writers, Change(w)
        PROVE  TypeOK'
    BY <1>1, BoundsAssumption DEF Change, TypeOK, Ids
  <1>2. ASSUME NEW w \in Writers, Crash(w)
        PROVE  TypeOK'
    BY <1>2, BoundsAssumption DEF Crash, TypeOK, Resting
  <1>3. ASSUME NEW w \in Writers, NEW n \in Cursors, Number(w, n)
        PROVE  TypeOK'
    BY <1>3, BoundsAssumption DEF Number, TypeOK, Cursors
  <1>4. ASSUME NEW w \in Writers, NEW m \in Models, AppendChange(w, m)
        PROVE  TypeOK'
    <2>1. Row(writer[w].id, writer[w].seq, m) \in Rows
      BY <1>4, BoundsAssumption DEF AppendChange, TypeOK, WritersInv, Rows, Ids, Row
    <2>2. (log \subseteq Rows)'
      BY <1>4, <2>1 DEF AppendChange, TypeOK
    <2>3. (writer \in [Writers -> [pc : {"idle", "changed", "numbered"},
                                   id : 0 .. MaxChanges, seq : Nat]])'
      BY <1>4, BoundsAssumption DEF AppendChange, TypeOK, Resting
    <2>4. (poll \in [Pollers -> [pc : {"idle", "selected"}, cursor : Nat,
                                 page : SUBSET Rows, more : BOOLEAN,
                                 got : SUBSET Ids, raced : SUBSET Ids]])'
      <3> DEFINE R == [pc : {"idle", "selected"}, cursor : Nat,
                       page : SUBSET Rows, more : BOOLEAN,
                       got : SUBSET Ids, raced : SUBSET Ids]
                 Added(p) == [poll[p] EXCEPT !.raced = @ \cup {writer[w].id}]
      <3>1. ASSUME NEW p \in Pollers
            PROVE  poll[p] \in R /\ Added(p) \in R
        <4>1. writer[w].id \in Ids
          BY <2>1 DEF Rows, Row
        <4>2. poll[p] \in R
          BY DEF TypeOK
        <4> QED BY <4>1, <4>2
      <3>2. poll' = [p \in Pollers |-> IF poll[p].pc = "selected" THEN Added(p) ELSE poll[p]]
        BY <1>4 DEF AppendChange, Row
      <3> QED BY <3>1, <3>2
    <2> QED BY <1>4, <2>2, <2>3, <2>4 DEF AppendChange, TypeOK
  <1>5. ASSUME NEW s \in Streams, Tick(s)
        PROVE  TypeOK'
    BY <1>5 DEF Tick, StreamTick, TypeOK
  <1>6. ASSUME NEW s \in Streams, Receive(s)
        PROVE  TypeOK'
    BY <1>6 DEF Receive, ReceiveFrame, TypeOK, Rows
  <1>7. ASSUME NEW s \in Streams, Reconnect(s)
        PROVE  TypeOK'
    BY <1>7 DEF Reconnect, TypeOK
  <1>8. ASSUME NEW p \in Pollers, Poll(p)
        PROVE  TypeOK'
    <2>1. ASSUME NEW page \in SUBSET log, StartPoll(p, page)
          PROVE  TypeOK'
      BY <2>1 DEF StartPoll, TypeOK, Wanted
    <2>2. ASSUME NEW n \in Cursors, NEW latest \in Cursors, FinishPoll(p, n, latest)
          PROVE  TypeOK'
      BY <2>2, BoundsAssumption DEF FinishPoll, TypeOK, Cursors, Rows
    <2> QED BY <1>8, <2>1, <2>2 DEF Poll
  <1>9. CASE UNCHANGED vars
    BY <1>9 DEF vars, TypeOK
  <1> QED
    BY <1>1, <1>2, <1>3, <1>4, <1>5, <1>6, <1>7, <1>8, <1>9 DEF Next

(* Only AppendChange, and the two steps before it, touch the log's numbers. *)
LEMMA NextLogInv == LogInv /\ [Next]_vars => LogInv'
  <1> SUFFICES ASSUME LogInv, [Next]_vars PROVE LogInv'
    OBVIOUS
  <1>0. TypeOK'
    BY NextType
  <1> USE DEF LogInv
  <1>1. ASSUME NEW w \in Writers, Change(w)
        PROVE  WritersInv' /\ Gapless'
    BY <1>1, BoundsAssumption DEF Change, TypeOK, WritersInv, Gapless
  <1>2. ASSUME NEW w \in Writers, Crash(w)
        PROVE  WritersInv' /\ Gapless'
    BY <1>2 DEF Crash, TypeOK, WritersInv, Gapless, Resting
  <1>3. ASSUME NEW w \in Writers, NEW n \in Cursors, Number(w, n)
        PROVE  WritersInv' /\ Gapless'
    <2>1. n \in Nat /\ (n = 0 \/ \E q \in log : q.seq = n)
      BY <1>3, BoundsAssumption DEF Number, IsNewest, Cursors
    <2>2. WritersInv'
      BY <1>3, <2>1 DEF Number, TypeOK, WritersInv
    <2> QED BY <1>3, <2>2 DEF Number, Gapless
  <1>4. ASSUME NEW w \in Writers, NEW m \in Models, AppendChange(w, m)
        PROVE  WritersInv' /\ Gapless'
    <2>1. WritersInv'
      BY <1>4 DEF AppendChange, TypeOK, WritersInv, Resting, Row
    <2>2. Gapless'
      BY <1>4 DEF AppendChange, TypeOK, WritersInv, Gapless, Row
    <2> QED BY <2>1, <2>2
  <1>5. ASSUME UNCHANGED <<log, writer>>
        PROVE  WritersInv' /\ Gapless'
    BY <1>5 DEF WritersInv, Gapless
  <1>6. WritersInv' /\ Gapless'
    BY <1>1, <1>2, <1>3, <1>4, <1>5
    DEF Next, vars, Tick, StreamTick, Receive, ReceiveFrame, Reconnect, Poll,
        StartPoll, FinishPoll
  <1> QED BY <1>0, <1>6

THEOREM LogInvariance == Spec => []LogInv
  BY InitLogInv, NextLogInv, PTL DEF Spec

(***************************************************************************)
(* The log, the writers and the consumers are well typed                   *)
(* (models.py:427-446).                                                    *)
(***************************************************************************)
THEOREM TypeCorrect == Spec => []TypeOK
  <1>1. LogInv => TypeOK
    BY DEF LogInv
  <1> QED BY LogInvariance, <1>1, PTL

(***************************************************************************)
(* "monotonic and gapless" (feed.py:19-20): no number is missing below one *)
(* that is in the log, whatever writers overlap or crash.                  *)
(***************************************************************************)
THEOREM LogIsGapless == Spec => []Gapless
  <1>1. LogInv => Gapless
    BY DEF LogInv
  <1> QED BY LogInvariance, <1>1, PTL

-----------------------------------------------------------------------------
(***************************************************************************)
(* What an event stream misses, with any number of writers.                *)
(***************************************************************************)

(* The row a call commits, and where it comes if nothing disturbed it.     *)
LEMMA AppendedRow ==
  ASSUME LogInv, NEW w \in Writers, NEW m \in Models, AppendChange(w, m)
  PROVE  \E row \in Rows :
           /\ row.id = writer[w].id /\ row.seq = writer[w].seq
           /\ log' = log \cup {row}
           /\ \A r \in log : Undisturbed(r)' => Undisturbed(r)
           /\ Undisturbed(row)' => row \in log \/ \A r \in log : r.seq < row.seq
  <1> USE DEF LogInv
  <1>1. PICK row : row = Row(writer[w].id, writer[w].seq, m)
    OBVIOUS
  <1>2. /\ row.id = writer[w].id /\ row.seq = writer[w].seq
        /\ row.late = (\E q \in log : q.seq > row.seq)
    BY <1>1 DEF Row
  <1>3. log' = log \cup {row}
    BY <1>1 DEF AppendChange
  <1>4. row \in Rows
    BY <1>1, BoundsAssumption DEF AppendChange, TypeOK, WritersInv, Rows, Ids, Row
  <1>5. row.seq \in Nat /\ \A r \in log : r.seq \in Nat
    BY <1>4 DEF TypeOK, Rows
  <1>6. \A r \in log : Undisturbed(r)' => Undisturbed(r)
    BY <1>3 DEF Undisturbed
  <1>7. ASSUME Undisturbed(row)', row \notin log, NEW r \in log
        PROVE  r.seq < row.seq
    <2>1. r.seq # row.seq
      BY <1>3, <1>7 DEF Undisturbed
    <2>2. ~(r.seq > row.seq)
      BY <1>2, <1>7 DEF Undisturbed
    <2> QED BY <1>5, <2>1, <2>2
  <1>8. Undisturbed(row)' => row \in log \/ \A r \in log : r.seq < row.seq
    BY <1>7
  <1> QED BY <1>2, <1>3, <1>4, <1>6, <1>8

LEMMA InitStreamInv == Init => StreamInv
  BY InitLogInv DEF Init, StreamInv, StreamsInv, StreamHolds, StreamMissesNothing

(* The frame received is the last the client has, the others stay. *)
LEMMA AppendedLast ==
  ASSUME NEW got \in Seq(Ids), NEW id \in Ids
  PROVE  \E i \in DOMAIN Append(got, id) : Append(got, id)[i] = id
  <1>1. /\ Len(got) + 1 \in DOMAIN Append(got, id)
        /\ Append(got, id)[Len(got) + 1] = id
    OBVIOUS
  <1> QED BY <1>1

LEMMA AppendedKeeps ==
  ASSUME NEW got \in Seq(Ids), NEW id \in Ids, NEW i \in DOMAIN got
  PROVE  i \in DOMAIN Append(got, id) /\ Append(got, id)[i] = got[i]
  OBVIOUS

(* A row committed comes after every client's last frame and all that is   *)
(* on its way, or it was disturbed.                                        *)
LEMMA AppendStreams ==
  ASSUME StreamInv, NEW w \in Writers, NEW m \in Models, AppendChange(w, m)
  PROVE  StreamsInv' /\ StreamMissesNothing'
  <1> USE DEF StreamInv
  <1>1. PICK row \in Rows :
          /\ row.id = writer[w].id /\ row.seq = writer[w].seq
          /\ log' = log \cup {row}
          /\ \A r \in log : Undisturbed(r)' => Undisturbed(r)
          /\ Undisturbed(row)' => row \in log \/ \A r \in log : r.seq < row.seq
    BY AppendedRow
  <1>3. stream' = stream
    BY DEF AppendChange
  <1>4. row.seq \in Nat \ {0} /\ \A r \in log : r.seq \in Nat
    BY <1>1 DEF LogInv, TypeOK, Rows
  <1>5. ASSUME NEW s \in Streams, NEW r \in log', Undisturbed(r)', r \notin log
        PROVE  stream[s].last < r.seq /\ \A q \in stream[s].pending : q.seq < r.seq
    <2>1. r = row /\ \A q \in log : q.seq < row.seq
      BY <1>1, <1>5
    <2>2. stream[s].last = 0 \/ \E q \in log : q.seq = stream[s].last
      BY DEF StreamsInv, StreamHolds
    <2>3. stream[s].last < r.seq
      BY <1>4, <2>1, <2>2
    <2>4. stream[s].pending \subseteq log
      BY DEF StreamsInv, StreamHolds
    <2> QED BY <2>1, <2>3, <2>4
  <1>6. ASSUME NEW s \in Streams
        PROVE  /\ StreamHolds(s)'
               /\ \A r \in log' : Undisturbed(r)' /\ r.seq <= stream[s].last =>
                    \E i \in DOMAIN stream[s].got : stream[s].got[i] = r.id
    <2>1. StreamHolds(s) /\ stream[s].last \in Nat
      BY DEF StreamsInv, LogInv, TypeOK
    <2>2. \A r \in log' : r.seq \in Nat
      BY <1>1, <1>4
    <2>3. StreamHolds(s)'
      <3>1. ASSUME NEW q \in stream[s].pending, NEW r \in log', Undisturbed(r)',
                   stream[s].last < r.seq, r.seq <= q.seq
            PROVE  r \in stream[s].pending
        <4>1. q \in log
          BY <2>1 DEF StreamHolds
        <4>2. r \in log
          BY <1>4, <1>5, <2>2, <3>1, <4>1
        <4> QED BY <1>1, <2>1, <3>1, <4>2 DEF StreamHolds
      <3>2. /\ stream[s].last = 0 \/ \E r \in log' : r.seq = stream[s].last
            /\ stream[s].pending \subseteq log'
            /\ \A q \in stream[s].pending :
                 stream[s].last <= q.seq /\ (Undisturbed(q)' => stream[s].last < q.seq)
        BY <1>1, <2>1 DEF StreamHolds
      <3> QED BY <1>3, <3>1, <3>2 DEF StreamHolds
    <2>4. ASSUME NEW r \in log', Undisturbed(r)', r.seq <= stream[s].last
          PROVE  \E i \in DOMAIN stream[s].got : stream[s].got[i] = r.id
      <3>1. r \in log
        BY <1>5, <2>1, <2>2, <2>4
      <3> QED BY <1>1, <2>4, <3>1 DEF StreamMissesNothing
    <2> QED BY <2>3, <2>4
  <1> QED BY <1>3, <1>6 DEF StreamsInv, StreamMissesNothing

(* A tick sends the page after what was sent last. *)
LEMMA TickStreams ==
  ASSUME StreamInv, NEW s \in Streams, NEW n \in Cursors, NEW page \in SUBSET log,
         StreamTick(s, n, page)
  PROVE  StreamsInv' /\ StreamMissesNothing'
  <1> USE DEF StreamInv
  <1>1. PICK S : S = stream[s]
    OBVIOUS
  <1>2. PICK pending : pending = S.pending \cup page
    OBVIOUS
  <1>3. /\ S.last \in Nat /\ n \in Nat /\ \A r \in log : r.seq \in Nat
        /\ S.pending \subseteq log /\ pending \subseteq log
    BY <1>1, <1>2, BoundsAssumption
    DEF LogInv, TypeOK, Rows, Cursors, StreamsInv, StreamHolds
  <1>4. /\ \A q \in S.pending : S.last <= q.seq /\ (Undisturbed(q) => S.last < q.seq)
        /\ \A q \in S.pending, r \in log :
             Undisturbed(r) /\ S.last < r.seq /\ r.seq <= q.seq => r \in S.pending
    BY <1>1 DEF StreamsInv, StreamHolds
  <1>5. /\ S.last <= n /\ \A q \in S.pending : q.seq <= n
        /\ \A r \in log : Undisturbed(r) /\ r.seq <= n /\ S.last < r.seq => r \in S.pending
    BY <1>1, <1>3, <1>4 DEF StreamTick, IsSent
  <1>6. /\ \A q \in page : q.seq > n
        /\ \A q \in page, r \in log :
             Undisturbed(r) /\ n < r.seq /\ r.seq <= q.seq => r \in page
    <2>1. \A q \in page : q.seq > n
      BY <1>3 DEF StreamTick, IsPage, After
    <2>2. ASSUME NEW q \in page, NEW r \in log, Undisturbed(r), n < r.seq, r.seq <= q.seq,
                 r \notin page
          PROVE  FALSE
      <3>1. q.seq <= r.seq
        BY <1>3, <2>2 DEF StreamTick, IsPage, After
      <3>2. q.seq = r.seq /\ q \in log
        BY <1>3, <2>2, <3>1
      <3> QED BY <2>2, <3>2 DEF Undisturbed
    <2> QED BY <2>1, <2>2
  <1>7. \A q \in pending :
          /\ S.last <= q.seq /\ (Undisturbed(q) => S.last < q.seq)
          /\ \A r \in log : Undisturbed(r) /\ S.last < r.seq /\ r.seq <= q.seq => r \in pending
    <2> SUFFICES ASSUME NEW q \in pending
                 PROVE  /\ S.last <= q.seq /\ (Undisturbed(q) => S.last < q.seq)
                        /\ \A r \in log : Undisturbed(r) /\ S.last < r.seq /\ r.seq <= q.seq
                             => r \in pending
      OBVIOUS
    <2>1. CASE q \in S.pending
      BY <1>2, <1>4, <2>1
    <2>2. CASE q \in page
      BY <1>2, <1>3, <1>5, <1>6, <2>2
    <2> QED BY <1>2, <2>1, <2>2
  <1>8. /\ stream' = [stream EXCEPT ![s] = [last |-> S.last, pending |-> pending,
                                            got |-> S.got, drops |-> S.drops]]
        /\ log' = log
    BY <1>1, <1>2 DEF StreamTick
  <1>9. /\ \A t \in Streams \ {s} : stream'[t] = stream[t]
        /\ stream'[s].last = S.last /\ stream'[s].got = S.got
        /\ stream'[s].pending = pending
    BY <1>8 DEF LogInv, TypeOK
  <1>10. StreamHolds(s)'
    <2>1. S.last = 0 \/ \E r \in log : r.seq = S.last
      BY <1>1 DEF StreamsInv, StreamHolds
    <2> QED BY <1>3, <1>7, <1>8, <1>9, <2>1 DEF StreamHolds, Undisturbed
  <1>11. \A t \in Streams \ {s} : StreamHolds(t)'
    BY <1>8, <1>9 DEF StreamsInv, StreamHolds, Undisturbed
  <1>12. StreamMissesNothing'
    BY <1>1, <1>8, <1>9 DEF StreamMissesNothing, Undisturbed
  <1> QED BY <1>10, <1>11, <1>12 DEF StreamsInv

(* The frame received is the least of those on their way. *)
LEMMA ReceiveStreams ==
  ASSUME StreamInv, NEW s \in Streams, NEW row \in stream[s].pending, ReceiveFrame(s, row)
  PROVE  StreamsInv' /\ StreamMissesNothing'
  <1> USE DEF StreamInv
  <1>0. PICK S : S = stream[s]
    OBVIOUS
  <1>1. /\ S.last \in Nat /\ \A r \in log : r.seq \in Nat
        /\ S.pending \subseteq log /\ row \in log /\ row.id \in Ids
        /\ S.got \in Seq(Ids)
    BY <1>0 DEF LogInv, TypeOK, Rows, StreamsInv, StreamHolds
  <1>2. /\ \A q \in S.pending : S.last <= q.seq /\ row.seq <= q.seq
        /\ \A q \in S.pending, r \in log :
             Undisturbed(r) /\ S.last < r.seq /\ r.seq <= q.seq => r \in S.pending
    BY <1>0 DEF ReceiveFrame, StreamsInv, StreamHolds
  <1>3. \A r \in log : Undisturbed(r) /\ r.seq <= row.seq => r = row \/ r.seq <= S.last
    <2> SUFFICES ASSUME NEW r \in log, Undisturbed(r), r.seq <= row.seq, S.last < r.seq
                 PROVE  r = row
      BY <1>1
    <2>1. r \in S.pending
      BY <1>0, <1>2
    <2>2. r.seq = row.seq
      BY <1>1, <1>2, <2>1
    <2> QED BY <1>1, <2>2 DEF Undisturbed
  <1>4. /\ \A t \in Streams \ {s} : stream'[t] = stream[t]
        /\ stream'[s].last = row.seq /\ stream'[s].got = Append(S.got, row.id)
        /\ stream'[s].pending = S.pending \ {row} /\ log' = log
    BY <1>0 DEF ReceiveFrame, LogInv, TypeOK
  <1>5. StreamHolds(s)'
    <2>1. ASSUME NEW q \in S.pending \ {row}, NEW r \in log, Undisturbed(r),
                 row.seq < r.seq, r.seq <= q.seq
          PROVE  r \in S.pending \ {row}
      <3>1. S.last < r.seq
        BY <1>0, <1>1, <1>2, <2>1
      <3> QED BY <1>1, <1>2, <2>1, <3>1
    <2>2. ASSUME NEW q \in S.pending \ {row}, Undisturbed(q)
          PROVE  row.seq < q.seq
      <3>1. row.seq # q.seq
        BY <1>1, <2>2 DEF Undisturbed
      <3> QED BY <1>1, <1>2, <2>2, <3>1
    <2> QED BY <1>1, <1>2, <1>4, <2>1, <2>2 DEF StreamHolds, Undisturbed
  <1>6. \A t \in Streams \ {s} : StreamHolds(t)'
    BY <1>4 DEF StreamsInv, StreamHolds, Undisturbed
  <1>7. StreamMissesNothing'
    <2> SUFFICES ASSUME NEW t \in Streams, NEW r \in log, Undisturbed(r),
                        r.seq <= stream'[t].last
                 PROVE  \E i \in DOMAIN stream'[t].got : stream'[t].got[i] = r.id
      BY <1>4 DEF StreamMissesNothing, Undisturbed
    <2>1. CASE t # s
      BY <1>4, <2>1 DEF StreamMissesNothing
    <2>2. CASE t = s /\ r = row
      BY <1>1, <1>4, <2>2, AppendedLast
    <2>3. CASE t = s /\ r # row
      <3>1. r.seq <= S.last
        BY <1>3, <1>4, <2>3
      <3>2. PICK i \in DOMAIN S.got : S.got[i] = r.id
        BY <1>0, <3>1 DEF StreamMissesNothing
      <3>3. i \in DOMAIN Append(S.got, row.id) /\ Append(S.got, row.id)[i] = S.got[i]
        BY <1>1, <3>2, AppendedKeeps
      <3> QED BY <1>4, <2>3, <3>2, <3>3
    <2> QED BY <2>1, <2>2, <2>3
  <1> QED BY <1>5, <1>6, <1>7 DEF StreamsInv

LEMMA NextStreams ==
  ASSUME StreamInv, [Next]_vars
  PROVE  StreamsInv' /\ StreamMissesNothing'
  <1>1. ASSUME NEW s \in Streams, Reconnect(s)
        PROVE  StreamsInv' /\ StreamMissesNothing'
    BY <1>1
    DEF Reconnect, StreamInv, LogInv, TypeOK, StreamsInv, StreamHolds, StreamMissesNothing,
        Undisturbed
  <1>2. ASSUME UNCHANGED <<log, stream>>
        PROVE  StreamsInv' /\ StreamMissesNothing'
    BY <1>2 DEF StreamInv, StreamsInv, StreamHolds, StreamMissesNothing, Undisturbed
  <1> QED
    BY <1>1, <1>2, AppendStreams, TickStreams, ReceiveStreams
    DEF Next, vars, Change, Crash, Number, Tick, Receive, Poll, StartPoll, FinishPoll

(***************************************************************************)
(* A reconnecting client "resumes from the last change the client actually *)
(* received rather than ... silently skipping the gap" (oscal.py:180-182): *)
(* of the changes no overlapping call disturbed, it has every one up to    *)
(* its cursor, whatever calls run at once.                                 *)
(***************************************************************************)
THEOREM StreamIsComplete == Spec => []StreamMissesNothing
  <1>1. StreamInv /\ [Next]_vars => StreamInv'
    BY NextLogInv, NextStreams DEF StreamInv
  <1>2. StreamInv => StreamMissesNothing
    BY DEF StreamInv
  <1> QED BY InitStreamInv, <1>1, <1>2, PTL DEF Spec

-----------------------------------------------------------------------------
(***************************************************************************)
(* What polls miss, with any number of writers.                            *)
(***************************************************************************)
LEMMA InitPollInv == Init => PollInv
  BY InitLogInv DEF Init, PollInv, PollsInv, PollHolds, PollMissesOnlyRaces, Missed, Wanted

(* A row committed has a number above every cursor, or it was disturbed:   *)
(* it was missed by none, unless it came between the two SELECTs, and then *)
(* it is noted.                                                            *)
LEMMA AppendPolls ==
  ASSUME PollInv, NEW w \in Writers, NEW m \in Models, AppendChange(w, m)
  PROVE  PollsInv' /\ PollMissesOnlyRaces'
  <1> USE DEF PollInv
  <1>1. PICK row \in Rows :
          /\ row.id = writer[w].id /\ row.seq = writer[w].seq
          /\ log' = log \cup {row}
          /\ \A r \in log : Undisturbed(r)' => Undisturbed(r)
          /\ Undisturbed(row)' => row \in log \/ \A r \in log : r.seq < row.seq
    BY AppendedRow
  <1>3. row.seq \in Nat \ {0} /\ \A r \in log : r.seq \in Nat
    BY <1>1 DEF LogInv, TypeOK, Rows
  <1> SUFFICES ASSUME NEW p \in Pollers
               PROVE  /\ PollHolds(p)'
                      /\ (Missed(p) \subseteq poll[p].raced)'
    BY DEF PollsInv, PollMissesOnlyRaces
  <1>4. /\ poll'[p].pc = poll[p].pc /\ poll'[p].cursor = poll[p].cursor
        /\ poll'[p].page = poll[p].page /\ poll'[p].more = poll[p].more
        /\ poll'[p].got = poll[p].got /\ poll[p].raced \subseteq poll'[p].raced
        /\ poll[p].pc = "selected" => row.id \in poll'[p].raced
    BY <1>1 DEF AppendChange, LogInv, TypeOK, Row
  <1>5. PollHolds(p) /\ poll[p].cursor \in Nat
    BY DEF PollsInv, LogInv, TypeOK
  <1>6. ASSUME NEW r \in log', Undisturbed(r)', r \notin log
        PROVE  /\ r = row /\ poll[p].cursor < r.seq
               /\ \A q \in log : q.seq < r.seq
    <2>1. r = row /\ \A q \in log : q.seq < row.seq
      BY <1>1, <1>6
    <2>2. poll[p].cursor = 0 \/ \E q \in log : q.seq = poll[p].cursor
      BY <1>5 DEF PollHolds
    <2> QED BY <1>3, <2>1, <2>2
  <1>7. PollHolds(p)'
    <2>1. poll[p].cursor = 0 \/ \E r \in log' : r.seq = poll[p].cursor
      BY <1>1, <1>5 DEF PollHolds
    <2>2. ASSUME poll[p].pc = "selected"
          PROVE  /\ poll[p].page \subseteq log'
                 /\ \A q \in poll[p].page, r \in Wanted(p, log)' :
                      Undisturbed(r)' /\ poll[p].cursor < r.seq /\ r.seq <= q.seq =>
                        r \in poll[p].page
                 /\ ~poll[p].more => \A r \in Wanted(p, log)' :
                      Undisturbed(r)' /\ poll[p].cursor < r.seq =>
                        r \in poll[p].page \/ r.id \in poll'[p].raced
      <3>1. poll[p].page \subseteq log
        BY <1>5, <2>2 DEF PollHolds
      <3>2. ASSUME NEW q \in poll[p].page, NEW r \in Wanted(p, log)', Undisturbed(r)',
                   poll[p].cursor < r.seq, r.seq <= q.seq
            PROVE  r \in poll[p].page
        <4>1. r \in log
          BY <1>1, <1>3, <1>6, <3>1, <3>2 DEF Wanted
        <4> QED BY <1>1, <1>5, <2>2, <3>2, <4>1 DEF PollHolds, Wanted
      <3>3. ASSUME ~poll[p].more, NEW r \in Wanted(p, log)', Undisturbed(r)',
                   poll[p].cursor < r.seq
            PROVE  r \in poll[p].page \/ r.id \in poll'[p].raced
        <4>1. CASE r \in log
          BY <1>1, <1>4, <1>5, <2>2, <3>3, <4>1 DEF PollHolds, Wanted
        <4>2. CASE r \notin log
          BY <1>4, <1>6, <2>2, <3>3, <4>2 DEF Wanted
        <4> QED BY <4>1, <4>2
      <3> QED BY <1>1, <3>1, <3>2, <3>3
    <2> QED BY <1>4, <2>1, <2>2 DEF PollHolds
  <1>8. (Missed(p) \subseteq poll[p].raced)'
    <2> SUFFICES ASSUME NEW r \in Wanted(p, log)', Undisturbed(r)', r.seq <= poll[p].cursor,
                        r.id \notin poll[p].got
                 PROVE  r.id \in poll'[p].raced
      BY <1>4 DEF Missed, Wanted
    <2>1. r \in log /\ r \in Wanted(p, log)
      BY <1>1, <1>3, <1>5, <1>6 DEF Wanted
    <2>2. r.id \in Missed(p)
      BY <1>1, <2>1 DEF Missed
    <2> QED BY <1>4, <2>2 DEF PollMissesOnlyRaces
  <1> QED BY <1>7, <1>8

LEMMA StartPolls ==
  ASSUME PollInv, NEW p \in Pollers, NEW page \in SUBSET log, StartPoll(p, page)
  PROVE  PollsInv' /\ PollMissesOnlyRaces'
  <1> USE DEF PollInv
  <1>0. PICK P : P = poll[p]
    OBVIOUS
  <1>1. P.cursor \in Nat /\ \A r \in log : r.seq \in Nat
    BY <1>0 DEF LogInv, TypeOK, Rows
  <1>2. /\ log' = log
        /\ \A q \in Pollers \ {p} : poll'[q] = poll[q]
        /\ poll'[p].pc = "selected" /\ poll'[p].cursor = P.cursor
        /\ poll'[p].page = Wanted(p, page)
        /\ poll'[p].more = (Cardinality(After(P.cursor)) > Limit)
        /\ poll'[p].got = P.got /\ poll'[p].raced = P.raced
    BY <1>0 DEF StartPoll, LogInv, TypeOK
  <1>3. ASSUME NEW q \in page, NEW r \in log, Undisturbed(r), P.cursor < r.seq, r.seq <= q.seq
        PROVE  r \in page
    <2> SUFFICES ASSUME r \notin page PROVE FALSE
      OBVIOUS
    <2>1. q.seq <= r.seq
      BY <1>0, <1>1, <1>3 DEF StartPoll, IsPage, After
    <2>2. q.seq = r.seq /\ q \in log
      BY <1>1, <1>3, <2>1
    <2> QED BY <1>3, <2>2 DEF Undisturbed
  <1>4. ~(Cardinality(After(P.cursor)) > Limit) =>
          \A r \in log : P.cursor < r.seq => r \in page
    BY <1>0, <1>1 DEF StartPoll, IsPage, After
  <1>5. PollHolds(p)'
    <2>1. P.cursor = 0 \/ \E r \in log : r.seq = P.cursor
      BY <1>0 DEF PollsInv, PollHolds
    <2> QED BY <1>2, <1>3, <1>4, <2>1 DEF PollHolds, Wanted, Undisturbed
  <1>6. \A q \in Pollers \ {p} : PollHolds(q)'
    BY <1>2 DEF PollsInv, PollHolds, Wanted, Undisturbed
  <1>7. PollMissesOnlyRaces'
    BY <1>0, <1>2 DEF PollMissesOnlyRaces, Missed, Wanted, Undisturbed
  <1> QED BY <1>5, <1>6, <1>7 DEF PollsInv

LEMMA FinishPolls ==
  ASSUME PollInv, NEW p \in Pollers, NEW n \in Cursors, NEW latest \in Cursors,
         FinishPoll(p, n, latest)
  PROVE  PollsInv' /\ PollMissesOnlyRaces'
  <1> USE DEF PollInv
  <1>0. PICK P : P = poll[p]
    OBVIOUS
  <1>1. /\ P.cursor \in Nat /\ n \in Nat /\ latest \in Nat /\ \A r \in log : r.seq \in Nat
        /\ P.pc = "selected" /\ P.page \subseteq log /\ P.more \in BOOLEAN
    BY <1>0, BoundsAssumption
    DEF LogInv, TypeOK, Rows, Cursors, FinishPoll, PollsInv, PollHolds
  <1>2. /\ log' = log
        /\ \A q \in Pollers \ {p} : poll'[q] = poll[q]
        /\ poll'[p].pc = "idle" /\ poll'[p].cursor = n
        /\ poll'[p].got = P.got \cup {r.id : r \in P.page} /\ poll'[p].raced = P.raced
    BY <1>0 DEF FinishPoll, LogInv, TypeOK
  <1>3. n = 0 \/ \E r \in log : r.seq = n
    <2>1. CASE P.page # {}
      BY <1>0, <1>1, <2>1 DEF FinishPoll, IsNextCursor
    <2>2. CASE P.page = {}
      <3>1. n = latest \/ n = P.cursor
        BY <1>0, <2>2 DEF FinishPoll, IsNextCursor
      <3> QED BY <1>0, <3>1 DEF FinishPoll, IsNewest, PollsInv, PollHolds
    <2> QED BY <2>1, <2>2
  <1>4. \A r \in Wanted(p, log) :
          Undisturbed(r) /\ P.cursor < r.seq /\ r.seq <= n => r \in P.page \/ r.id \in P.raced
    <2>1. CASE P.page # {}
      <3>1. PICK q \in P.page : q.seq = n
        BY <1>0, <2>1 DEF FinishPoll, IsNextCursor
      <3> QED BY <1>0, <1>1, <3>1 DEF PollsInv, PollHolds
    <2>2. CASE P.page = {}
      <3>1. n = P.cursor \/ ~P.more
        BY <1>0, <2>2 DEF FinishPoll, IsNextCursor
      <3>2. CASE n = P.cursor
        BY <1>1, <3>2 DEF Wanted
      <3>3. CASE ~P.more
        BY <1>0, <1>1, <3>3 DEF PollsInv, PollHolds
      <3> QED BY <3>1, <3>2, <3>3
    <2> QED BY <2>1, <2>2
  <1>5. PollHolds(p)'
    BY <1>2, <1>3 DEF PollHolds
  <1>6. \A q \in Pollers \ {p} : PollHolds(q)'
    BY <1>2 DEF PollsInv, PollHolds, Wanted, Undisturbed
  <1>7. \A q \in Pollers \ {p} : (Missed(q) \subseteq poll[q].raced)'
    BY <1>2 DEF PollMissesOnlyRaces, Missed, Wanted, Undisturbed
  <1>8. (Missed(p) \subseteq poll[p].raced)'
    <2> SUFFICES ASSUME NEW r \in Wanted(p, log), Undisturbed(r), r.seq <= n,
                        r.id \notin poll'[p].got
                 PROVE  r.id \in P.raced
      BY <1>2 DEF Missed, Wanted, Undisturbed
    <2>1. CASE r.seq <= P.cursor
      <3>1. r.id \in Missed(p)
        BY <1>0, <1>2, <2>1 DEF Missed
      <3> QED BY <1>0, <3>1 DEF PollMissesOnlyRaces
    <2>2. CASE P.cursor < r.seq
      BY <1>2, <1>4, <2>2
    <2> QED BY <1>1, <2>1, <2>2 DEF Wanted
  <1> QED BY <1>5, <1>6, <1>7, <1>8 DEF PollsInv, PollMissesOnlyRaces

LEMMA NextPolls ==
  ASSUME PollInv, [Next]_vars
  PROVE  PollsInv' /\ PollMissesOnlyRaces'
  <1>1. ASSUME UNCHANGED <<log, poll>>
        PROVE  PollsInv' /\ PollMissesOnlyRaces'
    BY <1>1 DEF PollInv, PollsInv, PollHolds, PollMissesOnlyRaces, Missed, Wanted, Undisturbed
  <1> QED
    BY <1>1, AppendPolls, StartPolls, FinishPolls
    DEF Next, vars, Change, Crash, Number, Tick, StreamTick, Receive, ReceiveFrame,
        Reconnect, Poll

(***************************************************************************)
(* A poll "returns everything that has happened since the cursor"          *)
(* (feed.py:10-11), but for what was committed between its two SELECTs     *)
(* (feed.py:190-206) and what an overlapping call disturbed: for any page  *)
(* size, any filter and any number of pollers and of calls at once.        *)
(***************************************************************************)
THEOREM PollsMissOnlyRaces == Spec => []PollMissesOnlyRaces
  <1>1. PollInv /\ [Next]_vars => PollInv'
    BY NextLogInv, NextPolls DEF PollInv
  <1>2. PollInv => PollMissesOnlyRaces
    BY DEF PollInv
  <1> QED BY InitPollInv, <1>1, <1>2, PTL DEF Spec

-----------------------------------------------------------------------------
(***************************************************************************)
(* What is lost, with any number of writers.                               *)
(***************************************************************************)
LEMMA LostIsFinite ==
  ASSUME TypeOK
  PROVE  IsFiniteSet(Lost) /\ Cardinality(Lost) \in Nat
  <1>1. made \in Nat
    BY BoundsAssumption DEF TypeOK
  <1>2. IsFiniteSet(1 .. made)
    BY <1>1, FS_Interval
  <1>3. Lost \in SUBSET (1 .. made)
    BY DEF Lost
  <1> QED BY <1>2, <1>3, FS_Subset, FS_CardinalityType

(* A subset of a finite set is no larger.                                  *)
LEMMA SmallerSet ==
  ASSUME NEW S, NEW T, IsFiniteSet(S), T \subseteq S
  PROVE  Cardinality(T) \in Nat /\ Cardinality(T) <= Cardinality(S)
  <1>1. IsFiniteSet(T) /\ Cardinality(T) <= Cardinality(S)
    BY FS_Subset, Zenon
  <1> QED BY <1>1, FS_CardinalityType

(* One more element makes a finite set larger by one at most.              *)
LEMMA LargerSet ==
  ASSUME NEW S, NEW x, IsFiniteSet(S), Cardinality(S) \in Nat
  PROVE  /\ IsFiniteSet(S \cup {x}) /\ Cardinality(S \cup {x}) \in Nat
         /\ Cardinality(S \cup {x}) <= Cardinality(S) + 1
  <1>1. PICK T : T = S \cup {x}
    OBVIOUS
  <1>2. /\ IsFiniteSet(T)
        /\ Cardinality(T) = IF x \in S THEN Cardinality(S) ELSE Cardinality(S) + 1
    BY <1>1, FS_AddElement, Zenon
  <1>3. Cardinality(T) \in Nat /\ Cardinality(T) <= Cardinality(S) + 1
    BY <1>2
  <1> QED BY <1>1, <1>2, <1>3, Zenon

(* What is lost anew costs a crash; nothing that is lost is found again.   *)
LEMMA NextLoss == LossInv /\ [Next]_vars => LossInv'
  <1> SUFFICES ASSUME LossInv, [Next]_vars PROVE LossInv'
    OBVIOUS
  <1> USE DEF LossInv
  <1>1. LogInv' /\ TypeOK /\ TypeOK'
    BY NextLogInv DEF LogInv
  <1>2. ASSUME Lost' \subseteq Lost, crashes' = crashes
        PROVE  LostOnlyToCrashes'
    <2>1. IsFiniteSet(Lost) /\ Cardinality(Lost) \in Nat
      BY <1>1, LostIsFinite
    <2>2. Cardinality(Lost') \in Nat /\ Cardinality(Lost') <= Cardinality(Lost)
      <3> HIDE DEF Lost
      <3> QED BY <1>2, <2>1, SmallerSet
    <2> QED BY <1>1, <1>2, <2>1, <2>2, BoundsAssumption DEF LostOnlyToCrashes, TypeOK
  <1>3. ASSUME NEW w \in Writers, Change(w)
        PROVE  LossInv'
    <2>1. RestingInv'
      BY <1>1, <1>3 DEF Change, RestingInv, TypeOK
    <2>2. Lost' \subseteq Lost
      BY <1>1, <1>3, BoundsAssumption DEF Change, RestingInv, TypeOK, Lost
    <2> QED BY <1>1, <1>2, <1>3, <2>1, <2>2 DEF Change
  <1>4. ASSUME NEW w \in Writers, Crash(w)
        PROVE  LossInv'
    <2>1. RestingInv'
      BY <1>1, <1>4 DEF Crash, RestingInv, TypeOK, Resting
    <2>2. Lost' \subseteq Lost \cup {writer[w].id}
      BY <1>1, <1>4 DEF Crash, TypeOK, Lost
    <2>3. /\ IsFiniteSet(Lost \cup {writer[w].id})
          /\ Cardinality(Lost \cup {writer[w].id}) \in Nat
          /\ Cardinality(Lost \cup {writer[w].id}) <= Cardinality(Lost) + 1
      <3>1. IsFiniteSet(Lost) /\ Cardinality(Lost) \in Nat
        BY <1>1, LostIsFinite
      <3> HIDE DEF Lost
      <3> QED BY <3>1, LargerSet
    <2>4. Cardinality(Lost') \in Nat /\ Cardinality(Lost') <= Cardinality(Lost \cup {writer[w].id})
      <3> HIDE DEF Lost
      <3> QED BY <2>2, <2>3, SmallerSet
    <2>5. LostOnlyToCrashes'
      BY <1>1, <1>4, <2>3, <2>4, LostIsFinite, BoundsAssumption
      DEF Crash, LostOnlyToCrashes, TypeOK
    <2> QED BY <1>1, <2>1, <2>5
  <1>5. ASSUME NEW w \in Writers, NEW n \in Cursors, Number(w, n)
        PROVE  LossInv'
    <2>1. RestingInv'
      BY <1>1, <1>5 DEF Number, RestingInv, TypeOK
    <2>2. Lost' \subseteq Lost
      BY <1>1, <1>5 DEF Number, TypeOK, Lost
    <2> QED BY <1>1, <1>2, <1>5, <2>1, <2>2 DEF Number
  <1>6. ASSUME NEW w \in Writers, NEW m \in Models, AppendChange(w, m)
        PROVE  LossInv'
    <2>1. RestingInv'
      BY <1>1, <1>6 DEF AppendChange, RestingInv, TypeOK, Resting
    <2>2. Lost' \subseteq Lost
      <3>1. \A v \in Writers \ {w} : writer'[v] = writer[v]
        BY <1>1, <1>6 DEF AppendChange, TypeOK
      <3> DEFINE row == Row(writer[w].id, writer[w].seq, m)
      <3>2. log' = log \cup {row} /\ made' = made /\ row.id = writer[w].id
        BY <1>6 DEF AppendChange, Row
      <3> HIDE DEF row
      <3> QED BY <3>1, <3>2 DEF Lost
    <2> QED BY <1>1, <1>2, <1>6, <2>1, <2>2 DEF AppendChange
  <1>7. ASSUME UNCHANGED <<made, crashes, log, writer>>
        PROVE  LossInv'
    BY <1>1, <1>7 DEF RestingInv, LostOnlyToCrashes, Lost
  <1> QED
    BY <1>3, <1>4, <1>5, <1>6, <1>7
    DEF Next, vars, Tick, StreamTick, Receive, ReceiveFrame, Reconnect, Poll,
        StartPoll, FinishPoll

LEMMA InitLoss == Init => LossInv
  <1> SUFFICES ASSUME Init PROVE LossInv
    OBVIOUS
  <1>1. Lost = {}
    BY DEF Init, Lost
  <1> QED
    BY <1>1, InitLogInv, FS_EmptySet DEF Init, LossInv, RestingInv, Resting, LostOnlyToCrashes

(***************************************************************************)
(* No row goes missing because calls overlap and take the same number: a   *)
(* change is lost only with a process that stopped between its two commits *)
(* (manage.py:576-585, feed.py:135-151), for any number of writers.        *)
(***************************************************************************)
THEOREM OnlyCrashesLose == Spec => []LostOnlyToCrashes
  <1>1. LossInv => LostOnlyToCrashes
    BY DEF LossInv
  <1> QED BY InitLoss, NextLoss, <1>1, PTL DEF Spec


-----------------------------------------------------------------------------
(***************************************************************************)
(* The event stream implements the abstract feed as long as no call has    *)
(* disturbed another's row: its steps are the feed's, or nothing to it.    *)
(***************************************************************************)
LEMMA InitFeedInv == Init => FeedInv
  BY InitStreamInv, FS_EmptySet DEF Init, FeedInv, NumberedInv, PrefixInv, PrefixHolds

(* An undisturbed row that is committed is the next one.                   *)
LEMMA AppendNumbered ==
  ASSUME FeedInv, Ordered', NEW w \in Writers, NEW m \in Models, AppendChange(w, m)
  PROVE  /\ Ordered
         /\ \/ log' = log
            \/ /\ Cardinality(log') = Cardinality(log) + 1
               /\ \E row \in log' : /\ row.seq = Cardinality(log) + 1
                                   /\ row.id = writer[w].id
                                   /\ log' = log \cup {row}
  <1> USE DEF FeedInv, StreamInv
  <1>1. PICK row \in Rows :
          /\ row.id = writer[w].id /\ row.seq = writer[w].seq
          /\ log' = log \cup {row}
          /\ \A r \in log : Undisturbed(r)' => Undisturbed(r)
          /\ Undisturbed(row)' => row \in log \/ \A r \in log : r.seq < row.seq
    BY AppendedRow
  <1>4. Ordered
    BY <1>1 DEF Ordered
  <1>5. CASE row \in log
    BY <1>1, <1>4, <1>5
  <1>6. CASE row \notin log
    <2>1. \A r \in log : r.seq < row.seq
      BY <1>1, <1>6 DEF Ordered
    <2>2. Cardinality(log) \in Nat
      BY FS_CardinalityType
    <2>3. row.seq \in Nat \ {0} /\ \A r \in log : r.seq \in Nat
      BY <1>1 DEF LogInv, TypeOK, Rows
    <2>4. row.seq = 1 \/ \E q \in log : q.seq = row.seq - 1
      BY <1>1 DEF AppendChange, LogInv, WritersInv
    <2>5. row.seq <= Cardinality(log) + 1
      BY <1>4, <2>2, <2>3, <2>4 DEF NumberedInv
    <2>6. row.seq >= Cardinality(log) + 1
      <3>1. CASE Cardinality(log) = 0
        BY <2>3, <3>1
      <3>2. CASE Cardinality(log) # 0
        <4>1. PICK r \in log : r.seq = Cardinality(log)
          BY <1>4, <2>2, <3>2 DEF NumberedInv
        <4> QED BY <2>1, <2>2, <2>3, <4>1
      <3> QED BY <3>1, <3>2
    <2>7. row.seq = Cardinality(log) + 1
      BY <2>2, <2>3, <2>5, <2>6
    <2>8. Cardinality(log') = Cardinality(log) + 1
      BY <1>1, <1>6, FS_AddElement
    <2> QED BY <1>1, <1>4, <2>7, <2>8
  <1> QED BY <1>5, <1>6

LEMMA NextFinite ==
  ASSUME FeedInv, [Next]_vars
  PROVE  IsFiniteSet(log')
  <1>1. ASSUME NEW w \in Writers, NEW m \in Models, AppendChange(w, m)
        PROVE  IsFiniteSet(log')
    BY <1>1, FS_AddElement DEF AppendChange, FeedInv
  <1>2. ASSUME UNCHANGED log
        PROVE  IsFiniteSet(log')
    BY <1>2 DEF FeedInv
  <1> QED
    BY <1>1, <1>2
    DEF Next, vars, Change, Crash, Number, Tick, StreamTick, Receive, ReceiveFrame, Reconnect,
        Poll, StartPoll, FinishPoll

(* A log that is ordered was so before.                                    *)
LEMMA StaysOrdered ==
  ASSUME FeedInv, [Next]_vars, Ordered'
  PROVE  Ordered
  <1>1. ASSUME NEW w \in Writers, NEW m \in Models, AppendChange(w, m)
        PROVE  Ordered
    BY <1>1, AppendNumbered
  <1>2. ASSUME UNCHANGED log
        PROVE  Ordered
    BY <1>2 DEF Ordered, Undisturbed
  <1> QED
    BY <1>1, <1>2
    DEF Next, vars, Change, Crash, Number, Tick, StreamTick, Receive, ReceiveFrame, Reconnect,
        Poll, StartPoll, FinishPoll

LEMMA NextNumbered ==
  ASSUME FeedInv, [Next]_vars, Ordered'
  PROVE  NumberedInv'
  <1>0. /\ Cardinality(log) \in Nat /\ Ordered /\ NumberedInv
    BY FS_CardinalityType, StaysOrdered DEF FeedInv
  <1>1. ASSUME NEW w \in Writers, NEW m \in Models, AppendChange(w, m), log' # log
        PROVE  NumberedInv'
    <2>1. PICK row \in log' : row.seq = Cardinality(log) + 1 /\ log' = log \cup {row}
      BY <1>1, AppendNumbered
    <2>2. Cardinality(log') = Cardinality(log) + 1
      BY <1>1, AppendNumbered
    <2>3. \A r \in log : r.seq \in Nat
      BY DEF FeedInv, StreamInv, LogInv, TypeOK, Rows
    <2>4. \A r \in log' : r.seq <= Cardinality(log')
      BY <1>0, <2>1, <2>2, <2>3 DEF NumberedInv
    <2>5. ASSUME NEW n \in 1 .. Cardinality(log')
          PROVE  \E r \in log' : r.seq = n
      <3>1. CASE n = Cardinality(log) + 1
        BY <2>1, <3>1
      <3>2. CASE n # Cardinality(log) + 1
        <4>1. n \in 1 .. Cardinality(log)
          BY <1>0, <2>2, <3>2
        <4> QED BY <1>0, <2>1, <4>1 DEF NumberedInv
      <3> QED BY <3>1, <3>2
    <2> QED BY <2>4, <2>5 DEF NumberedInv
  <1>2. ASSUME UNCHANGED log
        PROVE  NumberedInv'
    BY <1>0, <1>2 DEF NumberedInv
  <1> QED
    BY <1>1, <1>2
    DEF Next, vars, Change, Crash, Number, Tick, StreamTick, Receive, ReceiveFrame, Reconnect,
        Poll, StartPoll, FinishPoll

(* Between a client's last frame and the next there is no number. *)
LEMMA NextFrame ==
  ASSUME FeedInv, Ordered, NEW s \in Streams, NEW row \in stream[s].pending,
         ReceiveFrame(s, row)
  PROVE  /\ row \in log /\ row.seq = stream[s].last + 1 /\ stream[s].last \in Nat
         /\ row.seq <= Cardinality(log) /\ Cardinality(log) \in Nat
  <1> USE DEF FeedInv, StreamInv, LogInv
  <1>1. /\ stream[s].last \in Nat /\ row \in log /\ stream[s].last <= row.seq
        /\ Cardinality(log) \in Nat /\ row.seq <= Cardinality(log)
        /\ \A r \in log : r.seq \in Nat /\ Undisturbed(r)
    BY FS_CardinalityType DEF NumberedInv, StreamsInv, StreamHolds, TypeOK, Rows, Ordered
  <1>2. stream[s].last < row.seq
    BY <1>1 DEF StreamsInv, StreamHolds
  <1>3. PICK r \in log : r.seq = stream[s].last + 1
    BY <1>1, <1>2 DEF NumberedInv
  <1>4. r \in stream[s].pending
    BY <1>1, <1>2, <1>3 DEF StreamsInv, StreamHolds
  <1>5. row.seq <= r.seq
    BY <1>4 DEF ReceiveFrame
  <1> QED BY <1>1, <1>2, <1>3, <1>5

(* The server's ticks and a lost connection leave what a client has. *)
LEMMA NothingReceived ==
  ASSUME FeedInv, NEW s \in Streams, Tick(s) \/ Reconnect(s)
  PROVE  /\ \A t \in Streams : stream'[t].got = stream[t].got /\ stream'[t].last = stream[t].last
         /\ log' = log
  <1>1. stream \in [Streams -> [last : Nat, pending : SUBSET Rows, got : Seq(Ids), drops : Nat]]
    BY DEF FeedInv, StreamInv, LogInv, TypeOK
  <1>2. PICK pending, drops :
          stream' = [stream EXCEPT ![s] = [last |-> stream[s].last, pending |-> pending,
                                           got |-> stream[s].got, drops |-> drops]]
    BY DEF Tick, StreamTick, Reconnect
  <1>3. log' = log
    BY DEF Tick, StreamTick, Reconnect
  <1> QED BY <1>1, <1>2, <1>3

LEMMA NextPrefix ==
  ASSUME FeedInv, [Next]_vars, Ordered'
  PROVE  PrefixInv'
  <1> USE DEF FeedInv, StreamInv, LogInv
  <1>0. Ordered
    BY StaysOrdered
  <1>1. ASSUME NEW s \in Streams, NEW row \in stream[s].pending, ReceiveFrame(s, row)
        PROVE  PrefixInv'
    <2> DEFINE S == stream[s]
    <2>1. /\ row \in log /\ row.seq = S.last + 1 /\ S.last \in Nat
      BY <1>0, <1>1, NextFrame
    <2>2. S.got \in Seq(Ids) /\ row.id \in Ids /\ Len(S.got) = S.last
      BY <1>0, <2>1 DEF TypeOK, Rows, PrefixInv, PrefixHolds
    <2>3. /\ \A t \in Streams \ {s} : stream'[t] = stream[t]
          /\ stream'[s].last = row.seq /\ stream'[s].got = Append(S.got, row.id)
          /\ log' = log
      BY <1>1 DEF ReceiveFrame, TypeOK
    <2>4. Len(stream'[s].got) = stream'[s].last
      BY <2>1, <2>2, <2>3
    <2>5. ASSUME NEW i \in 1 .. stream'[s].last
          PROVE  \E r \in log : r.seq = i /\ stream'[s].got[i] = r.id
      <3>1. CASE i = S.last + 1
        BY <2>1, <2>2, <2>3, <3>1
      <3>2. CASE i # S.last + 1
        <4>1. i \in 1 .. S.last /\ i \in DOMAIN S.got
          BY <2>1, <2>2, <2>3, <3>2
        <4>2. Append(S.got, row.id)[i] = S.got[i]
          BY <2>2, <4>1, AppendedKeeps
        <4> QED BY <1>0, <2>3, <4>1, <4>2 DEF PrefixInv, PrefixHolds
      <3> QED BY <3>1, <3>2
    <2>6. \A t \in Streams \ {s} : PrefixHolds(t)'
      BY <1>0, <2>3 DEF PrefixInv, PrefixHolds
    <2>7. \A i \in 1 .. stream'[s].last :
             \E r \in log' : r.seq = i /\ stream'[s].got[i] = r.id
      BY <2>3, <2>5
    <2>8. PrefixHolds(s)'
      BY <2>4, <2>7 DEF PrefixHolds
    <2> HIDE DEF S
    <2> QED BY <2>6, <2>8, Zenon DEF PrefixInv
  <1>2. ASSUME NEW s \in Streams, Tick(s) \/ Reconnect(s)
        PROVE  PrefixInv'
    BY <1>0, <1>2, NothingReceived DEF PrefixInv, PrefixHolds
  <1>3. ASSUME log \subseteq log', UNCHANGED stream
        PROVE  PrefixInv'
    BY <1>0, <1>3 DEF PrefixInv, PrefixHolds
  <1> QED
    BY <1>1, <1>2, <1>3
    DEF Next, vars, Change, Crash, Number, AppendChange, Receive, Poll, StartPoll, FinishPoll

(* The log as a sequence: the n-th number's change. *)
RecordedHolds ==
  /\ Cardinality(log) \in Nat
  /\ \A r \in log : r.seq \in 1 .. Cardinality(log) /\ Recorded[r.seq] = r.id
  /\ Recorded \in Seq(Ids) /\ Len(Recorded) = Cardinality(log)

LEMMA RecordedIs == FeedInv /\ Ordered => RecordedHolds
  <1> SUFFICES ASSUME FeedInv, Ordered PROVE RecordedHolds
    OBVIOUS
  <1> USE DEF FeedInv, StreamInv, LogInv
  <1>1. /\ Cardinality(log) \in Nat
        /\ \A r \in log : r.seq \in Nat \ {0} /\ r.id \in Ids
    BY FS_CardinalityType DEF NumberedInv, TypeOK, Rows
  <1>2. \A r \in log : r.seq \in 1 .. Cardinality(log)
    BY <1>1 DEF NumberedInv
  <1>3. \A q, r \in log : q.seq = r.seq => q = r
    BY DEF Ordered, Undisturbed
  <1>4. \A r \in log : Recorded[r.seq] = r.id
    <2> SUFFICES ASSUME NEW r \in log PROVE Recorded[r.seq] = r.id
      OBVIOUS
    <2>1. (CHOOSE q \in log : q.seq = r.seq) = r
      BY <1>3
    <2> QED BY <1>2, <2>1 DEF Recorded
  <1>5. Recorded \in [1 .. Cardinality(log) -> Ids]
    <2>1. ASSUME NEW n \in 1 .. Cardinality(log)
          PROVE  (CHOOSE r \in log : r.seq = n).id \in Ids
      <3>1. \E r \in log : r.seq = n
        BY DEF NumberedInv
      <3>2. (CHOOSE r \in log : r.seq = n) \in log
        BY <3>1
      <3> QED BY <1>1, <3>2
    <2> QED BY <2>1 DEF Recorded
  <1>6. Recorded \in Seq(Ids) /\ Len(Recorded) = Cardinality(log)
    BY <1>1, <1>5
  <1> QED BY <1>1, <1>2, <1>4, <1>6 DEF RecordedHolds


(* Two sequences of one length, with the same elements, are one. *)
LEMMA AppendedSequence ==
  ASSUME NEW old \in Seq(Ids), NEW id \in Ids, NEW new \in Seq(Ids),
         Len(new) = Len(old) + 1, new[Len(new)] = id,
         \A i \in 1 .. Len(old) : new[i] = old[i]
  PROVE  new = Append(old, id)
  OBVIOUS

(* A row committed is a change recorded. *)
LEMMA AppendRecords ==
  ASSUME FeedInv, FeedInv', Ordered', NEW w \in Writers, NEW m \in Models,
         AppendChange(w, m), log' # log
  PROVE  Feed!Record(writer[w].id) /\ writer[w].id \in Ids
  <1>0. Ordered
    BY AppendNumbered
  <1>1. PICK row \in log' : /\ row.seq = Cardinality(log) + 1 /\ row.id = writer[w].id
                            /\ log' = log \cup {row}
    BY AppendNumbered
  <1>2. Cardinality(log) \in Nat /\ Cardinality(log') = Cardinality(log) + 1
    BY AppendNumbered, FS_CardinalityType DEF FeedInv
  <1>3. row.id \in Ids
    BY <1>1 DEF FeedInv, StreamInv, LogInv, TypeOK, Rows
  <1>4. Recorded \in Seq(Ids) /\ Len(Recorded) = Cardinality(log)
    BY <1>0, RecordedIs DEF RecordedHolds
  <1>5. /\ Recorded' \in Seq(Ids) /\ Len(Recorded') = Cardinality(log')
        /\ \A r \in log' : Recorded'[r.seq] = r.id
    <2>1. RecordedHolds'
      BY RecordedIs, PTL
    <2> QED BY <2>1 DEF RecordedHolds
  <1>6. Recorded'[Len(Recorded')] = row.id
    BY <1>1, <1>2, <1>5
  <1>7. ASSUME NEW i \in 1 .. Len(Recorded) PROVE Recorded'[i] = Recorded[i]
    <2>1. PICK r \in log : r.seq = i
      BY <1>0, <1>4 DEF FeedInv, NumberedInv
    <2>2. Recorded[i] = r.id
      BY <1>0, <2>1, RecordedIs DEF RecordedHolds
    <2> QED BY <1>1, <1>5, <2>1, <2>2
  <1>8. Recorded' = Append(Recorded, row.id)
    BY <1>2, <1>3, <1>4, <1>5, <1>6, <1>7, AppendedSequence
  <1>9. UNCHANGED [s \in Streams |-> stream[s].got]
    BY DEF AppendChange
  <1> QED BY <1>1, <1>3, <1>8, <1>9 DEF Feed!Record

(* A frame received is a change delivered, the consumer's next. *)
LEMMA ReceiveDelivers ==
  ASSUME FeedInv, Ordered, NEW s \in Streams, NEW row \in stream[s].pending,
         ReceiveFrame(s, row)
  PROVE  Feed!Deliver(s)
  <1> DEFINE received == [t \in Streams |-> stream[t].got]
  <1>1. /\ row \in log /\ row.seq = stream[s].last + 1 /\ stream[s].last \in Nat
        /\ row.seq <= Cardinality(log) /\ Cardinality(log) \in Nat
    BY NextFrame
  <1>2. Len(stream[s].got) = stream[s].last
    BY DEF FeedInv, PrefixInv, PrefixHolds
  <1>3. Recorded[Len(stream[s].got) + 1] = row.id /\ Len(Recorded) = Cardinality(log)
    BY <1>1, <1>2, RecordedIs DEF RecordedHolds
  <1>4. /\ \A t \in Streams \ {s} : stream'[t].got = stream[t].got
        /\ stream'[s].got = Append(stream[s].got, row.id)
    BY DEF ReceiveFrame, FeedInv, StreamInv, LogInv, TypeOK
  <1>5. received' = [received EXCEPT ![s] = Append(@, Recorded[Len(@) + 1])]
    BY <1>3, <1>4
  <1>6. UNCHANGED Recorded
    BY DEF ReceiveFrame, Recorded
  <1> QED BY <1>1, <1>2, <1>3, <1>5, <1>6 DEF Feed!Deliver

LEMMA FeedStep ==
  ASSUME FeedInv, FeedInv', [Next]_vars, Ordered'
  PROVE  [Feed!Next]_(Feed!vars)
  <1>0. Ordered
    BY StaysOrdered
  <1>1. ASSUME NEW w \in Writers, NEW m \in Models, AppendChange(w, m)
        PROVE  Feed!Next \/ UNCHANGED Feed!vars
    <2>1. CASE log' # log
      BY <1>1, <2>1, AppendRecords DEF Feed!Next
    <2>2. CASE log' = log
      <3>1. stream' = stream
        BY <1>1 DEF AppendChange
      <3> QED BY <2>2, <3>1 DEF Recorded, Feed!vars
    <2> QED BY <2>1, <2>2
  <1>2. ASSUME NEW s \in Streams, Receive(s)
        PROVE  Feed!Next
    BY <1>0, <1>2, ReceiveDelivers DEF Receive, Feed!Next
  <1>3. ASSUME UNCHANGED log, \A s \in Streams : stream'[s].got = stream[s].got
        PROVE  UNCHANGED Feed!vars
    BY <1>3 DEF Recorded, Feed!vars
  <1>4. ASSUME NEW s \in Streams, Tick(s) \/ Reconnect(s)
        PROVE  UNCHANGED Feed!vars
    BY <1>3, <1>4, NothingReceived
  <1> QED
    BY <1>1, <1>2, <1>3, <1>4
    DEF Next, vars, Change, Crash, Number, Poll, StartPoll, FinishPoll

LEMMA NextFeedInv == FeedInv /\ [Next]_vars => FeedInv'
  <1> SUFFICES ASSUME FeedInv, [Next]_vars PROVE FeedInv'
    OBVIOUS
  <1>1. StreamInv'
    BY NextLogInv, NextStreams DEF FeedInv, StreamInv
  <1>2. IsFiniteSet(log')
    BY NextFinite
  <1>3. Ordered' => NumberedInv' /\ PrefixInv'
    BY NextNumbered, NextPrefix
  <1> QED BY <1>1, <1>2, <1>3 DEF FeedInv

(* Unless it lets a call disturb a row, a step is the feed's or none to it. *)
FollowsFeed == Ordered' => [Feed!Next]_(Feed!vars)

(***************************************************************************)
(* What a client of the event stream receives is the log, in order,        *)
(* without a gap or a repetition, across lost connections: up to the first *)
(* row that an overlapping call disturbs, every step of the feed is one of *)
(* the abstract feed's or nothing to it, for any number of writers and     *)
(* streams and any page size (oscal.py:171-246).                           *)
(***************************************************************************)
THEOREM StreamFollowsFeed == Spec => Feed!Init /\ [][FollowsFeed]_vars
  <1>1. Init => Feed!Init
    <2> SUFFICES ASSUME Init PROVE Feed!Init
      OBVIOUS
    <2>1. Cardinality(log) = 0
      BY FS_EmptySet DEF Init
    <2> QED BY <2>1 DEF Init, Feed!Init, Recorded
  <1>2. FeedInv /\ FeedInv' /\ [Next]_vars => [FollowsFeed]_vars
    BY FeedStep DEF FollowsFeed
  <1> QED BY InitFeedInv, NextFeedInv, <1>1, <1>2, PTL DEF Spec

-----------------------------------------------------------------------------
(***************************************************************************)
(* ChangeSubscriptions, for any number of subscriptions, tasks, changes    *)
(* and failures: the invariant FanOutInv, and with it that a suspension    *)
(* was earned and a cursor delivered; that no step of any task brings a    *)
(* suspended subscription back; and that a task that ends has posted to    *)
(* all it had to.                                                          *)
(***************************************************************************)

(* What a commit writes over a row is a row. *)
LEMMA AfterType ==
  ASSUME NEW row \in SubRows, NEW seen \in SubRows, NEW n \in Nat
  PROVE  AfterSuccess(row, seen, n) \in SubRows /\ AfterFailure(row, seen, n) \in SubRows
<1>1. Written(seen.failures, 0, row.failures) \in Nat
  BY DEF SubRows, Written
<1>2. Written(seen.cursor, n, row.cursor) \in Nat
  BY DEF SubRows, Written
<1>3. seen.failures + 1 \in Nat
  BY DEF SubRows
<1> QED BY <1>1, <1>2, <1>3 DEF AfterSuccess, AfterFailure, SubRows

(* The row a commit leaves of a subscription. *)
LEMMA CommitRow ==
  ASSUME FanOutTypeOK, NEW t \in Tasks, CommitFanOut(t), NEW s \in Subs
  PROVE  \/ task[t].result[s] = "none" /\ subs'[s] = subs[s]
         \/ /\ task[t].result[s] = "ok"
            /\ subs'[s] = AfterSuccess(subs[s], task[t].loaded[s], task[t].change)
         \/ /\ task[t].result[s] = "failed"
            /\ subs'[s] = AfterFailure(subs[s], task[t].loaded[s], task[t].change)
<1>1. task[t].result[s] \in {"none", "ok", "failed"}
  BY DEF FanOutTypeOK, TaskRecords, Results
<1> QED BY <1>1 DEF CommitFanOut

(* A task is posted with a result: its record keeps its type. *)
LEMMA PostedType ==
  ASSUME FanOutTypeOK, NEW t \in Tasks, NEW s \in Subs, NEW r \in Results, Posted(t, s, r)
  PROVE  task' \in [Tasks -> TaskRecords] /\ tried' \subseteq Subs \X Nat
<1>1. task[t] \in TaskRecords
  BY DEF FanOutTypeOK
<1>2. [task[t] EXCEPT !.todo = @ \ {s}, !.result[s] = r] \in TaskRecords
  BY <1>1 DEF TaskRecords
<1>3. task' = [task EXCEPT ![t] = [task[t] EXCEPT !.todo = @ \ {s}, !.result[s] = r]]
  BY DEF Posted, FanOutTypeOK
<1>4. task' \in [Tasks -> TaskRecords]
  BY <1>2, <1>3 DEF FanOutTypeOK
<1>5. task[t].change \in Nat
  BY <1>1 DEF TaskRecords
<1> QED BY <1>4, <1>5 DEF Posted, FanOutTypeOK

LEMMA NoTaskType == NoTask \in TaskRecords
BY DEF NoTask, TaskRecords, NoSub, SubRows, Results

LEMMA FanOutInitInv == FanOutInit => FanOutInv
<1> SUFFICES ASSUME FanOutInit PROVE FanOutInv
  OBVIOUS
<1>1. FanOutTypeOK
  BY FanOutBounds, NoTaskType DEF FanOutInit, FanOutTypeOK, NoSub, SubRows
<1>2. SuspensionWasEarned /\ CursorWasHeard
  BY DEF FanOutInit, SuspensionWasEarned, CursorWasHeard, NoSub
<1>3. CountsInv
  <2>1. ASSUME NEW s \in Subs PROVE subs[s].failures <= failed[s]
    BY DEF FanOutInit, NoSub
  <2>2. ASSUME NEW s \in Subs, NEW t \in Tasks
        PROVE  task[t].loaded[s].failures <= failed[s] /\ task[t].result[s] = "none"
    BY DEF FanOutInit, NoTask, NoSub
  <2> QED BY <2>1, <2>2 DEF CountsInv
<1> QED BY <1>1, <1>2, <1>3 DEF FanOutInv

LEMMA FanOutNextType == FanOutTypeOK /\ [FanOutNext]_fanOutVars => FanOutTypeOK'
<1> SUFFICES ASSUME FanOutTypeOK, [FanOutNext]_fanOutVars PROVE FanOutTypeOK'
  OBVIOUS
<1> USE FanOutBounds, ModelsAssumption
<1>1. ASSUME NEW m \in Events, Record(m) PROVE FanOutTypeOK'
  BY <1>1 DEF FanOutTypeOK, Record
<1>2. ASSUME NEW t \in Tasks, NEW m \in Events, RecordImport(t, m) \/ RecordDrive(t, m) PROVE FanOutTypeOK'
  <2>1. changes' \in Seq(Events) /\ Len(changes') <= MaxRecorded
    <3>1. changes \in Seq(Events) /\ Len(changes) \in Nat /\ Len(changes) < MaxRecorded
          /\ changes' = Append(changes, m)
      BY <1>2 DEF FanOutTypeOK, RecordImport, RecordDrive
    <3> QED BY <3>1
  <2>2. \E n \in Nat : Schedule(t, n)
    BY <1>2 DEF FanOutTypeOK, RecordImport, RecordDrive
  <2>3. task' \in [Tasks -> TaskRecords]
    <3>1. PICK n \in Nat : Schedule(t, n)
      BY <2>2
    <3>2. [NoTask EXCEPT !.pc = "scheduled", !.change = n] \in TaskRecords
      BY NoTaskType DEF TaskRecords
    <3> QED BY <3>1, <3>2 DEF FanOutTypeOK, Schedule
  <2> QED BY <1>2, <2>1, <2>3 DEF FanOutTypeOK, RecordImport, RecordDrive
<1>3. ASSUME NEW s \in Subs, NEW k \in Keys, NEW filter \in Filters, OpenSubscription(s, k, filter)
      PROVE FanOutTypeOK'
  <2>1. [state |-> "opening", key |-> {k}, models |-> filter,
         since |-> Len(changes), cursor |-> Len(changes), failures |-> 0] \in SubRows
    BY DEF SubRows, FanOutTypeOK
  <2> QED BY <1>3, <2>1 DEF FanOutTypeOK, OpenSubscription
<1>4. ASSUME NEW s \in Subs, CommitSubscription(s) \/ DeleteSubscription(s) PROVE FanOutTypeOK'
  <2>1. subs[s] \in SubRows
    BY DEF FanOutTypeOK
  <2>2. [subs[s] EXCEPT !.state = "active"] \in SubRows
        /\ [subs[s] EXCEPT !.state = "deleted"] \in SubRows
    BY <2>1 DEF SubRows
  <2>3. subs' \in [Subs -> SubRows]
    BY <1>4, <2>2 DEF FanOutTypeOK, CommitSubscription, DeleteSubscription
  <2> QED BY <1>4, <2>3 DEF FanOutTypeOK, CommitSubscription, DeleteSubscription
<1>5. ASSUME NEW k \in Keys, CutKey(k) PROVE FanOutTypeOK'
  BY <1>5 DEF FanOutTypeOK, CutKey
<1>6. ASSUME NEW t \in Tasks, StartFanOut(t) PROVE FanOutTypeOK'
  <2> DEFINE n == IF task[t].change = 0 THEN Len(changes) ELSE task[t].change
  <2> DEFINE todo == {s \in Subs : subs[s].state = "active" /\ CaresAbout(s, changes[n])}
  <2>1. n \in Nat
    BY DEF FanOutTypeOK, TaskRecords
  <2>2. [NoTask EXCEPT !.pc = "running", !.change = n, !.loaded = subs, !.todo = todo]
          \in TaskRecords
    BY <2>1, NoTaskType DEF FanOutTypeOK, TaskRecords
  <2>3. task' = [task EXCEPT ![t] =
          [NoTask EXCEPT !.pc = "running", !.change = n, !.loaded = subs, !.todo = todo]]
    BY <1>6 DEF StartFanOut, NoTask
  <2>4. task' \in [Tasks -> TaskRecords]
    BY <2>2, <2>3 DEF FanOutTypeOK
  <2> QED BY <1>6, <2>4 DEF FanOutTypeOK, StartFanOut
<1>7. ASSUME NEW t \in Tasks, NEW s \in Subs, DeliverOk(t, s) PROVE FanOutTypeOK'
  <2>1. task' \in [Tasks -> TaskRecords] /\ tried' \subseteq Subs \X Nat
    BY <1>7, PostedType DEF DeliverOk, Results
  <2>2. task[t].change \in Nat
    BY DEF FanOutTypeOK, TaskRecords
  <2> QED BY <1>7, <2>1, <2>2 DEF FanOutTypeOK, DeliverOk
<1>8. ASSUME NEW t \in Tasks, NEW s \in Subs, DeliverFails(t, s) PROVE FanOutTypeOK'
  <2>1. task' \in [Tasks -> TaskRecords] /\ tried' \subseteq Subs \X Nat
    BY <1>8, PostedType DEF DeliverFails, Results
  <2>2. task[t].change \in Nat
    BY DEF FanOutTypeOK, TaskRecords
  <2>3. failed' \in [Subs -> Nat]
    BY <1>8 DEF FanOutTypeOK, DeliverFails
  <2> QED BY <1>8, <2>1, <2>2, <2>3 DEF FanOutTypeOK, DeliverFails
<1>9. ASSUME NEW t \in Tasks, CommitFanOut(t) PROVE FanOutTypeOK'
  <2>1. ASSUME NEW s \in Subs PROVE subs'[s] \in SubRows
    <3>1. subs[s] \in SubRows /\ task[t].loaded[s] \in SubRows /\ task[t].change \in Nat
      BY DEF FanOutTypeOK, TaskRecords
    <3> QED BY <1>9, <3>1, CommitRow, AfterType
  <2>2. subs' \in [Subs -> SubRows]
    BY <1>9, <2>1 DEF CommitFanOut
  <2>3. task' \in [Tasks -> TaskRecords]
    BY <1>9, NoTaskType DEF FanOutTypeOK, CommitFanOut
  <2> QED BY <1>9, <2>2, <2>3 DEF FanOutTypeOK, CommitFanOut
<1>10. ASSUME NEW t \in Tasks, FailFanOut(t) \/ LoseTask(t) PROVE FanOutTypeOK'
  <2>1. task' \in [Tasks -> TaskRecords]
    BY <1>10, NoTaskType DEF FanOutTypeOK, FailFanOut, LoseTask
  <2> QED BY <1>10, <2>1 DEF FanOutTypeOK, FailFanOut, LoseTask
<1>11. CASE UNCHANGED fanOutVars
  BY <1>11 DEF FanOutTypeOK, fanOutVars
<1> QED
  BY <1>1, <1>2, <1>3, <1>4, <1>5, <1>6, <1>7, <1>8, <1>9, <1>10, <1>11
  DEF FanOutNext, RunTask, Deliver

(* The counts hold after a step that adds to the histories only and, of    *)
(* the tasks, changes t alone, if they hold for t.                         *)
LEMMA OtherTasks ==
  ASSUME FanOutInv, NEW t \in Tasks,
         UNCHANGED <<subs, failed>>, heard \subseteq heard',
         \A u \in Tasks \ {t} : task'[u] = task[u],
         \A s \in Subs :
           /\ task'[t].loaded[s].failures <= failed[s]
           /\ task'[t].result[s] = "failed" => task'[t].loaded[s].failures < failed[s]
           /\ task'[t].result[s] = "ok" => <<s, task'[t].change>> \in heard'
  PROVE  CountsInv'
<1>1. ASSUME NEW s \in Subs PROVE subs'[s].failures <= failed'[s]
  BY DEF FanOutInv, CountsInv
<1>2. ASSUME NEW s \in Subs, NEW u \in Tasks
      PROVE  /\ task'[u].loaded[s].failures <= failed'[s]
             /\ task'[u].result[s] = "failed" => task'[u].loaded[s].failures < failed'[s]
             /\ task'[u].result[s] = "ok" => <<s, task'[u].change>> \in heard'
  <2>1. CASE u = t
    BY <2>1
  <2>2. CASE u # t
    BY <2>2 DEF FanOutInv, CountsInv
  <2> QED BY <2>1, <2>2
<1> QED BY <1>1, <1>2 DEF CountsInv

(***************************************************************************)
(* Every step but three leaves the counts, the cursors and what the tasks  *)
(* hold alone: a fan-out that starts, a delivery and a commit.             *)
(***************************************************************************)
LEMMA FanOutNextInv == FanOutInv /\ [FanOutNext]_fanOutVars => FanOutInv'
<1> SUFFICES ASSUME FanOutInv, [FanOutNext]_fanOutVars PROVE FanOutInv'
  OBVIOUS
<1> USE FanOutBounds, MaxFailuresAssumption
<1>0. FanOutTypeOK /\ FanOutTypeOK'
  BY FanOutNextType DEF FanOutInv
<1> DEFINE Rest == SuspensionWasEarned /\ CursorWasHeard /\ CountsInv
<1>1. ASSUME NEW m \in Events, Record(m) PROVE Rest'
  BY <1>1 DEF FanOutInv, Record, SuspensionWasEarned, CursorWasHeard, CountsInv
<1>2. ASSUME NEW t \in Tasks, NEW m \in Events, RecordImport(t, m) \/ RecordDrive(t, m) PROVE Rest'
  <2>1. PICK n \in Nat : Schedule(t, n)
    BY <1>0, <1>2 DEF FanOutTypeOK, RecordImport, RecordDrive
  <2>2. /\ task'[t] = [NoTask EXCEPT !.pc = "scheduled", !.change = n]
        /\ \A u \in Tasks \ {t} : task'[u] = task[u]
    BY <1>0, <2>1 DEF FanOutTypeOK, Schedule
  <2>3. UNCHANGED <<subs, heard, failed>>
    BY <1>2 DEF RecordImport, RecordDrive
  <2>4. ASSUME NEW x \in Subs
        PROVE  task'[t].loaded[x].failures = 0 /\ task'[t].result[x] = "none"
    BY <2>2 DEF NoTask, NoSub
  <2>5. \A x \in Subs : failed[x] \in Nat
    BY <1>0 DEF FanOutTypeOK
  <2>6. CountsInv'
    <3>1. ASSUME NEW x \in Subs
          PROVE  task'[t].loaded[x].failures <= failed[x] /\ task'[t].result[x] = "none"
      BY <2>4, <2>5
    <3> QED BY <2>2, <2>3, <3>1, OtherTasks
  <2> QED BY <2>3, <2>6 DEF FanOutInv, SuspensionWasEarned, CursorWasHeard
<1>3. ASSUME NEW s \in Subs, NEW k \in Keys, NEW filter \in Filters, OpenSubscription(s, k, filter)
      PROVE Rest'
  <2>1. subs'[s].failures = 0 /\ subs'[s].cursor = subs'[s].since /\ subs'[s].state = "opening"
    BY <1>0, <1>3 DEF FanOutTypeOK, OpenSubscription
  <2>2. \A x \in Subs \ {s} : subs'[x] = subs[x]
    BY <1>0, <1>3 DEF FanOutTypeOK, OpenSubscription
  <2>3. UNCHANGED <<task, heard, failed>>
    BY <1>3 DEF OpenSubscription
  <2>4. failed[s] \in Nat
    BY <1>0 DEF FanOutTypeOK
  <2>5. CountsInv'
    <3>1. ASSUME NEW x \in Subs PROVE subs'[x].failures <= failed[x]
      BY <2>1, <2>2, <2>4 DEF FanOutInv, CountsInv
    <3> QED BY <2>3, <3>1 DEF FanOutInv, CountsInv
  <2>6. SuspensionWasEarned' /\ CursorWasHeard'
    BY <2>1, <2>2, <2>3 DEF FanOutInv, SuspensionWasEarned, CursorWasHeard
  <2> QED BY <2>5, <2>6
<1>4. ASSUME NEW s \in Subs, CommitSubscription(s) \/ DeleteSubscription(s) PROVE Rest'
  <2>1. /\ subs'[s].failures = subs[s].failures /\ subs'[s].cursor = subs[s].cursor
        /\ subs'[s].since = subs[s].since /\ subs'[s].state # "suspended"
    BY <1>0, <1>4 DEF FanOutTypeOK, SubRows, CommitSubscription, DeleteSubscription
  <2>2. \A x \in Subs \ {s} : subs'[x] = subs[x]
    BY <1>0, <1>4 DEF FanOutTypeOK, CommitSubscription, DeleteSubscription
  <2>3. UNCHANGED <<task, heard, failed>>
    BY <1>4 DEF CommitSubscription, DeleteSubscription
  <2> QED BY <1>0, <2>1, <2>2, <2>3
    DEF FanOutInv, SuspensionWasEarned, CursorWasHeard, CountsInv, FanOutTypeOK
<1>5. ASSUME NEW k \in Keys, CutKey(k) PROVE Rest'
  BY <1>5 DEF FanOutInv, CutKey, SuspensionWasEarned, CursorWasHeard, CountsInv
<1>6. ASSUME NEW t \in Tasks, StartFanOut(t) PROVE Rest'
  <2>1. task'[t].result = [s \in Subs |-> "none"] /\ task'[t].loaded = subs
    BY <1>0, <1>6 DEF FanOutTypeOK, StartFanOut, NoTask
  <2>2. \A u \in Tasks \ {t} : task'[u] = task[u]
    BY <1>0, <1>6 DEF FanOutTypeOK, StartFanOut
  <2>3. UNCHANGED <<subs, heard, failed>>
    BY <1>6 DEF StartFanOut
  <2>4. ASSUME NEW x \in Subs
        PROVE  task'[t].loaded[x].failures <= failed[x] /\ task'[t].result[x] = "none"
    BY <2>1 DEF FanOutInv, CountsInv
  <2>5. CountsInv'
    BY <2>2, <2>3, <2>4, OtherTasks
  <2> QED BY <2>3, <2>5 DEF FanOutInv, SuspensionWasEarned, CursorWasHeard
<1>7. ASSUME NEW t \in Tasks, NEW s \in Subs, DeliverOk(t, s) PROVE Rest'
  <2>1. /\ task'[t].loaded = task[t].loaded /\ task'[t].change = task[t].change
        /\ task'[t].result = [task[t].result EXCEPT ![s] = "ok"]
    BY <1>0, <1>7 DEF FanOutTypeOK, TaskRecords, DeliverOk, Posted
  <2>2. \A u \in Tasks \ {t} : task'[u] = task[u]
    BY <1>0, <1>7 DEF FanOutTypeOK, DeliverOk, Posted
  <2>3. UNCHANGED <<subs, failed>> /\ heard' = heard \cup {<<s, task[t].change>>}
    BY <1>7 DEF DeliverOk
  <2>4. ASSUME NEW x \in Subs
        PROVE  /\ task'[t].loaded[x].failures <= failed[x]
               /\ task'[t].result[x] = "failed" => task'[t].loaded[x].failures < failed[x]
               /\ task'[t].result[x] = "ok" => <<x, task'[t].change>> \in heard'
    <3>1. x # s => task'[t].result[x] = task[t].result[x]
      BY <2>1, <1>0 DEF FanOutTypeOK, TaskRecords
    <3>2. x = s => task'[t].result[x] = "ok"
      BY <2>1, <1>0 DEF FanOutTypeOK, TaskRecords
    <3> QED BY <2>1, <2>3, <3>1, <3>2 DEF FanOutInv, CountsInv
  <2>5. CountsInv'
    BY <2>2, <2>3, <2>4, OtherTasks
  <2> QED BY <2>3, <2>5 DEF FanOutInv, SuspensionWasEarned, CursorWasHeard
<1>8. ASSUME NEW t \in Tasks, NEW s \in Subs, DeliverFails(t, s) PROVE Rest'
  <2>1. /\ task'[t].loaded = task[t].loaded /\ task'[t].change = task[t].change
        /\ task'[t].result = [task[t].result EXCEPT ![s] = "failed"]
    BY <1>0, <1>8 DEF FanOutTypeOK, TaskRecords, DeliverFails, Posted
  <2>2. \A u \in Tasks \ {t} : task'[u] = task[u]
    BY <1>0, <1>8 DEF FanOutTypeOK, DeliverFails, Posted
  <2>3. subs' = subs /\ heard \subseteq heard' /\ failed' = [failed EXCEPT ![s] = @ + 1]
    BY <1>8 DEF DeliverFails
  <2>4. \A x \in Subs : failed[x] \in Nat /\ failed'[x] \in Nat /\ failed[x] <= failed'[x]
    BY <1>0, <2>3 DEF FanOutTypeOK
  <2>5. failed'[s] = failed[s] + 1
    BY <1>0, <2>3 DEF FanOutTypeOK
  <2>6. ASSUME NEW x \in Subs PROVE subs'[x].failures <= failed'[x]
    BY <1>0, <2>3, <2>4 DEF FanOutInv, CountsInv, FanOutTypeOK, SubRows
  <2>7. ASSUME NEW x \in Subs, NEW u \in Tasks
        PROVE  /\ task'[u].loaded[x].failures <= failed'[x]
               /\ task'[u].result[x] = "failed" => task'[u].loaded[x].failures < failed'[x]
               /\ task'[u].result[x] = "ok" => <<x, task'[u].change>> \in heard'
    <3>1. task[u].loaded[x].failures \in Nat /\ task'[u].loaded = task[u].loaded
      <4>1. task'[u].loaded = task[u].loaded
        BY <2>1, <2>2
      <4>2. task[u] \in TaskRecords
        BY <1>0 DEF FanOutTypeOK
      <4> QED BY <4>1, <4>2 DEF TaskRecords, SubRows
    <3>2. task[u].loaded[x].failures <= failed[x]
      BY DEF FanOutInv, CountsInv
    <3>3. CASE u = t /\ x = s
      BY <1>0, <2>1, <2>4, <2>5, <3>1, <3>2, <3>3 DEF FanOutTypeOK, TaskRecords
    <3>4. CASE u # t \/ x # s
      <4>1. task'[u].result[x] = task[u].result[x] /\ task'[u].change = task[u].change
        BY <1>0, <2>1, <2>2, <3>4 DEF FanOutTypeOK, TaskRecords
      <4> QED BY <2>3, <2>4, <3>1, <3>2, <4>1 DEF FanOutInv, CountsInv
    <3> QED BY <3>3, <3>4
  <2>8. CountsInv'
    BY <2>6, <2>7 DEF CountsInv
  <2>9. SuspensionWasEarned'
    BY <1>0, <2>3, <2>4 DEF FanOutInv, SuspensionWasEarned, FanOutTypeOK
  <2>10. CursorWasHeard'
    BY <2>3 DEF FanOutInv, CursorWasHeard
  <2> QED BY <2>8, <2>9, <2>10
<1>9. ASSUME NEW t \in Tasks, CommitFanOut(t) PROVE Rest'
  <2>1. task' = [task EXCEPT ![t] = NoTask] /\ UNCHANGED <<heard, failed>>
    BY <1>9 DEF CommitFanOut
  <2>2. ASSUME NEW s \in Subs
        PROVE  /\ subs'[s].failures <= failed[s]
               /\ subs'[s].state = "suspended" => failed[s] >= MaxFailures
               /\ subs'[s].cursor = subs'[s].since \/ <<s, subs'[s].cursor>> \in heard
    <3> DEFINE seen == task[t].loaded[s]
    <3>1. subs[s] \in SubRows /\ seen \in SubRows /\ failed[s] \in Nat
      BY <1>0 DEF FanOutTypeOK, TaskRecords
    <3>2. /\ subs[s].failures <= failed[s]
          /\ task[t].result[s] = "failed" => seen.failures < failed[s]
          /\ task[t].result[s] = "ok" => <<s, task[t].change>> \in heard
      BY DEF FanOutInv, CountsInv
    <3>3. /\ subs[s].state = "suspended" => failed[s] >= MaxFailures
          /\ subs[s].cursor = subs[s].since \/ <<s, subs[s].cursor>> \in heard
      BY DEF FanOutInv, SuspensionWasEarned, CursorWasHeard
    <3>4. CASE task[t].result[s] = "none" /\ subs'[s] = subs[s]
      BY <3>2, <3>3, <3>4
    <3>5. CASE /\ task[t].result[s] = "ok"
               /\ subs'[s] = AfterSuccess(subs[s], seen, task[t].change)
      BY <3>1, <3>2, <3>3, <3>5 DEF AfterSuccess, Written, SubRows
    <3>6. CASE /\ task[t].result[s] = "failed"
               /\ subs'[s] = AfterFailure(subs[s], seen, task[t].change)
      BY <3>1, <3>2, <3>3, <3>6 DEF AfterFailure, TooMany, SubRows
    <3> QED BY <1>0, <1>9, <3>4, <3>5, <3>6, CommitRow
  <2>3. CountsInv'
    <3>1. ASSUME NEW s \in Subs, NEW u \in Tasks
          PROVE  /\ task'[u].loaded[s].failures <= failed[s]
                 /\ task'[u].result[s] = "failed" => task'[u].loaded[s].failures < failed[s]
                 /\ task'[u].result[s] = "ok" => <<s, task'[u].change>> \in heard
      <4>1. CASE u = t
        <5>1. task'[u].loaded[s].failures = 0 /\ task'[u].result[s] = "none"
          BY <1>0, <2>1, <4>1 DEF FanOutTypeOK, NoTask, NoSub
        <5> QED BY <1>0, <5>1 DEF FanOutTypeOK
      <4>2. CASE u # t
        BY <1>0, <2>1, <4>2 DEF FanOutInv, CountsInv, FanOutTypeOK
      <4> QED BY <4>1, <4>2
    <3> QED BY <2>1, <2>2, <3>1 DEF CountsInv
  <2> QED BY <2>1, <2>2, <2>3 DEF SuspensionWasEarned, CursorWasHeard
<1>10. ASSUME NEW t \in Tasks, FailFanOut(t) \/ LoseTask(t) PROVE Rest'
  <2>1. task' = [task EXCEPT ![t] = NoTask] /\ UNCHANGED <<subs, heard, failed>>
    BY <1>10 DEF FailFanOut, LoseTask
  <2>2. /\ task'[t] = NoTask
        /\ \A u \in Tasks \ {t} : task'[u] = task[u]
    BY <1>0, <2>1 DEF FanOutTypeOK
  <2>3. ASSUME NEW x \in Subs
        PROVE  task'[t].loaded[x].failures = 0 /\ task'[t].result[x] = "none"
    BY <2>2 DEF NoTask, NoSub
  <2>4. \A x \in Subs : failed[x] \in Nat
    BY <1>0 DEF FanOutTypeOK
  <2>5. CountsInv'
    BY <2>1, <2>2, <2>3, <2>4, OtherTasks
  <2> QED BY <2>1, <2>5 DEF FanOutInv, SuspensionWasEarned, CursorWasHeard
<1>11. ASSUME UNCHANGED fanOutVars PROVE Rest'
  <2>1. UNCHANGED <<subs, task, heard, failed>>
    BY <1>11 DEF fanOutVars
  <2>2. CountsInv'
    BY <2>1 DEF FanOutInv, CountsInv
  <2> QED BY <2>1, <2>2 DEF FanOutInv, SuspensionWasEarned, CursorWasHeard
<1> QED
  BY <1>0, <1>1, <1>2, <1>3, <1>4, <1>5, <1>6, <1>7, <1>8, <1>9, <1>10, <1>11
  DEF FanOutInv, FanOutNext, RunTask, Deliver

(* The invariant, from which the theorems on single states follow. *)
THEOREM FanOutInvariance == FanOutSpec => []FanOutInv
<1>1. FanOutInv /\ [FanOutNext]_fanOutVars => FanOutInv'
  BY FanOutNextInv
<1> QED BY <1>1, FanOutInitInv, PTL DEF FanOutSpec

(* The tables, the tasks and the histories hold values of their type. *)
THEOREM FanOutTypeCorrect == FanOutSpec => []FanOutTypeOK
<1>1. FanOutInv => FanOutTypeOK
  BY DEF FanOutInv
<1> QED BY <1>1, FanOutInvariance, PTL

(***************************************************************************)
(* A suspended subscription failed MaxFailures times at least              *)
(* (feed.py:307-309), however many tasks overwrite each other's count.     *)
(***************************************************************************)
THEOREM SuspensionsAreEarned == FanOutSpec => []SuspensionWasEarned
<1>1. FanOutInv => SuspensionWasEarned
  BY DEF FanOutInv
<1> QED BY <1>1, FanOutInvariance, PTL

(***************************************************************************)
(* A subscription's cursor names a change its endpoint received, or where  *)
(* it began (feed.py:302-305).                                             *)
(***************************************************************************)
THEOREM CursorsAreHeard == FanOutSpec => []CursorWasHeard
<1>1. FanOutInv => CursorWasHeard
  BY DEF FanOutInv
<1> QED BY <1>1, FanOutInvariance, PTL

(***************************************************************************)
(* No task, whatever it loaded, brings a suspended subscription back       *)
(* (feed.py:309).                                                          *)
(***************************************************************************)
THEOREM SuspensionsAreFinal == FanOutSpec => SuspensionIsFinal
<1> DEFINE Final == \A s \in Subs : subs[s].state = "suspended" =>
                      subs'[s].state \in {"suspended", "deleted"}
<1>1. FanOutTypeOK /\ [FanOutNext]_fanOutVars => [Final]_fanOutVars
  <2> SUFFICES ASSUME FanOutTypeOK, FanOutNext PROVE Final
    BY DEF fanOutVars
  <2>1. ASSUME NEW x \in Subs, NEW k \in Keys, NEW filter \in Filters, OpenSubscription(x, k, filter)
        PROVE Final
    BY <2>1 DEF FanOutTypeOK, OpenSubscription
  <2>2. ASSUME NEW x \in Subs, CommitSubscription(x) \/ DeleteSubscription(x) PROVE Final
    BY <2>2 DEF FanOutTypeOK, SubRows, CommitSubscription, DeleteSubscription
  <2>3. ASSUME NEW t \in Tasks, CommitFanOut(t) PROVE Final
    <3> SUFFICES ASSUME NEW s \in Subs, subs[s].state = "suspended"
                 PROVE  subs'[s].state = "suspended"
      OBVIOUS
    <3>1. subs[s] \in SubRows
      BY DEF FanOutTypeOK
    <3>2. \/ subs'[s] = subs[s]
          \/ subs'[s] = AfterSuccess(subs[s], task[t].loaded[s], task[t].change)
          \/ subs'[s] = AfterFailure(subs[s], task[t].loaded[s], task[t].change)
      BY <2>3, CommitRow
    <3> QED BY <3>1, <3>2 DEF AfterSuccess, AfterFailure, SubRows
  <2>4. CASE UNCHANGED subs
    BY <2>4
  <2> QED
    BY <2>1, <2>2, <2>3, <2>4
    DEF FanOutNext, Record, RecordImport, RecordDrive, CutKey, RunTask, StartFanOut, FailFanOut,
        Deliver, DeliverOk, DeliverFails, LoseTask
<1> QED BY <1>1, FanOutTypeCorrect, PTL DEF FanOutSpec, SuspensionIsFinal
-----------------------------------------------------------------------------
(***************************************************************************)
(* What a fan-out under way still owes: its change is in the log, the      *)
(* subscriptions it loaded as active still filter as they did then, and    *)
(* those that want the change it has posted to or is yet to post to.       *)
(***************************************************************************)
OwesNothingElse(t) ==
  /\ task[t].pc # "idle" => changes # <<>> /\ task[t].change \in 0 .. Len(changes)
  /\ task[t].pc = "running" =>
       /\ task[t].change # 0
       /\ \A s \in Subs :
            task[t].loaded[s].state = "active" =>
              /\ subs[s].state \notin {"none", "opening"}
              /\ CaresAbout(s, changes[task[t].change]) =>
                   s \in task[t].todo \/ <<s, task[t].change>> \in tried

PostsInv == \A t \in Tasks : OwesNothingElse(t)

(* What a step never does to a subscription that was active: it is not     *)
(* opened again, and filters as before.                                    *)
LEMMA FilterStays ==
  ASSUME FanOutTypeOK, [FanOutNext]_fanOutVars, NEW s \in Subs, subs[s].state \notin {"none", "opening"}
  PROVE  subs'[s].state \notin {"none", "opening"} /\ subs'[s].models = subs[s].models
<1>0. subs[s] \in SubRows
  BY DEF FanOutTypeOK
<1>1. ASSUME NEW x \in Subs, NEW k \in Keys, NEW filter \in Filters, OpenSubscription(x, k, filter)
      PROVE  subs'[s] = subs[s]
  <2>1. x # s
    BY <1>1 DEF OpenSubscription
  <2> QED BY <1>1, <2>1 DEF OpenSubscription, FanOutTypeOK
<1>2. ASSUME NEW x \in Subs, CommitSubscription(x) \/ DeleteSubscription(x)
      PROVE  subs'[s].state \notin {"none", "opening"} /\ subs'[s].models = subs[s].models
  <2>1. \/ subs' = [subs EXCEPT ![x] = [subs[x] EXCEPT !.state = "active"]]
        \/ subs' = [subs EXCEPT ![x] = [subs[x] EXCEPT !.state = "deleted"]]
    BY <1>2 DEF FanOutTypeOK, CommitSubscription, DeleteSubscription
  <2>2. subs \in [Subs -> SubRows]
    BY DEF FanOutTypeOK
  <2>3. \/ subs'[s] = subs[s]
        \/ subs'[s] = [subs[s] EXCEPT !.state = "active"]
        \/ subs'[s] = [subs[s] EXCEPT !.state = "deleted"]
    BY <2>1, <2>2
  <2> QED BY <1>0, <2>3 DEF SubRows
<1>3. ASSUME NEW t \in Tasks, CommitFanOut(t)
      PROVE  subs'[s].state \notin {"none", "opening"} /\ subs'[s].models = subs[s].models
  <2>1. \/ subs'[s] = subs[s]
        \/ subs'[s] = AfterSuccess(subs[s], task[t].loaded[s], task[t].change)
        \/ subs'[s] = AfterFailure(subs[s], task[t].loaded[s], task[t].change)
    BY <1>3, CommitRow
  <2> QED BY <1>0, <2>1 DEF AfterSuccess, AfterFailure, SubRows
<1>4. CASE UNCHANGED subs
  BY <1>4
<1> QED
  BY <1>1, <1>2, <1>3, <1>4
  DEF FanOutNext, fanOutVars, Record, RecordImport, RecordDrive, CutKey, RunTask, StartFanOut, FailFanOut,
      Deliver, DeliverOk, DeliverFails, LoseTask

(* The log only grows: a change keeps its number. *)
LEMMA LogGrows ==
  ASSUME FanOutTypeOK, [FanOutNext]_fanOutVars
  PROVE  /\ Len(changes) \in Nat /\ Len(changes') \in Nat /\ Len(changes) <= Len(changes')
         /\ \A n \in 1 .. Len(changes) : changes'[n] = changes[n]
         /\ changes # <<>> => changes' # <<>>
         /\ tried \subseteq tried'
<1>0. changes \in Seq(Events)
  BY DEF FanOutTypeOK
<1>1. \/ UNCHANGED changes
      \/ \E m \in Events : changes' = Append(changes, m)
  BY DEF FanOutNext, fanOutVars, Record, RecordImport, RecordDrive, OpenSubscription, CommitSubscription,
         DeleteSubscription, CutKey, RunTask, StartFanOut, CommitFanOut, FailFanOut,
         Deliver, DeliverOk, DeliverFails, LoseTask
<1>2. tried \subseteq tried'
  BY DEF FanOutNext, fanOutVars, Record, RecordImport, RecordDrive, OpenSubscription, CommitSubscription,
         DeleteSubscription, CutKey, RunTask, StartFanOut, CommitFanOut, FailFanOut,
         Deliver, DeliverOk, DeliverFails, Posted, LoseTask
<1> QED BY <1>0, <1>1, <1>2

(* A task no step touches owes what it owed. *)
LEMMA OwesAsBefore ==
  ASSUME FanOutTypeOK, [FanOutNext]_fanOutVars, NEW t \in Tasks, OwesNothingElse(t), task'[t] = task[t]
  PROVE  OwesNothingElse(t)'
<1>1. task[t].pc # "idle" => changes' # <<>> /\ task[t].change \in 0 .. Len(changes')
  BY LogGrows DEF OwesNothingElse
<1>2. ASSUME task[t].pc = "running" PROVE task[t].change \in 1 .. Len(changes)
  BY <1>2, LogGrows DEF OwesNothingElse
<1>3. ASSUME task[t].pc = "running", NEW s \in Subs, task[t].loaded[s].state = "active"
      PROVE  /\ subs'[s].state \notin {"none", "opening"}
             /\ CaresAbout(s, changes[task[t].change])' =>
                  s \in task[t].todo \/ <<s, task[t].change>> \in tried'
  <2>1. subs[s].state \notin {"none", "opening"}
    BY <1>3 DEF OwesNothingElse
  <2>2. subs'[s].state \notin {"none", "opening"} /\ subs'[s].models = subs[s].models
    BY <2>1, FilterStays
  <2>3. changes'[task[t].change] = changes[task[t].change]
    BY <1>2, <1>3, LogGrows
  <2>4. CaresAbout(s, changes[task[t].change]) => s \in task[t].todo \/ <<s, task[t].change>> \in tried
    BY <1>3 DEF OwesNothingElse
  <2> QED BY <2>2, <2>3, <2>4, LogGrows DEF CaresAbout
<1> QED BY <1>1, <1>2, <1>3 DEF OwesNothingElse

LEMMA PostsNext == ASSUME FanOutTypeOK, PostsInv, [FanOutNext]_fanOutVars PROVE PostsInv'
<1> SUFFICES ASSUME NEW u \in Tasks PROVE OwesNothingElse(u)'
  BY DEF PostsInv
<1>0. OwesNothingElse(u)
  BY DEF PostsInv
<1>1. ASSUME task'[u] = task[u] PROVE OwesNothingElse(u)'
  BY <1>0, <1>1, OwesAsBefore
<1>2. ASSUME NEW m \in Events, RecordImport(u, m) \/ RecordDrive(u, m) PROVE OwesNothingElse(u)'
  <2>1. changes \in Seq(Events) /\ changes' = Append(changes, m)
    BY <1>2 DEF FanOutTypeOK, RecordImport, RecordDrive
  <2>2. changes' # <<>> /\ Len(changes') = Len(changes) + 1 /\ Len(changes) \in Nat
    BY <2>1
  <2>3. \E n \in {0, Len(changes) + 1} : task'[u] = [NoTask EXCEPT !.pc = "scheduled", !.change = n]
    BY <1>2 DEF FanOutTypeOK, RecordImport, RecordDrive, Schedule
  <2>4. task'[u].pc = "scheduled" /\ task'[u].change \in {0, Len(changes) + 1}
    BY <2>3 DEF NoTask
  <2> QED BY <2>2, <2>4 DEF OwesNothingElse
<1>3. ASSUME StartFanOut(u) PROVE OwesNothingElse(u)'
  <2> DEFINE n == IF task[u].change = 0 THEN Len(changes) ELSE task[u].change
  <2>1. n \in 1 .. Len(changes) /\ changes \in Seq(Events) /\ changes # <<>>
    BY <1>0, <1>3 DEF OwesNothingElse, StartFanOut, FanOutTypeOK
  <2>2. /\ task'[u].pc = "running" /\ task'[u].change = n /\ task'[u].loaded = subs
        /\ task'[u].todo = {s \in Subs : subs[s].state = "active" /\ CaresAbout(s, changes[n])}
    BY <1>3 DEF StartFanOut, FanOutTypeOK, NoTask
  <2>3. UNCHANGED <<changes, subs, tried>>
    BY <1>3 DEF StartFanOut
  <2> HIDE DEF n
  <2>4. \A s \in Subs : CaresAbout(s, changes[n])' <=> CaresAbout(s, changes[n])
    BY <2>2, <2>3, <2>1 DEF CaresAbout, n
  <2>5. ASSUME NEW s \in Subs, task'[u].loaded[s].state = "active"
        PROVE  /\ subs'[s].state \notin {"none", "opening"}
               /\ CaresAbout(s, changes[task[u].change])' =>
                    s \in task'[u].todo \/ <<s, task'[u].change>> \in tried'
    BY <2>2, <2>3, <2>5 DEF CaresAbout
  <2> QED BY <2>1, <2>2, <2>3, <2>5 DEF OwesNothingElse
<1>4. ASSUME NEW x \in Subs, Deliver(u, x) PROVE OwesNothingElse(u)'
  <2>1. task[u] \in TaskRecords /\ task[u].pc = "running"
    BY <1>4 DEF Deliver, DeliverOk, DeliverFails, Posted, FanOutTypeOK
  <2>2. /\ task'[u].pc = "running" /\ task'[u].change = task[u].change
        /\ task'[u].loaded = task[u].loaded /\ task'[u].todo = task[u].todo \ {x}
    BY <1>4, <2>1 DEF Deliver, DeliverOk, DeliverFails, Posted, FanOutTypeOK, TaskRecords
  <2>3. UNCHANGED <<changes, subs>> /\ tried' = tried \cup {<<x, task[u].change>>}
    BY <1>4 DEF Deliver, DeliverOk, DeliverFails, Posted
  <2>4. ASSUME NEW s \in Subs, task[u].loaded[s].state = "active"
        PROVE  /\ subs'[s].state \notin {"none", "opening"}
               /\ CaresAbout(s, changes[task[u].change])' =>
                    s \in task'[u].todo \/ <<s, task'[u].change>> \in tried'
    BY <1>0, <2>1, <2>2, <2>3, <2>4 DEF OwesNothingElse, CaresAbout
  <2> QED BY <1>0, <2>1, <2>2, <2>3, <2>4 DEF OwesNothingElse
<1>5. ASSUME task' = [task EXCEPT ![u] = NoTask] PROVE OwesNothingElse(u)'
  BY <1>5 DEF FanOutTypeOK, NoTask, OwesNothingElse
<1>6. ASSUME NEW t \in Tasks \ {u}, \E rec : task' = [task EXCEPT ![t] = rec] PROVE task'[u] = task[u]
  BY <1>6 DEF FanOutTypeOK
<1>7. ASSUME NEW t \in Tasks \ {u}, NEW m \in Events, RecordImport(t, m) \/ RecordDrive(t, m)
      PROVE  task'[u] = task[u]
  BY <1>7 DEF FanOutTypeOK, RecordImport, RecordDrive, Schedule
<1>8. ASSUME NEW t \in Tasks \ {u}, RunTask(t) \/ LoseTask(t)
      PROVE  task'[u] = task[u]
  BY <1>8 DEF FanOutTypeOK, RunTask, StartFanOut, CommitFanOut, FailFanOut, Deliver, DeliverOk, DeliverFails,
              Posted, LoseTask
<1>9. CASE UNCHANGED task
  BY <1>1, <1>9
<1>10. ASSUME RunTask(u) \/ LoseTask(u) PROVE OwesNothingElse(u)'
  <2>1. CommitFanOut(u) \/ FailFanOut(u) \/ LoseTask(u) => task' = [task EXCEPT ![u] = NoTask]
    BY DEF CommitFanOut, FailFanOut, LoseTask
  <2> QED BY <1>3, <1>4, <1>5, <1>10, <2>1 DEF RunTask
<1>11. ASSUME NEW t \in Tasks, RunTask(t) \/ LoseTask(t) PROVE OwesNothingElse(u)'
  BY <1>1, <1>8, <1>10, <1>11
<1>12. ASSUME NEW t \in Tasks, NEW m \in Events, RecordImport(t, m) \/ RecordDrive(t, m)
       PROVE OwesNothingElse(u)'
  BY <1>1, <1>2, <1>7, <1>12
<1> QED
  BY <1>9, <1>11, <1>12
  DEF FanOutNext, fanOutVars, Record, OpenSubscription, CommitSubscription, DeleteSubscription, CutKey

(***************************************************************************)
(* A fan-out that ends, other than with its process, has posted its change *)
(* to every subscription it loaded as active and that wants it             *)
(* (feed.py:277), whatever the endpoints answer and the owners do          *)
(* meanwhile: it ends with nothing left to do, and owes nothing else.      *)
(***************************************************************************)
THEOREM TasksReachAll == FanOutSpec => TaskReachesAll
<1> DEFINE Reached ==
      \A t \in Tasks :
        task[t].pc = "running" /\ task'[t].pc = "idle" /\ stops' = stops =>
          \A s \in Subs :
            task[t].loaded[s].state = "active" /\ CaresAbout(s, changes[task[t].change])
              => <<s, task[t].change>> \in tried
<1>1. FanOutInit => PostsInv
  BY DEF FanOutInit, PostsInv, OwesNothingElse, NoTask
<1>2. FanOutTypeOK /\ PostsInv /\ [FanOutNext]_fanOutVars => PostsInv'
  BY PostsNext
<1>3. FanOutTypeOK /\ PostsInv /\ [FanOutNext]_fanOutVars => [Reached]_fanOutVars
  <2> SUFFICES ASSUME FanOutTypeOK, PostsInv, FanOutNext, NEW t \in Tasks,
                      task[t].pc = "running", task'[t].pc = "idle", stops' = stops
               PROVE  task[t].todo = {}
    BY DEF fanOutVars, PostsInv, OwesNothingElse
  <2>1. ASSUME NEW u \in Tasks, NEW m \in Events, RecordImport(u, m) \/ RecordDrive(u, m)
        PROVE FALSE
    <3>1. u # t
      BY <2>1 DEF RecordImport, RecordDrive
    <3> QED BY <2>1, <3>1 DEF FanOutTypeOK, RecordImport, RecordDrive, Schedule
  <2>2. ASSUME NEW u \in Tasks, StartFanOut(u) PROVE FALSE
    BY <2>2 DEF FanOutTypeOK, StartFanOut, NoTask
  <2>3. ASSUME NEW u \in Tasks, NEW s \in Subs, Deliver(u, s) PROVE FALSE
    <3>1. task[u] \in TaskRecords
      BY DEF FanOutTypeOK
    <3>2. task'[u].pc = task[u].pc
      BY <2>3, <3>1 DEF FanOutTypeOK, TaskRecords, Deliver, DeliverOk, DeliverFails, Posted
    <3>3. u # t => task'[t] = task[t]
      BY <2>3 DEF FanOutTypeOK, Deliver, DeliverOk, DeliverFails, Posted
    <3> QED BY <3>2, <3>3
  <2>4. ASSUME NEW u \in Tasks, CommitFanOut(u) \/ FailFanOut(u) PROVE task[t].todo = {}
    BY <2>4 DEF FanOutTypeOK, CommitFanOut, FailFanOut
  <2>5. ASSUME NEW u \in Tasks, LoseTask(u) PROVE FALSE
    BY <2>5 DEF FanOutTypeOK, LoseTask
  <2>6. CASE UNCHANGED task
    BY <2>6
  <2> QED
    BY <2>1, <2>2, <2>3, <2>4, <2>5, <2>6
    DEF FanOutNext, Record, OpenSubscription, CommitSubscription, DeleteSubscription, CutKey, RunTask
<1> QED BY <1>1, <1>2, <1>3, FanOutTypeCorrect, PTL DEF FanOutSpec, TaskReachesAll
=============================================================================

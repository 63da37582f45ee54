---------------------------- MODULE EventStream ----------------------------
(* The server-sent event stream over the TaskEvent table.  A handler stamps  *)
(* an event with the clock of its process and commits it later, with the     *)
(* rest of its transaction or on its own; the stream polls the table, keeps  *)
(* the timestamp of the last event sent as its cursor, and a client that     *)
(* lost the connection comes back with the id of the last event it got.      *)
EXTENDS Integers, Sequences, FiniteSets

CONSTANTS Events,       \* ids of the events, integers: the second sort key
          Wanted,       \* the events the filters of the request let through
          MaxTime,      \* bound on the clock
          MaxRewinds    \* bound on reconnections whose anchor is unknown

ASSUME StreamConstants ==
    /\ Events \subseteq Nat \ {0} /\ Wanted \subseteq Events
    /\ MaxTime \in Nat \ {0} /\ MaxRewinds \in Nat

VARIABLES clock,      \* the time the processes stamp with
          row,        \* of each event: none, stamped, visible or gone
          stamp,      \* its timestamp, 0 before it has one
          rank,       \* its place in the order of commits, 0 before it has one
          cursor,     \* last_timestamp; 0 is None
          seen,       \* seen_ids
          batch,      \* the rows of the last query still to be sent
          copies,     \* how often the client has got each event
          lastGot,    \* the client's Last-Event-ID, or 0
          rewinds     \* reconnections that began from the start again

streamVars == <<clock, row, stamp, rank, cursor, seen, batch, copies, lastGot, rewinds>>
Got == {e \in Events : copies[e] > 0}
Visible == {e \in Events : row[e] = "visible"}
BatchSet == {batch[i] : i \in 1..Len(batch)}

StreamInit ==
    /\ clock = 1 /\ row = [e \in Events |-> "none"]
    /\ stamp = [e \in Events |-> 0] /\ rank = [e \in Events |-> 0]
    /\ cursor = 0 /\ seen = {} /\ batch = <<>>
    /\ copies = [e \in Events |-> 0] /\ lastGot = 0 /\ rewinds = 0

stream == <<cursor, seen, batch, copies, lastGot, rewinds>>

Tick == /\ clock < MaxTime
        /\ clock' = clock + 1
        /\ UNCHANGED <<row, stamp, rank, stream>>

(* record_event inside a transaction: auto_now_add stamps the row when it is *)
(* built, the commit makes it visible.                                       *)
Stamp(e) ==
    /\ row[e] = "none"
    /\ row' = [row EXCEPT ![e] = "stamped"]
    /\ stamp' = [stamp EXCEPT ![e] = clock]
    /\ UNCHANGED <<clock, rank, stream>>

Commit(e) ==
    /\ row[e] = "stamped"
    /\ row' = [row EXCEPT ![e] = "visible"]
    /\ rank' = [rank EXCEPT ![e] = 1 + Cardinality({f \in Events : rank[f] > 0})]
    /\ UNCHANGED <<clock, stamp, stream>>

(* A failed insert is swallowed, a failed transaction is rolled back, and a  *)
(* task takes its events with it when it is deleted.                         *)
Lose(e) ==
    /\ row[e] \in {"stamped", "visible"}
    /\ row' = [row EXCEPT ![e] = "gone"]
    /\ UNCHANGED <<clock, stamp, rank, stream>>

(* The order of the model's Meta, and order_by("timestamp", "id"). *)
NewestFirst(e, f) == stamp[e] > stamp[f] \/ (stamp[e] = stamp[f] /\ e < f)
Before(e, f) == stamp[e] < stamp[f] \/ (stamp[e] = stamp[f] /\ e < f)
InOrder(S) ==
    {s \in [1..Cardinality(S) -> S] :
        \A i, j \in 1..Cardinality(S) : i < j => Before(s[i], s[j])}

(* timestamp__gt=last_timestamp, with and without the events of that instant *)
LaterOrNow(from) == {e \in Visible \cap Wanted : stamp[e] >= from}
Later(from) == {e \in Visible \cap Wanted : from = 0 \/ stamp[e] > from}

Poll ==
    /\ batch = <<>>
    /\ batch' \in InOrder(Later(cursor) \ seen)
    /\ UNCHANGED <<clock, row, stamp, rank, cursor, seen, copies, lastGot, rewinds>>

Send ==
    /\ batch # <<>>
    /\ LET e == Head(batch) IN
       /\ seen' = seen \cup {e}
       /\ cursor' = stamp[e]
       /\ copies' = [copies EXCEPT ![e] = @ + 1]
       /\ lastGot' = e
    /\ batch' = Tail(batch)
    /\ UNCHANGED <<clock, row, stamp, rank, rewinds>>

(* The connection is lost at any point and a new generator begins at the     *)
(* anchor.  What was under way to the client counts as not sent.             *)
Reconnect ==
    /\ lastGot # 0
    /\ seen' = {} /\ batch' = <<>>
    /\ \/ /\ row[lastGot] = "visible"
          /\ cursor' = stamp[lastGot]
          /\ UNCHANGED rewinds
       \/ /\ row[lastGot] = "gone"
          /\ rewinds < MaxRewinds
          /\ cursor' = 0
          /\ rewinds' = rewinds + 1
    /\ UNCHANGED <<clock, row, stamp, rank, copies, lastGot>>

StreamNext ==
    \/ Tick \/ Poll \/ Send \/ Reconnect
    \/ \E e \in Events : Stamp(e) \/ Commit(e) \/ Lose(e)

StreamSpec == StreamInit /\ [][StreamNext]_streamVars
-----------------------------------------------------------------------------
(* The only events a stream passes over for good are those that became       *)
(* visible after an event with a later timestamp was sent, and those that    *)
(* share their timestamp with an event that was: the cursor of stream.py     *)
(* asks for strictly later timestamps.                                       *)
OnlyLateOnesMissed ==
    \A e \in (Visible \cap Wanted) \ (Got \cup BatchSet) :
        stamp[e] <= cursor =>
            \E f \in Got : \/ stamp[f] = stamp[e]
                           \/ stamp[f] > stamp[e] /\ rank[f] < rank[e]

(* An event reaches the client a second time only when a reconnection found  *)
(* no anchor and began from the start, and then once for each of them.       *)
RepeatedOnlyByRewinds == \A e \in Events : copies[e] <= 1 + rewinds
=============================================================================

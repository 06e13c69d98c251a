-------------------------------- MODULE Sinks --------------------------------
(***************************************************************************)
(* Delivery of the event log to one sink (internal/sinks), with the cursor *)
(* the log keeps for it (Offset and Ack of internal/eventlog).  A delivery *)
(* pass is an HTTP request and nothing keeps two of them apart: passes     *)
(* read the cursor, read a page after it and then alternate delivering and *)
(* acknowledging, while events are appended and other passes run.  A pass  *)
(* may end anywhere, by an error of the sink or the log or by the process  *)
(* stopping.                                                               *)
(*                                                                         *)
(* A page is read without a filter, so it is an interval of positions.     *)
(***************************************************************************)
EXTENDS Naturals, Sequences

CONSTANTS
    Passes,     \* delivery requests that may be in progress at once
    batchSize,
    MaxLength   \* bound: length of the log

ASSUME BatchAssumption == batchSize \in Nat \ {0} /\ MaxLength \in Nat

VARIABLES
    feed,       \* the visibility of every event
    offset,     \* the sink's row of subscription_offsets, 0 when there is none
    delivered,  \* the positions the sink was handed at least once
    pass        \* [Passes -> where the pass is]

sinkVars == <<feed, offset, delivered, pass>>

NoPass == [stage |-> "idle", at |-> 0, upto |-> 0]

SinkInit ==
    /\ feed = <<>>
    /\ offset = 0
    /\ delivered = {}
    /\ pass = [p \in Passes |-> NoPass]

AppendEvent(visibility) ==
    /\ Len(feed) < MaxLength
    /\ feed' = Append(feed, visibility)
    /\ UNCHANGED <<offset, delivered, pass>>

\* The last position of the page that follows a position.
pageEnd(after) ==
    IF after + batchSize <= Len(feed) THEN after + batchSize ELSE Len(feed)

\* DeliverOnce: Offset, then ReadAll; both read in statements of their own.
ReadOffset(p) ==
    /\ pass[p].stage = "idle"
    /\ pass' = [pass EXCEPT ![p] = [stage |-> "reading", at |-> offset + 1, upto |-> offset]]
    /\ UNCHANGED <<feed, offset, delivered>>

ReadAll(p) ==
    /\ pass[p].stage = "reading"
    /\ pass' = [pass EXCEPT ![p].stage = "delivering", ![p].upto = pageEnd(pass[p].at - 1)]
    /\ UNCHANGED <<feed, offset, delivered>>

\* Replay: a page from wherever the caller says, which is not acknowledged.
ReadReplay(p, after) ==
    /\ pass[p].stage = "idle"
    /\ pass' = [pass EXCEPT ![p] = [stage |-> "replaying", at |-> after + 1, upto |-> pageEnd(after)]]
    /\ UNCHANGED <<feed, offset, delivered>>

\* The next event is handed to the sink, unless it is private.
Deliver(p) ==
    /\ pass[p].stage \in {"delivering", "replaying"}
    /\ pass[p].at <= pass[p].upto
    /\ delivered' = IF feed[pass[p].at] = "private" THEN delivered
                    ELSE delivered \cup {pass[p].at}
    /\ pass' = IF pass[p].stage = "delivering"
               THEN [pass EXCEPT ![p].stage = "acking"]
               ELSE [pass EXCEPT ![p].at = @ + 1]
    /\ UNCHANGED <<feed, offset>>

\* Mutant: an acknowledgement is written as it comes.
acknowledgedLast(position) == position

\* The upsert keeps the greater of the two positions.
acknowledged(position) == IF position > offset THEN position ELSE offset

Ack(p) ==
    /\ pass[p].stage = "acking"
    /\ offset' = acknowledged(pass[p].at)
    /\ pass' = [pass EXCEPT ![p].stage = "delivering", ![p].at = @ + 1]
    /\ UNCHANGED <<feed, delivered>>

\* Mutant: a delivery that failed is acknowledged and skipped.
EndSkipping(p) ==
    /\ pass[p].stage # "idle"
    /\ offset' = IF pass[p].stage = "delivering" /\ pass[p].at <= pass[p].upto
                 THEN acknowledged(pass[p].at) ELSE offset
    /\ pass' = [pass EXCEPT ![p] = NoPass]
    /\ UNCHANGED <<feed, delivered>>

\* A pass is through its page, or it ends in an error.
End(p) ==
    /\ pass[p].stage # "idle"
    /\ pass' = [pass EXCEPT ![p] = NoPass]
    /\ UNCHANGED <<feed, offset, delivered>>

SinkNext ==
    \/ \E visibility \in {"public", "private"} : AppendEvent(visibility)
    \/ \E p \in Passes :
          \/ ReadOffset(p) \/ ReadAll(p) \/ Deliver(p) \/ Ack(p) \/ End(p)
          \/ \E after \in 0..Len(feed) : ReadReplay(p, after)

SinkSpec == SinkInit /\ [][SinkNext]_sinkVars

(***************************************************************************)
(* Properties.                                                             *)
(***************************************************************************)
SinkTypeOK ==
    /\ feed \in Seq({"public", "private"})
    /\ offset \in 0..Len(feed)
    /\ delivered \subseteq 1..Len(feed)
    /\ pass \in [Passes -> [stage : {"idle", "reading", "delivering", "acking", "replaying"},
                            at : 0..(Len(feed) + 1), upto : 0..Len(feed)]]

\* At least once: the cursor never passes a public event the sink was not handed,
\* however passes and replays overlap and wherever they stop.
CursorIsBehindDelivery ==
    \A i \in 1..offset : feed[i] = "public" => i \in delivered

\* No private event ever leaves through a sink, by delivery or by replay.
PrivateStaysIn ==
    \A i \in delivered : feed[i] = "public"

\* A slower pass that acknowledges what a faster one acknowledged long ago does not
\* move the cursor back.
CursorNeverMovesBack == [][offset' >= offset]_sinkVars

=============================================================================

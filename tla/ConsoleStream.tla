---------------------------- MODULE ConsoleStream ----------------------------
(***************************************************************************)
(* The console's event feed (internal/httpapi/console_events.go) over the  *)
(* event log's subscriptions (Subscribe, runSubscription, wakeSubscribers  *)
(* and signal of internal/eventlog/sqlite.go).                             *)
(*                                                                         *)
(* A console connects with the position it saw last.  The handler reads    *)
(* the head of the public log, replays through it page by page, and only   *)
(* then subscribes after it.  The subscription is a goroutine that parks   *)
(* on a wake channel of capacity one, drains the log page by page into a   *)
(* bounded channel, and parks again; an append commits first and wakes the *)
(* subscriptions afterwards.  A connection may break anywhere; everything  *)
(* of it is then gone and the console connects again.                      *)
(*                                                                         *)
(* A write to the console is one step: what a broken connection swallowed  *)
(* is a connection that broke before the write.                            *)
(***************************************************************************)
EXTENDS Naturals, Sequences, FiniteSetsExt

CONSTANTS
    PageSize,       \* 100 in the code, for the replay and for the subscription
    ChannelSize,    \* 64 in the code
    MaxEntries,     \* bound: length of the log
    MaxDrops,       \* bound: connections that break
    MaxFailures     \* bound: reads of a subscription that fail

ASSUME PageAssumption == PageSize \in Nat \ {0}

VARIABLES
    entries,    \* the visibility of every event
    waking,     \* commits whose wakeSubscribers is still to run
    seen,       \* the positions the console received, over all its connections
    conn,       \* the handler of the connection
    sub,        \* its subscription
    drops,
    failures

consoleVars == <<entries, waking, seen, conn, sub, drops, failures>>

Off == [stage |-> "off", cursor |-> 0, head |-> 0, page |-> {}]

\* signals counts the calls of signal that Subscribe and the retry timers still owe.
Unsubscribed ==
    [stage |-> "none", after |-> 0, page |-> {}, wake |-> FALSE, signals |-> 0, ch |-> <<>>]

ConsoleInit ==
    /\ entries = <<>>
    /\ waking = 0
    /\ seen = <<>>
    /\ conn = Off
    /\ sub = Unsubscribed
    /\ drops = 0
    /\ failures = 0

PublicThrough(n) == {i \in 1..n : entries[i] = "public"}

\* ReadAll with the console's filter: the first public positions after a position, at
\* most a page of them.  A page is worked off in order, so a set will do.
ReadPublic(after) ==
    LET later == {i \in PublicThrough(Len(entries)) : i > after}
    IN  {i \in later : Cardinality({j \in later : j < i}) < PageSize}

\* LatestPosition with the console's filter.
LatestPosition ==
    LET public == PublicThrough(Len(entries))
    IN  IF public = {} THEN 0 ELSE Max(public)

lastEventID == IF seen = <<>> THEN 0 ELSE seen[Len(seen)]

-----------------------------------------------------------------------------
(***************************************************************************)
(* Appends.                                                                *)
(***************************************************************************)
AppendEntry(visibility) ==
    /\ Len(entries) < MaxEntries
    /\ entries' = Append(entries, visibility)
    /\ waking' = waking + 1
    /\ UNCHANGED <<seen, conn, sub, drops, failures>>

\* A full wake channel drops the signal.
wakeSubscribers ==
    /\ waking > 0
    /\ waking' = waking - 1
    /\ sub' = IF sub.stage = "none" THEN sub ELSE [sub EXCEPT !.wake = TRUE]
    /\ UNCHANGED <<entries, seen, conn, drops, failures>>

-----------------------------------------------------------------------------
(***************************************************************************)
(* The handler.                                                            *)
(***************************************************************************)
StreamConsoleEvents ==
    /\ conn.stage = "off"
    /\ lastEventID <= LatestPosition
    /\ conn' = [stage |-> "replaying", cursor |-> lastEventID, head |-> LatestPosition, page |-> {}]
    /\ UNCHANGED <<entries, waking, seen, sub, drops, failures>>

\* An empty page below the head ends the stream with an error.
ReadReplayPage ==
    /\ conn.stage = "replaying"
    /\ conn.page = {}
    /\ conn.cursor < conn.head
    /\ conn' = IF ReadPublic(conn.cursor) = {} THEN Off
               ELSE [conn EXCEPT !.page = ReadPublic(conn.cursor)]
    /\ UNCHANGED <<entries, waking, seen, sub, drops, failures>>

WriteReplayed ==
    /\ conn.stage = "replaying"
    /\ conn.page # {}
    /\ Min(conn.page) <= conn.head
    /\ seen' = Append(seen, Min(conn.page))
    /\ conn' = [conn EXCEPT !.cursor = Min(conn.page), !.page = @ \ {Min(conn.page)}]
    /\ UNCHANGED <<entries, waking, sub, drops, failures>>

\* Mutant: the subscription starts at the head of the log as it is now.
SubscribeAtHead ==
    /\ conn.stage = "replaying"
    /\ conn.cursor >= conn.head \/ (conn.page # {} /\ Min(conn.page) > conn.head)
    /\ conn' = [conn EXCEPT !.stage = "live", !.page = {}]
    /\ sub' = [Unsubscribed EXCEPT !.stage = "parked", !.after = LatestPosition, !.signals = 1]
    /\ UNCHANGED <<entries, waking, seen, drops, failures>>

\* The replay is through (the rest of its page is past the head), and the subscription
\* is registered.  Its identity is new, so no stored offset moves its start.
Subscribe ==
    /\ conn.stage = "replaying"
    /\ conn.cursor >= conn.head \/ (conn.page # {} /\ Min(conn.page) > conn.head)
    /\ conn' = [conn EXCEPT !.stage = "live", !.page = {}]
    /\ sub' = [Unsubscribed EXCEPT !.stage = "parked", !.after = conn.head, !.signals = 1]
    /\ UNCHANGED <<entries, waking, seen, drops, failures>>

\* A delivery is received from the channel and written to the console.
WriteDelivery ==
    /\ conn.stage = "live"
    /\ sub.ch # <<>>
    /\ seen' = Append(seen, Head(sub.ch))
    /\ sub' = [sub EXCEPT !.ch = Tail(sub.ch)]
    /\ UNCHANGED <<entries, waking, conn, drops, failures>>

\* The request's context is cancelled: the handler and the goroutine return.
Disconnect ==
    /\ conn.stage # "off"
    /\ drops < MaxDrops
    /\ drops' = drops + 1
    /\ conn' = Off
    /\ sub' = Unsubscribed
    /\ UNCHANGED <<entries, waking, seen, failures>>

-----------------------------------------------------------------------------
(***************************************************************************)
(* The subscription's goroutine.                                           *)
(***************************************************************************)
signal ==
    /\ sub.signals > 0
    /\ sub' = [sub EXCEPT !.signals = @ - 1, !.wake = TRUE]
    /\ UNCHANGED <<entries, waking, seen, conn, drops, failures>>

Wake ==
    /\ sub.stage = "parked"
    /\ sub.wake
    /\ sub' = [sub EXCEPT !.stage = "draining", !.wake = FALSE]
    /\ UNCHANGED <<entries, waking, seen, conn, drops, failures>>

ReadPage ==
    /\ sub.stage = "draining"
    /\ sub' = IF ReadPublic(sub.after) = {} THEN [sub EXCEPT !.stage = "parked"]
              ELSE [sub EXCEPT !.stage = "sending", !.page = ReadPublic(sub.after)]
    /\ UNCHANGED <<entries, waking, seen, conn, drops, failures>>

\* Mutant: a read that fails is left to the next append.
ReadFailsSilently ==
    /\ sub.stage = "draining"
    /\ failures < MaxFailures
    /\ failures' = failures + 1
    /\ sub' = [sub EXCEPT !.stage = "parked"]
    /\ UNCHANGED <<entries, waking, seen, conn, drops>>

ReadFails ==
    /\ sub.stage = "draining"
    /\ failures < MaxFailures
    /\ failures' = failures + 1
    /\ sub' = [sub EXCEPT !.stage = "parked", !.signals = @ + 1]
    /\ UNCHANGED <<entries, waking, seen, conn, drops>>

\* Mutant: a wake drains a single page.
SendOnePage ==
    /\ sub.stage = "sending"
    /\ Len(sub.ch) < ChannelSize
    /\ sub' = [sub EXCEPT !.ch = Append(@, Min(sub.page)), !.after = Min(sub.page),
                          !.page = @ \ {Min(sub.page)},
                          !.stage = IF sub.page = {Min(sub.page)} THEN "parked" ELSE "sending"]
    /\ UNCHANGED <<entries, waking, seen, conn, drops, failures>>

\* The last event of a page is followed by another read.
Send ==
    /\ sub.stage = "sending"
    /\ Len(sub.ch) < ChannelSize
    /\ sub' = [sub EXCEPT !.ch = Append(@, Min(sub.page)), !.after = Min(sub.page),
                          !.page = @ \ {Min(sub.page)},
                          !.stage = IF sub.page = {Min(sub.page)} THEN "draining" ELSE "sending"]
    /\ UNCHANGED <<entries, waking, seen, conn, drops, failures>>

-----------------------------------------------------------------------------
Handler == ReadReplayPage \/ WriteReplayed \/ Subscribe \/ WriteDelivery

Goroutine == Wake \/ ReadPage \/ Send

Quiet ==
    /\ Len(entries) = MaxEntries /\ waking = 0
    /\ conn.stage = "live" /\ lastEventID = LatestPosition
    /\ sub.stage = "parked" /\ ~sub.wake /\ sub.signals = 0
    /\ UNCHANGED consoleVars

ConsoleNext ==
    \/ \E visibility \in {"public", "private"} : AppendEntry(visibility)
    \/ wakeSubscribers \/ StreamConsoleEvents \/ Handler \/ Disconnect
    \/ signal \/ Goroutine \/ ReadFails
    \/ Quiet

(***************************************************************************)
(* The process runs its goroutines and its timers, an append that          *)
(* committed goes on to wake the subscriptions, and a console that lost    *)
(* its connection connects again.  Nothing has to be appended, and nothing *)
(* has to break.                                                           *)
(***************************************************************************)
Fairness ==
    /\ WF_consoleVars(wakeSubscribers) /\ WF_consoleVars(StreamConsoleEvents) /\ WF_consoleVars(Handler)
    /\ WF_consoleVars(signal) /\ WF_consoleVars(Goroutine)

ConsoleSpec == ConsoleInit /\ [][ConsoleNext]_consoleVars /\ Fairness

(***************************************************************************)
(* Properties.                                                             *)
(***************************************************************************)
ConsoleTypeOK ==
    LET Positions == 1..Len(entries)
    IN  /\ entries \in Seq({"public", "private"})
        /\ waking \in 0..Len(entries)
        /\ seen \in Seq(Positions)
        /\ conn.stage \in {"off", "replaying", "live"}
        /\ conn.cursor \in 0..Len(entries) /\ conn.head \in 0..Len(entries)
        /\ conn.page \subseteq Positions
        /\ sub.stage \in {"none", "parked", "draining", "sending"}
        /\ sub.after \in 0..Len(entries) /\ sub.wake \in BOOLEAN
        /\ sub.signals \in 0..(1 + MaxFailures)
        /\ sub.page \subseteq Positions
        /\ sub.ch \in Seq(Positions) /\ Len(sub.ch) <= ChannelSize

\* What the console received over all its connections is the public log up to the
\* event it received last: nothing twice, nothing left out, nothing private, in order,
\* across the seam between replay and subscription and across reconnections.
SeenIsThePublicLog ==
    /\ \A i, j \in DOMAIN seen : i < j => seen[i] < seen[j]
    /\ {seen[i] : i \in DOMAIN seen} = PublicThrough(lastEventID)

\* No lost wakeup: a parked subscription that has something to read is about to be
\* woken, by a signal in its channel or by one that some step still owes.
ParkedIsUpToDate ==
    sub.stage = "parked" /\ ReadPublic(sub.after) # {} =>
        sub.wake \/ sub.signals > 0 \/ waking > 0

\* Every public event reaches the console, however often its connection breaks and
\* reads fail, even if nothing is ever appended again.
EventsArrive ==
    \A i \in 1..MaxEntries :
        (i <= Len(entries) /\ entries[i] = "public") ~> \E k \in DOMAIN seen : seen[k] = i

=============================================================================

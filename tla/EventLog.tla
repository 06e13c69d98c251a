------------------------------ MODULE EventLog ------------------------------
(***************************************************************************)
(* Appending to the event log (internal/eventlog).  The log is one table   *)
(* of events and one of command appends; an append is one SQLite           *)
(* transaction over both, with a mutation of the caller's joined to it.    *)
(* Writers read a stream's version first and append later, repeat a        *)
(* request whose answer they lost, and may reuse a command key or an event *)
(* identifier they should not.                                             *)
(*                                                                         *)
(* The database has one connection, so the transaction is one action.      *)
(***************************************************************************)
EXTENDS Naturals, Sequences, FiniteSetsExt, Functions

CONSTANTS
    Streams, Commands, Hashes, EventIDs, Writers,
    Batches,    \* the sequences of event identifiers a request may carry
    MaxEvents,  \* bound: length of the log
    None

ASSUME BatchesAssumption == Batches \subseteq Seq(EventIDs) \ {<<>>}
ASSUME NoneAssumption == None \notin [hash : Hashes, first : Nat, last : Nat]

VARIABLES
    log,        \* the events table; an event's global position is its index
    commands,   \* [Commands -> the command_appends row, or None]
    mutations,  \* the commands whose mutation was committed, in order
    writer      \* [Writers -> the request in hand and its answer, if any]

vars == <<log, commands, mutations, writer>>

Events == [stream : Streams, version : Nat, command : Commands, hash : Hashes, id : EventIDs]
Requests == [stream : Streams, expected : Nat, command : Commands, hash : Hashes, events : Batches]

versions(stream) == {log[i].version : i \in {j \in DOMAIN log : log[j].stream = stream}}
currentStreamVersion(stream) == Max({0} \cup versions(stream))

Idle == [request |-> None, answer |-> None]

Init ==
    /\ log = <<>>
    /\ commands = [c \in Commands |-> None]
    /\ mutations = <<>>
    /\ writer = [w \in Writers |-> Idle]

\* A caller reads the stream it is about to append to.
ReadStream(w, stream, command, hash, events) ==
    /\ writer[w] = Idle
    /\ writer' = [writer EXCEPT ![w].request =
                     [stream |-> stream, expected |-> currentStreamVersion(stream),
                      command |-> command, hash |-> hash, events |-> events]]
    /\ UNCHANGED <<log, commands, mutations>>

\* Mutant: versions count from the version that was read.
storedFrom(q) ==
    [i \in 1..Len(q.events) |->
        [stream |-> q.stream, version |-> q.expected + i - 1, command |-> q.command,
         hash |-> q.hash, id |-> q.events[i]]]

stored(q) ==
    [i \in 1..Len(q.events) |->
        [stream |-> q.stream, version |-> q.expected + i, command |-> q.command,
         hash |-> q.hash, id |-> q.events[i]]]

\* The UNIQUE constraints of the events table over the log and the new rows.
violatesConstraint(q) ==
    LET rows == log \o stored(q)
    IN  \E i, j \in DOMAIN rows :
            /\ i # j
            /\ \/ rows[i].id = rows[j].id
               \/ rows[i].stream = rows[j].stream /\ rows[i].version = rows[j].version

\* Mutant: the first position is the one before the append.
commandAppendBefore(q) ==
    [hash |-> q.hash, first |-> Len(log), last |-> Len(log) + Len(q.events)]

commandAppend(q) ==
    [hash |-> q.hash, first |-> Len(log) + 1, last |-> Len(log) + Len(q.events)]

Result(status, first, last) == [status |-> status, first |-> first, last |-> last]
Failed(status) == Result(status, 0, 0)
appendResult(row) == Result("stored", row.first, row.last)

\* Mutant: a command seen before is answered whatever its request was.
replayAnswerAny(q) == appendResult(commands[q.command])

replayAnswer(q) ==
    IF commands[q.command].hash = q.hash
    THEN appendResult(commands[q.command]) ELSE Failed("idempotency_conflict")

Answer(w, answer) == writer' = [writer EXCEPT ![w].answer = answer]

Pending(w) == writer[w].request # None /\ writer[w].answer = None

\* Mutant: the mutation runs again for a command that is replayed.
ReplayMutating(w) ==
    /\ Pending(w)
    /\ commands[writer[w].request.command] # None
    /\ Len(mutations) < MaxEvents
    /\ Answer(w, replayAnswer(writer[w].request))
    /\ mutations' = Append(mutations, writer[w].request.command)
    /\ UNCHANGED <<log, commands>>

\* append, for a command that was recorded before: nothing is written.
Replay(w) ==
    /\ Pending(w)
    /\ commands[writer[w].request.command] # None
    /\ Answer(w, replayAnswer(writer[w].request))
    /\ UNCHANGED <<log, commands, mutations>>

\* append, refused: at another version than the one read, by a constraint, or by
\* the caller's mutation.  The transaction is rolled back whole.
Refuse(w) ==
    /\ Pending(w)
    /\ commands[writer[w].request.command] = None
    /\ LET q == writer[w].request
       IN  IF currentStreamVersion(q.stream) # q.expected
           THEN Answer(w, Failed("concurrency_conflict"))
           ELSE IF violatesConstraint(q)
           THEN Answer(w, Failed("idempotency_conflict"))
           ELSE Answer(w, Failed("mutation_failed"))
    /\ UNCHANGED <<log, commands, mutations>>

\* append, committed: the events, the mutation and the command's row.
AppendAtomic(w) ==
    /\ Pending(w)
    /\ LET q == writer[w].request
       IN  /\ commands[q.command] = None
           /\ currentStreamVersion(q.stream) = q.expected
           /\ ~ violatesConstraint(q)
           /\ Len(log) + Len(q.events) <= MaxEvents
           /\ log' = log \o stored(q)
           /\ commands' = [commands EXCEPT ![q.command] = commandAppend(q)]
           /\ mutations' = Append(mutations, q.command)
           /\ Answer(w, appendResult(commandAppend(q)))

\* The caller repeats a request whose answer did not reach it.
Retry(w) ==
    /\ writer[w].answer # None
    /\ Answer(w, None)
    /\ UNCHANGED <<log, commands, mutations>>

\* The caller is done with its request, or stopped in the middle of it.
Forget(w) ==
    /\ writer[w] # Idle
    /\ writer' = [writer EXCEPT ![w] = Idle]
    /\ UNCHANGED <<log, commands, mutations>>

Next ==
    \E w \in Writers :
        \/ \E stream \in Streams, command \in Commands, hash \in Hashes, events \in Batches :
              ReadStream(w, stream, command, hash, events)
        \/ Replay(w) \/ Refuse(w) \/ AppendAtomic(w) \/ Retry(w) \/ Forget(w)

Spec == Init /\ [][Next]_vars

(***************************************************************************)
(* Properties.                                                             *)
(***************************************************************************)
TypeOK ==
    /\ log \in Seq(Events)
    /\ \A c \in Commands : commands[c] = None \/
          /\ commands[c].hash \in Hashes
          /\ commands[c].first \in DOMAIN log /\ commands[c].last \in DOMAIN log
    /\ mutations \in Seq(Commands)
    /\ \A w \in Writers : writer[w].request \in Requests \cup {None}

\* The events of a stream are numbered from 1 without a gap, in the order of the
\* log, whatever writers append to it at the version they once read.
StreamsAreGapless ==
    \A i \in DOMAIN log :
        /\ log[i].version = 1 \/ \E j \in 1..(i - 1) :
              log[j].stream = log[i].stream /\ log[j].version + 1 = log[i].version
        /\ \A j \in 1..(i - 1) :
              log[j].stream = log[i].stream => log[j].version < log[i].version

\* A command's row names exactly the events the command stored, side by side and
\* under the hash it was recorded with, and no event is without its command: a
\* batch is in the log whole or not at all, and once.
CommandsAreAtomic ==
    \A i \in DOMAIN log : \A c \in Commands :
        /\ (log[i].command = c) <=>
           (/\ commands[c] # None
            /\ commands[c].first <= i /\ i <= commands[c].last)
        /\ log[i].command = c => commands[c].hash = log[i].hash

\* A writer that is told its request is stored is told the positions of events
\* that carry this very request, also when an earlier attempt, or somebody else's,
\* stored them.
AnswersAreStored ==
    \A w \in Writers :
        (writer[w].answer # None /\ writer[w].answer.status = "stored") =>
            \A i \in writer[w].answer.first..writer[w].answer.last :
                /\ i \in DOMAIN log
                /\ log[i].command = writer[w].request.command
                /\ log[i].hash = writer[w].request.hash

\* The mutation joined to an append is committed exactly once for every command
\* that is recorded, and for no other (AppendAtomic's comment).
MutationsFollowCommands ==
    /\ \A c \in Commands :
          (commands[c] # None) <=> \E i \in DOMAIN mutations : mutations[i] = c
    /\ \A i, j \in DOMAIN mutations : mutations[i] = mutations[j] => i = j

=============================================================================

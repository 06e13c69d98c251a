----------------------------- MODULE LogProofs ------------------------------
(***************************************************************************)
(* What TLAPS proves of the event log and of its delivery to a sink and to *)
(* a console.  For any number of writers, streams, commands and events,    *)
(* streams are numbered without a gap, a command is stored whole and once  *)
(* with its mutation, and an answer names the events that carry the        *)
(* request.  For any number of overlapping passes and any page size, the   *)
(* cursor never passes an undelivered public event, it never moves back,   *)
(* and no private event is delivered.  For any page and channel size, any  *)
(* failing reads and broken connections, a console receives the public log *)
(* once and in order, and no wake-up of its subscription is lost.          *)
(***************************************************************************)
EXTENDS EventLog, Sinks, ConsoleStream, FiniteSetTheorems, SequenceTheorems,
        WellFoundedInduction, TLAPS

Row == [hash : Hashes, first : Nat, last : Nat]
Statuses == {"stored", "concurrency_conflict", "idempotency_conflict", "mutation_failed"}
Answers == [status : Statuses, first : Nat, last : Nat]

Typed ==
    /\ log \in Seq(Events)
    /\ commands \in [Commands -> Row \cup {None}]
    /\ mutations \in Seq(Commands)
    /\ writer \in [Writers -> [request : Requests \cup {None}, answer : Answers \cup {None}]]

\* The version numbers of a stream are an interval, so its greatest is its length.
Contiguous == \A s \in Streams : \E n \in Nat : versions(s) = 1..n

\* A row's positions are in the log.
RowsInLog == \A c \in Commands : commands[c] # None => commands[c].last <= Len(log)

\* What a writer was told is what the row of its command says.
AnswersAreRows ==
    \A w \in Writers :
        (writer[w].answer # None /\ writer[w].answer.status = "stored") =>
            /\ writer[w].request # None
            /\ commands[writer[w].request.command] # None
            /\ commands[writer[w].request.command].hash = writer[w].request.hash
            /\ commands[writer[w].request.command].first = writer[w].answer.first
            /\ commands[writer[w].request.command].last = writer[w].answer.last
            /\ 0 < writer[w].answer.first

RowsStartInLog ==
    \A c \in Commands : commands[c] # None =>
        0 < commands[c].first /\ commands[c].first <= commands[c].last

(***************************************************************************)
(* The inductive invariant.  The theorems' properties are inductive once   *)
(* it is known that streams are intervals, which makes the version check   *)
(* compare with the stream's length, and that rows stay inside the log.    *)
(***************************************************************************)
IInv ==
    /\ Typed /\ Contiguous /\ RowsInLog /\ RowsStartInLog /\ AnswersAreRows
    /\ StreamsAreGapless /\ CommandsAreAtomic /\ MutationsFollowCommands

\* The greatest of 1..n and 0 is n.
LEMMA MaxOfInterval ==
    ASSUME NEW n \in Nat
    PROVE  Max({0} \cup 1..n) = n
<1> DEFINE S == {0} \cup 1..n
           m == CHOOSE x \in S : \A y \in S : x >= y
<1>1. n \in S /\ \A y \in S : n >= y
  OBVIOUS
<1>2. \E x \in S : \A y \in S : x >= y
  BY <1>1
<1>3. m \in S /\ \A y \in S : m >= y
  BY Zenon, <1>2
<1>4. m \in Nat /\ m >= n /\ n >= m
  BY <1>1, <1>3
<1>5. m = n
  BY <1>4
<1> QED
  BY <1>5 DEF Max

\* Where versions are contiguous, a stream holds exactly the versions up to its current one.
LEMMA StreamVersion ==
    ASSUME Contiguous, NEW s \in Streams
    PROVE  /\ currentStreamVersion(s) \in Nat
           /\ versions(s) = 1..currentStreamVersion(s)
<1>1. PICK n \in Nat : versions(s) = 1..n
  BY DEF Contiguous
<1>2. currentStreamVersion(s) = n
  BY <1>1, MaxOfInterval DEF currentStreamVersion
<1> QED
  BY <1>1, <1>2

\* An empty log satisfies the invariant.
LEMMA InitIInv == Init => IInv
<1> SUFFICES ASSUME Init PROVE IInv
  OBVIOUS
<1>1. log = <<>> /\ mutations = <<>> /\ DOMAIN log = {} /\ DOMAIN mutations = {}
  BY DEF Init
<1>2. Typed
  BY <1>1 DEF Init, Typed, Idle
<1>3. Contiguous
  <2> SUFFICES ASSUME NEW s \in Streams PROVE \E n \in Nat : versions(s) = 1..n
    BY DEF Contiguous
  <2>1. versions(s) = {}
    BY <1>1 DEF versions
  <2>2. versions(s) = 1..0
    BY <2>1
  <2> QED
    BY <2>2
<1>4. \A c \in Commands : commands[c] = None
  BY DEF Init
<1>5. \A w \in Writers : writer[w].answer = None
  BY DEF Init, Idle
<1>6. StreamsAreGapless /\ CommandsAreAtomic
  BY <1>1 DEF StreamsAreGapless, CommandsAreAtomic
<1>7. MutationsFollowCommands
  BY <1>1, <1>4 DEF MutationsFollowCommands
<1>8. RowsInLog /\ RowsStartInLog /\ AnswersAreRows
  BY <1>4, <1>5 DEF RowsInLog, RowsStartInLog, AnswersAreRows
<1> QED
  BY <1>2, <1>3, <1>6, <1>7, <1>8 DEF IInv

\* A step that writes nothing keeps everything but the writers' part.
LEMMA UnchangedTables ==
    ASSUME IInv, UNCHANGED <<log, commands, mutations>>,
           writer' \in [Writers -> [request : Requests \cup {None}, answer : Answers \cup {None}]],
           AnswersAreRows'
    PROVE  IInv'
<1>1. log' = log /\ commands' = commands /\ mutations' = mutations
  OBVIOUS
<1>2. Typed'
  BY <1>1 DEF IInv, Typed
<1>3. Contiguous'
  BY <1>1 DEF IInv, Contiguous, versions
<1>4. RowsInLog' /\ RowsStartInLog'
  BY <1>1 DEF IInv, RowsInLog, RowsStartInLog
<1>5. StreamsAreGapless' /\ CommandsAreAtomic' /\ MutationsFollowCommands'
  BY <1>1 DEF IInv, StreamsAreGapless, CommandsAreAtomic, MutationsFollowCommands
<1> QED
  BY <1>2, <1>3, <1>4, <1>5 DEF IInv

\* Reading the stream before an append stores nothing.
LEMMA ReadIInv ==
    ASSUME IInv, NEW w \in Writers, NEW stream \in Streams, NEW command \in Commands,
           NEW hash \in Hashes, NEW events \in Batches,
           ReadStream(w, stream, command, hash, events)
    PROVE  IInv'
<1> DEFINE q == [stream |-> stream, expected |-> currentStreamVersion(stream),
                 command |-> command, hash |-> hash, events |-> events]
<1>1. q \in Requests
  BY StreamVersion DEF IInv, Requests
<1>2. writer \in [Writers -> [request : Requests \cup {None}, answer : Answers \cup {None}]]
  BY DEF IInv, Typed
<1>3. writer' = [writer EXCEPT ![w].request = q] /\ writer[w].answer = None
  BY DEF ReadStream, Idle
<1> HIDE DEF q
<1>4. writer' \in [Writers -> [request : Requests \cup {None}, answer : Answers \cup {None}]]
  BY <1>1, <1>2, <1>3
<1>5. \A v \in Writers : writer'[v].answer = writer[v].answer /\ (v # w => writer'[v] = writer[v])
  BY <1>2, <1>3
<1>6. commands' = commands
  BY DEF ReadStream
<1>7. AnswersAreRows'
  BY <1>3, <1>5, <1>6 DEF IInv, AnswersAreRows
<1> QED
  BY <1>4, <1>7, UnchangedTables DEF ReadStream

\* Giving an answer leaves the other writers and the request alone.
LEMMA AnswerTyped ==
    ASSUME Typed, NEW w \in Writers, NEW a \in Answers \cup {None}, Answer(w, a)
    PROVE  /\ writer' \in [Writers -> [request : Requests \cup {None}, answer : Answers \cup {None}]]
           /\ writer'[w].answer = a /\ writer'[w].request = writer[w].request
           /\ \A v \in Writers : v # w => writer'[v] = writer[v]
  BY DEF Typed, Answer

\* Answering a replayed command from its stored row stores nothing.
LEMMA ReplayIInv ==
    ASSUME IInv, NEW w \in Writers, Replay(w)
    PROVE  IInv'
<1> DEFINE q == writer[w].request
           a == replayAnswer(q)
<1>1. /\ q \in Requests /\ q # None /\ q.command \in Commands /\ q.hash \in Hashes
      /\ commands[q.command] # None /\ commands[q.command] \in Row
      /\ UNCHANGED <<log, commands, mutations>> /\ Answer(w, a)
  BY DEF IInv, Typed, Replay, Pending, Requests
<1>2. a \in Answers
  BY <1>1 DEF replayAnswer, appendResult, Failed, Result, Answers, Statuses, Row
<1>3. /\ writer' \in [Writers -> [request : Requests \cup {None}, answer : Answers \cup {None}]]
      /\ writer'[w].answer = a /\ writer'[w].request = q
      /\ \A v \in Writers : v # w => writer'[v] = writer[v]
  BY <1>1, <1>2, AnswerTyped DEF IInv
<1>4. a.status = "stored" =>
         /\ commands[q.command].hash = q.hash
         /\ commands[q.command].first = a.first
         /\ commands[q.command].last = a.last
         /\ 0 < a.first
  BY <1>1 DEF replayAnswer, appendResult, Failed, Result, IInv, RowsStartInLog
<1>5. AnswersAreRows'
  <2> HIDE DEF a
  <2> SUFFICES ASSUME NEW v \in Writers, writer'[v].answer # None, writer'[v].answer.status = "stored"
               PROVE  /\ writer'[v].request # None
                      /\ commands[writer'[v].request.command] # None
                      /\ commands[writer'[v].request.command].hash = writer'[v].request.hash
                      /\ commands[writer'[v].request.command].first = writer'[v].answer.first
                      /\ commands[writer'[v].request.command].last = writer'[v].answer.last
                      /\ 0 < writer'[v].answer.first
    BY <1>1 DEF AnswersAreRows
  <2>1. CASE v = w
    BY <1>1, <1>3, <1>4, <2>1
  <2>2. CASE v # w
    BY <1>3, <2>2 DEF IInv, AnswersAreRows
  <2> QED
    BY <2>1, <2>2
<1> QED
  BY <1>1, <1>3, <1>5, UnchangedTables

\* An answer that stores nothing, or none at all.
LEMMA UnstoredIInv ==
    ASSUME IInv, NEW w \in Writers, NEW a \in Answers \cup {None}, Answer(w, a),
           a = None \/ a.status # "stored", UNCHANGED <<log, commands, mutations>>
    PROVE  IInv'
<1>1. /\ writer' \in [Writers -> [request : Requests \cup {None}, answer : Answers \cup {None}]]
      /\ writer'[w].answer = a
      /\ \A v \in Writers : v # w => writer'[v] = writer[v]
  BY AnswerTyped DEF IInv
<1>2. AnswersAreRows'
  BY <1>1 DEF IInv, AnswersAreRows
<1> QED
  BY <1>1, <1>2, UnchangedTables

\* A refused append stores nothing.
LEMMA RefuseIInv ==
    ASSUME IInv, NEW w \in Writers, Refuse(w)
    PROVE  IInv'
<1>1. PICK status \in {"concurrency_conflict", "idempotency_conflict", "mutation_failed"} :
         Answer(w, Failed(status))
  BY DEF Refuse
<1>2. Failed(status) \in Answers /\ Failed(status).status # "stored"
  BY <1>1 DEF Failed, Result, Answers, Statuses
<1> QED
  BY <1>1, <1>2, UnstoredIInv DEF Refuse

\* A writer that tries again stores nothing.
LEMMA RetryIInv ==
    ASSUME IInv, NEW w \in Writers, Retry(w)
    PROVE  IInv'
  BY UnstoredIInv DEF Retry

\* A writer that drops its answer stores nothing.
LEMMA ForgetIInv ==
    ASSUME IInv, NEW w \in Writers, Forget(w)
    PROVE  IInv'
<1>1. /\ writer' = [writer EXCEPT ![w] = Idle] /\ UNCHANGED <<log, commands, mutations>>
      /\ writer \in [Writers -> [request : Requests \cup {None}, answer : Answers \cup {None}]]
  BY DEF Forget, IInv, Typed
<1>2. writer' \in [Writers -> [request : Requests \cup {None}, answer : Answers \cup {None}]]
  BY <1>1 DEF Idle
<1>3. AnswersAreRows'
  BY <1>1 DEF IInv, AnswersAreRows, Idle
<1> QED
  BY <1>1, <1>2, <1>3, UnchangedTables

(***************************************************************************)
(* The committed append.                                                   *)
(***************************************************************************)
\* The log after an append: the old rows, then the request's.
LEMMA AppendedRows ==
    ASSUME NEW l \in Seq(Events), NEW q \in Requests
    PROVE  LET n == Len(l)  k == Len(q.events)  L == l \o stored(q)
           IN  /\ n \in Nat /\ k \in Nat /\ k > 0
               /\ L \in Seq(Events) /\ Len(L) = n + k /\ DOMAIN L = 1..(n + k)
               /\ \A i \in 1..n : L[i] = l[i]
               /\ \A i \in 1..k : L[n + i] =
                     [stream |-> q.stream, version |-> q.expected + i, command |-> q.command,
                      hash |-> q.hash, id |-> q.events[i]]
<1> DEFINE n == Len(l)
           k == Len(q.events)
           f == stored(q)
<1>1. q.events \in Seq(EventIDs) /\ q.events # <<>> /\ q.expected \in Nat
      /\ q.stream \in Streams /\ q.command \in Commands /\ q.hash \in Hashes
  BY BatchesAssumption DEF Requests
<1>2. n \in Nat /\ k \in Nat /\ k > 0
  BY <1>1, EmptySeq
<1>3. \A i \in 1..k : q.events[i] \in EventIDs
  BY <1>1
<1>4. f \in Seq(Events) /\ Len(f) = k
  <2>1. f \in [1..k -> Events]
    BY <1>1, <1>2, <1>3 DEF stored, Events
  <2> HIDE DEF f
  <2> QED
    BY <1>2, <2>1
<1>5. \A i \in 1..k : f[i] =
         [stream |-> q.stream, version |-> q.expected + i, command |-> q.command,
          hash |-> q.hash, id |-> q.events[i]]
  BY DEF stored
<1> HIDE DEF f
<1>6. /\ l \o f \in Seq(Events) /\ Len(l \o f) = n + k
      /\ \A i \in 1..n : (l \o f)[i] = l[i]
      /\ \A i \in 1..k : (l \o f)[n + i] = f[i]
  BY <1>2, <1>4
<1>7. DOMAIN (l \o f) = 1..(n + k)
  BY <1>6
<1> QED
  BY <1>2, <1>5, <1>6, <1>7 DEF f

\* The transaction that writes events, command row and mutation preserves the invariant.
LEMMA AppendIInv ==
    ASSUME IInv, NEW w \in Writers, AppendAtomic(w)
    PROVE  IInv'
<1> DEFINE q == writer[w].request
           n == Len(log)
           k == Len(q.events)
           row == commandAppend(q)
<1>1. /\ q \in Requests /\ q # None /\ q.stream \in Streams /\ q.expected \in Nat
      /\ q.command \in Commands /\ q.hash \in Hashes /\ log \in Seq(Events)
  BY DEF IInv, Typed, AppendAtomic, Pending, Requests
<1>2. /\ commands[q.command] = None /\ currentStreamVersion(q.stream) = q.expected
      /\ log' = log \o stored(q) /\ commands' = [commands EXCEPT ![q.command] = row]
      /\ mutations' = Append(mutations, q.command) /\ Answer(w, appendResult(row))
  BY DEF AppendAtomic
<1>3. /\ n \in Nat /\ k \in Nat /\ k > 0
      /\ log' \in Seq(Events) /\ Len(log') = n + k /\ DOMAIN log' = 1..(n + k)
      /\ \A i \in 1..n : log'[i] = log[i]
      /\ \A i \in 1..k : log'[n + i] =
            [stream |-> q.stream, version |-> q.expected + i, command |-> q.command,
             hash |-> q.hash, id |-> q.events[i]]
  BY Zenon, <1>1, <1>2, AppendedRows
<1> DEFINE new(i) == /\ log'[i].stream = q.stream
                     /\ log'[i].version = q.expected + (i - n)
                     /\ log'[i].command = q.command /\ log'[i].hash = q.hash
<1>3a. \A i \in (n + 1)..(n + k) : new(i)
  <2> TAKE i \in (n + 1)..(n + k)
  <2> DEFINE d == i - n
  <2>1. d \in 1..k /\ n + d = i
    BY <1>3
  <2> HIDE DEF d
  <2>2. log'[n + d] =
            [stream |-> q.stream, version |-> q.expected + d, command |-> q.command,
             hash |-> q.hash, id |-> q.events[d]]
    BY <1>3, <2>1
  <2>3. /\ log'[i].stream = q.stream /\ log'[i].version = q.expected + d
        /\ log'[i].command = q.command /\ log'[i].hash = q.hash
    BY <2>1, <2>2
  <2> QED
    BY <2>3 DEF d
<1>4. /\ row \in Row /\ row # None /\ row.hash = q.hash
      /\ row.first = n + 1 /\ row.last = n + k
  BY <1>1, <1>3, NoneAssumption DEF commandAppend, Row
<1>5. DOMAIN log = 1..n /\ \A i \in 1..n : log[i] \in Events
  BY <1>1
<1>6. \A i \in 1..(n + k) : i \in 1..n \/ i \in (n + 1)..(n + k)
  BY <1>3
<1>7. /\ commands \in [Commands -> Row \cup {None}]
      /\ commands'[q.command] = row
      /\ \A c \in Commands : c # q.command => commands'[c] = commands[c]
      /\ commands' \in [Commands -> Row \cup {None}]
  BY <1>1, <1>2, <1>4 DEF IInv, Typed
<1> HIDE DEF row
<1>8. appendResult(row) \in Answers /\ appendResult(row).status = "stored"
      /\ appendResult(row).first = row.first /\ appendResult(row).last = row.last
  BY <1>3, <1>4 DEF appendResult, Result, Answers, Statuses
<1>9. /\ writer' \in [Writers -> [request : Requests \cup {None}, answer : Answers \cup {None}]]
      /\ writer'[w].answer = appendResult(row) /\ writer'[w].request = q
      /\ \A v \in Writers : v # w => writer'[v] = writer[v]
  BY <1>2, <1>8, AnswerTyped DEF IInv
<1>10. Typed'
  BY <1>1, <1>2, <1>3, <1>7, <1>9 DEF IInv, Typed
<1>11. Contiguous'
  <2> SUFFICES ASSUME NEW s \in Streams PROVE \E m \in Nat : versions(s)' = 1..m
    BY DEF Contiguous
  <2>1. versions(s)' = {log'[i].version : i \in {j \in 1..(n + k) : log'[j].stream = s}}
    BY <1>3 DEF versions
  <2>2. versions(s) = {log[i].version : i \in {j \in 1..n : log[j].stream = s}}
    BY <1>5 DEF versions
  <2>3. \A v : v \in versions(s)' <=>
          (v \in versions(s) \/ (s = q.stream /\ \E i \in 1..k : v = q.expected + i))
    <3> SUFFICES ASSUME NEW v
                 PROVE  v \in versions(s)' <=>
                          (v \in versions(s) \/ (s = q.stream /\ \E i \in 1..k : v = q.expected + i))
      OBVIOUS
    <3>1. ASSUME v \in versions(s)'
          PROVE  v \in versions(s) \/ (s = q.stream /\ \E i \in 1..k : v = q.expected + i)
      <4>1. PICK i \in 1..(n + k) : log'[i].stream = s /\ v = log'[i].version
        BY <2>1, <3>1
      <4>2. CASE i \in 1..n
        BY <1>3, <2>2, <4>1, <4>2
      <4>3. CASE i \in (n + 1)..(n + k)
        <5>1. log'[i].stream = q.stream /\ log'[i].version = q.expected + (i - n)
          BY <1>3a, <4>3
        <5>2. i - n \in 1..k
          BY <1>3, <4>3
        <5> QED
          BY <4>1, <5>1, <5>2
      <4> QED
        BY <1>6, <4>2, <4>3
    <3>2. ASSUME v \in versions(s) PROVE v \in versions(s)'
      <4>1. PICK i \in 1..n : log[i].stream = s /\ v = log[i].version
        BY <2>2, <3>2
      <4>2. i \in 1..(n + k) /\ log'[i] = log[i]
        BY <1>3, <4>1
      <4> QED
        BY <2>1, <4>1, <4>2
    <3>3. ASSUME s = q.stream, NEW i \in 1..k, v = q.expected + i PROVE v \in versions(s)'
      <4>0. n + i \in (n + 1)..(n + k) /\ (n + i) - n = i /\ n + i \in 1..(n + k)
        BY <1>3
      <4>2. log'[n + i].stream = q.stream /\ log'[n + i].version = q.expected + ((n + i) - n)
        BY <1>3a, <4>0
      <4>1. n + i \in 1..(n + k) /\ log'[n + i].stream = s /\ log'[n + i].version = v
        BY <3>3, <4>0, <4>2
      <4> QED
        BY <2>1, <4>1
    <3> QED
      BY <3>1, <3>2, <3>3
  <2>4. CASE s # q.stream
    <3>1. versions(s)' = versions(s)
      BY Zenon, <2>3, <2>4
    <3> QED
      BY <3>1 DEF IInv, Contiguous
  <2>5. CASE s = q.stream
    <3>1. versions(s) = 1..q.expected
      BY <1>2, <2>5, StreamVersion DEF IInv
    <3>2. \A v : v \in versions(s)' <=> v \in 1..(q.expected + k)
      <4>0. q.expected \in Nat /\ k \in Nat
        BY <1>1, <1>3
      <4> DEFINE x == q.expected
      <4> HIDE DEF x, k
      <4>1. ASSUME NEW v \in 1..(x + k)
            PROVE  v \in 1..x \/ (v - x \in 1..k /\ v = x + (v - x))
        BY <4>0 DEF x
      <4>2. ASSUME NEW i \in 1..k PROVE x + i \in 1..(x + k)
        BY <4>0 DEF x
      <4>3. ASSUME NEW v \in 1..x PROVE v \in 1..(x + k)
        BY <4>0 DEF x
      <4> USE DEF x
      <4> QED
        BY <2>3, <2>5, <3>1, <4>1, <4>2, <4>3
    <3>3. versions(s)' = 1..(q.expected + k)
      BY Zenon, <3>2
    <3> QED
      BY <1>1, <1>3, <3>3
  <2> QED
    BY <2>4, <2>5
<1>12. StreamsAreGapless'
  <2>1. versions(q.stream) = 1..q.expected
    BY <1>1, <1>2, StreamVersion DEF IInv
  <2>2. ASSUME NEW j \in 1..n, log[j].stream = q.stream PROVE log[j].version \in 1..q.expected
    BY <1>5, <2>1, <2>2 DEF versions
  <2> SUFFICES ASSUME NEW i \in 1..(n + k)
               PROVE  /\ log'[i].version = 1 \/ \E j \in 1..(i - 1) :
                            log'[j].stream = log'[i].stream /\ log'[j].version + 1 = log'[i].version
                      /\ \A j \in 1..(i - 1) :
                            log'[j].stream = log'[i].stream => log'[j].version < log'[i].version
    BY <1>3 DEF StreamsAreGapless
  <2>3. CASE i \in 1..n
    <3>1. \A j \in 1..(i - 1) : log'[j] = log[j]
      BY <1>3, <2>3
    <3>2. log'[i] = log[i]
      BY <1>3, <2>3
    <3>3. /\ log[i].version = 1 \/ \E j \in 1..(i - 1) :
                log[j].stream = log[i].stream /\ log[j].version + 1 = log[i].version
          /\ \A j \in 1..(i - 1) : log[j].stream = log[i].stream => log[j].version < log[i].version
      BY <1>5, <2>3 DEF IInv, StreamsAreGapless
    <3> QED
      BY <3>1, <3>2, <3>3
  <2>4. CASE i \in (n + 1)..(n + k)
    <3> DEFINE d == i - n
    <3>1. d \in 1..k /\ log'[i].stream = q.stream /\ log'[i].version = q.expected + d
      BY <1>3, <1>3a, <2>4
    <3>2. ASSUME NEW j \in 1..(i - 1), log'[j].stream = q.stream
          PROVE  log'[j].version < q.expected + d
      <4>1. CASE j \in 1..n
        <5>1. log'[j] = log[j]
          BY <1>3, <4>1
        <5>2. log[j].version \in 1..q.expected
          BY <2>2, <3>2, <4>1, <5>1
        <5> QED
          BY <1>1, <3>1, <5>1, <5>2
      <4>2. CASE j \in (n + 1)..(n + k)
        <5>1. log'[j].version = q.expected + (j - n)
          BY <1>3a, <4>2
        <5> QED
          BY <1>1, <1>3, <3>1, <4>2, <5>1
      <4>3. j \in 1..(n + k)
        BY <1>3
      <4> QED
        BY <1>6, <4>1, <4>2, <4>3
    <3>3. CASE d # 1
      <4>1. i - 1 \in (n + 1)..(n + k) /\ i - 1 \in 1..(i - 1)
        BY <1>3, <3>1, <3>3
      <4>2. log'[i - 1].stream = q.stream /\ log'[i - 1].version = q.expected + ((i - 1) - n)
        BY <1>3a, <4>1
      <4>3. log'[i - 1].version + 1 = q.expected + d
        BY <1>1, <1>3, <4>2
      <4> QED
        BY <3>1, <3>2, <4>1, <4>2, <4>3
    <3>4. CASE d = 1 /\ q.expected # 0
      <4>1. q.expected \in versions(q.stream)
        BY <1>1, <2>1, <3>4
      <4>2. PICK j \in 1..n : log[j].stream = q.stream /\ log[j].version = q.expected
        BY <1>5, <4>1 DEF versions
      <4>3. j \in 1..(i - 1) /\ log'[j] = log[j]
        BY <1>3, <3>4, <4>2
      <4> QED
        BY <3>1, <3>2, <3>4, <4>2, <4>3
    <3>5. CASE d = 1 /\ q.expected = 0
      BY <3>1, <3>2, <3>5
    <3> QED
      BY <3>3, <3>4, <3>5
  <2> QED
    BY <1>6, <2>3, <2>4
<1>13. CommandsAreAtomic'
  <2> SUFFICES ASSUME NEW i \in 1..(n + k), NEW c \in Commands
               PROVE  /\ (log'[i].command = c) <=>
                         (/\ commands'[c] # None
                          /\ commands'[c].first <= i /\ i <= commands'[c].last)
                      /\ log'[i].command = c => commands'[c].hash = log'[i].hash
    BY <1>3 DEF CommandsAreAtomic
  <2>1. CASE i \in 1..n
    <3>1. log'[i] = log[i]
      BY <1>3, <2>1
    <3>2. /\ (log[i].command = c) <=>
             (/\ commands[c] # None
              /\ commands[c].first <= i /\ i <= commands[c].last)
          /\ log[i].command = c => commands[c].hash = log[i].hash
      BY <1>5, <2>1 DEF IInv, CommandsAreAtomic
    <3>3. CASE c = q.command
      <4>1. log[i].command # c
        BY <1>2, <3>2, <3>3
      <4>2. ~ (row.first <= i)
        BY <1>3, <1>4, <2>1
      <4> QED
        BY <1>7, <3>1, <3>3, <4>1, <4>2
    <3>4. CASE c # q.command
      BY <1>7, <3>1, <3>2, <3>4
    <3> QED
      BY <3>3, <3>4
  <2>2. CASE i \in (n + 1)..(n + k)
    <3>1. log'[i].command = q.command /\ log'[i].hash = q.hash
      BY <1>3a, <2>2
    <3>2. CASE c = q.command
      <4>1. row.first <= i /\ i <= row.last
        BY <1>3, <1>4, <2>2
      <4> QED
        BY <1>4, <1>7, <3>1, <3>2, <4>1
    <3>3. CASE c # q.command
      <4>1. commands[c] # None => commands[c].last <= n /\ commands[c].last \in Nat
        BY <1>7 DEF IInv, RowsInLog, Row
      <4>2. ~ (commands[c] # None /\ i <= commands[c].last)
        BY <1>3, <2>2, <4>1
      <4> QED
        BY <1>7, <3>1, <3>3, <4>2
    <3> QED
      BY <3>2, <3>3
  <2> QED
    BY <1>6, <2>1, <2>2
<1>14. RowsInLog' /\ RowsStartInLog'
  <2>1. ASSUME NEW c \in Commands, commands'[c] # None
        PROVE  /\ commands'[c].last <= n + k /\ 0 < commands'[c].first
               /\ commands'[c].first <= commands'[c].last
    <3>1. CASE c = q.command
      <4>1. commands'[c] = row
        BY <1>7, <3>1
      <4>2. row.last <= n + k /\ 0 < row.first /\ row.first <= row.last
        BY <1>3, <1>4
      <4> QED
        BY <4>1, <4>2
    <3>2. CASE c # q.command
      <4>1. commands'[c] = commands[c] /\ commands[c] \in Row
        BY <1>7, <2>1, <3>2
      <4>2. /\ commands[c].last \in Nat /\ commands[c].last <= n /\ 0 < commands[c].first
            /\ commands[c].first <= commands[c].last
        BY <2>1, <4>1 DEF IInv, RowsInLog, RowsStartInLog, Row
      <4> QED
        BY <1>3, <4>1, <4>2
    <3> QED
      BY <3>1, <3>2
  <2> QED
    BY <1>3, <2>1 DEF RowsInLog, RowsStartInLog
<1>15. AnswersAreRows'
  <2> SUFFICES ASSUME NEW v \in Writers, writer'[v].answer # None, writer'[v].answer.status = "stored"
               PROVE  /\ writer'[v].request # None
                      /\ commands'[writer'[v].request.command] # None
                      /\ commands'[writer'[v].request.command].hash = writer'[v].request.hash
                      /\ commands'[writer'[v].request.command].first = writer'[v].answer.first
                      /\ commands'[writer'[v].request.command].last = writer'[v].answer.last
                      /\ 0 < writer'[v].answer.first
    BY DEF AnswersAreRows
  <2>1. CASE v = w
    BY <1>1, <1>3, <1>4, <1>7, <1>8, <1>9, <2>1
  <2>2. CASE v # w
    <3>1. writer'[v] = writer[v]
      BY <1>9, <2>2
    <3>2. /\ writer[v].request # None
          /\ commands[writer[v].request.command] # None
          /\ commands[writer[v].request.command].hash = writer[v].request.hash
          /\ commands[writer[v].request.command].first = writer[v].answer.first
          /\ commands[writer[v].request.command].last = writer[v].answer.last
          /\ 0 < writer[v].answer.first
      BY <3>1 DEF IInv, AnswersAreRows
    <3>3. writer[v].request.command \in Commands
      BY <3>2 DEF IInv, Typed, Requests
    <3>4. commands'[writer[v].request.command] = commands[writer[v].request.command]
      BY <1>2, <1>7, <3>2, <3>3
    <3> QED
      BY <3>1, <3>2, <3>4
  <2> QED
    BY <2>1, <2>2
<1>16. MutationsFollowCommands'
  <2> DEFINE m == Len(mutations)
  <2>1. mutations \in Seq(Commands) /\ m \in Nat /\ DOMAIN mutations = 1..m
    BY DEF IInv, Typed
  <2>2. /\ DOMAIN mutations' = 1..(m + 1) /\ mutations'[m + 1] = q.command
        /\ \A i \in 1..m : mutations'[i] = mutations[i]
    BY <1>1, <1>2, <2>1
  <2>3. \A i \in 1..(m + 1) : i \in 1..m \/ i = m + 1
    BY <2>1
  <2>4. \A i \in 1..m : mutations[i] # q.command
    BY Zenon, <1>1, <1>2, <2>1 DEF IInv, MutationsFollowCommands
  <2>5. ASSUME NEW c \in Commands
        PROVE  (commands'[c] # None) <=> \E i \in 1..(m + 1) : mutations'[i] = c
    <3>1. CASE c = q.command
      <4>1. m + 1 \in 1..(m + 1)
        BY <2>1
      <4> QED
        BY <1>4, <1>7, <2>2, <3>1, <4>1
    <3>2. CASE c # q.command
      <4>1. (commands[c] # None) <=> \E i \in 1..m : mutations[i] = c
        BY <2>1 DEF IInv, MutationsFollowCommands
      <4>2. \A i \in 1..m : i \in 1..(m + 1)
        BY <2>1
      <4> QED
        BY <1>7, <2>2, <2>3, <3>2, <4>1, <4>2
    <3> QED
      BY <3>1, <3>2
  <2>6. ASSUME NEW i \in 1..(m + 1), NEW j \in 1..(m + 1), mutations'[i] = mutations'[j]
        PROVE  i = j
    <3>1. \A x, y \in 1..m : mutations[x] = mutations[y] => x = y
      BY <2>1 DEF IInv, MutationsFollowCommands
    <3> QED
      BY <2>2, <2>3, <2>4, <2>6, <3>1
  <2> QED
    BY <2>2, <2>5, <2>6 DEF MutationsFollowCommands
<1> QED
  BY <1>10, <1>11, <1>12, <1>13, <1>14, <1>15, <1>16 DEF IInv

\* Every step of the log preserves the invariant.
LEMMA NextIInv == IInv /\ [Next]_vars => IInv'
<1> SUFFICES ASSUME IInv, [Next]_vars PROVE IInv'
  OBVIOUS
<1>1. ASSUME NEW w \in Writers, NEW stream \in Streams, NEW command \in Commands,
             NEW hash \in Hashes, NEW events \in Batches,
             ReadStream(w, stream, command, hash, events)
      PROVE  IInv'
  BY <1>1, ReadIInv
<1>2. ASSUME NEW w \in Writers, Replay(w) PROVE IInv'
  BY <1>2, ReplayIInv
<1>3. ASSUME NEW w \in Writers, Refuse(w) PROVE IInv'
  BY <1>3, RefuseIInv
<1>4. ASSUME NEW w \in Writers, AppendAtomic(w) PROVE IInv'
  BY <1>4, AppendIInv
<1>5. ASSUME NEW w \in Writers, Retry(w) PROVE IInv'
  BY <1>5, RetryIInv
<1>6. ASSUME NEW w \in Writers, Forget(w) PROVE IInv'
  BY <1>6, ForgetIInv
<1>7. CASE UNCHANGED vars
  <2>1. /\ UNCHANGED <<log, commands, mutations>> /\ writer' = writer
    BY <1>7 DEF vars
  <2>2. AnswersAreRows'
    BY <2>1 DEF IInv, AnswersAreRows
  <2> QED
    BY <2>1, <2>2, UnchangedTables DEF IInv, Typed
<1> QED
  BY <1>1, <1>2, <1>3, <1>4, <1>5, <1>6, <1>7 DEF Next

\* The invariant holds in every state the log reaches.
LEMMA Invariance == Spec => []IInv
  BY InitIInv, NextIInv, PTL DEF Spec

(***************************************************************************)
(* Streams are numbered without a gap, whoever appends to them.            *)
(***************************************************************************)
THEOREM StreamsStayGapless == Spec => []StreamsAreGapless
<1>1. IInv => StreamsAreGapless
  BY DEF IInv
<1> QED
  BY <1>1, Invariance, PTL

(***************************************************************************)
(* A batch is in the log whole or not at all, and once for its command.    *)
(***************************************************************************)
THEOREM CommandsStayAtomic == Spec => []CommandsAreAtomic
<1>1. IInv => CommandsAreAtomic
  BY DEF IInv
<1> QED
  BY <1>1, Invariance, PTL

(***************************************************************************)
(* The mutation joined to an append is committed once for every recorded   *)
(* command and for no other.                                               *)
(***************************************************************************)
THEOREM MutationsStayWithCommands == Spec => []MutationsFollowCommands
<1>1. IInv => MutationsFollowCommands
  BY DEF IInv
<1> QED
  BY <1>1, Invariance, PTL

(***************************************************************************)
(* A writer is never told of positions that hold another request.          *)
(***************************************************************************)
THEOREM AnswersStayStored == Spec => []AnswersAreStored
<1>1. IInv => AnswersAreStored
  <2> SUFFICES ASSUME IInv, NEW w \in Writers, writer[w].answer # None,
                      writer[w].answer.status = "stored",
                      NEW i \in writer[w].answer.first..writer[w].answer.last
               PROVE  /\ i \in DOMAIN log
                      /\ log[i].command = writer[w].request.command
                      /\ log[i].hash = writer[w].request.hash
    BY DEF AnswersAreStored
  <2> DEFINE c == writer[w].request.command
  <2>1. /\ commands[c] # None /\ commands[c].hash = writer[w].request.hash
        /\ commands[c].first = writer[w].answer.first
        /\ commands[c].last = writer[w].answer.last /\ 0 < writer[w].answer.first
        /\ writer[w].request # None
    BY DEF IInv, AnswersAreRows
  <2>2. c \in Commands
    BY <2>1 DEF IInv, Typed, Requests
  <2>3. commands[c] \in Row /\ commands[c].last <= Len(log) /\ log \in Seq(Events)
    BY <2>1, <2>2 DEF IInv, Typed, RowsInLog
  <2>4. commands[c].first \in Nat /\ commands[c].last \in Nat
    BY <2>3 DEF Row
  <2>5. i \in 1..Len(log) /\ commands[c].first <= i /\ i <= commands[c].last
    BY <2>1, <2>3, <2>4
  <2>6. i \in DOMAIN log
    BY <2>3, <2>5
  <2>8. log[i].command = c /\ log[i].hash = commands[c].hash
    BY <2>1, <2>2, <2>5, <2>6 DEF IInv, CommandsAreAtomic
  <2> QED
    BY <2>1, <2>6, <2>8
<1> QED
  BY <1>1, Invariance, PTL

(***************************************************************************)
(* Events, rows and requests hold values of their types, and a row's       *)
(* positions are positions of the log.                                     *)
(***************************************************************************)
THEOREM TypeCorrect == Spec => []TypeOK
<1>1. IInv => TypeOK
  <2> SUFFICES ASSUME IInv PROVE TypeOK
    OBVIOUS
  <2>1. log \in Seq(Events) /\ Len(log) \in Nat /\ DOMAIN log = 1..Len(log) /\ mutations \in Seq(Commands)
    BY DEF IInv, Typed
  <2>2. ASSUME NEW c \in Commands, commands[c] # None
        PROVE  /\ commands[c].hash \in Hashes
               /\ commands[c].first \in DOMAIN log /\ commands[c].last \in DOMAIN log
    <3>1. commands[c] \in Row
      BY <2>2 DEF IInv, Typed
    <3>2. commands[c].hash \in Hashes /\ commands[c].first \in Nat /\ commands[c].last \in Nat
      BY <3>1 DEF Row
    <3>3. 0 < commands[c].first /\ commands[c].first <= commands[c].last /\ commands[c].last <= Len(log)
      BY <2>2 DEF IInv, RowsInLog, RowsStartInLog
    <3> QED
      BY <2>1, <3>2, <3>3
  <2>3. \A w \in Writers : writer[w].request \in Requests \cup {None}
    BY DEF IInv, Typed
  <2> QED
    BY <2>1, <2>2, <2>3 DEF TypeOK
<1> QED
  BY <1>1, Invariance, PTL

(***************************************************************************)
(* Delivery to a sink (Sinks).                                              *)
(***************************************************************************)
Stages == {"idle", "reading", "delivering", "acking", "replaying"}

SinkTyped ==
    /\ feed \in Seq({"public", "private"})
    /\ offset \in Nat /\ offset <= Len(feed)
    /\ pass \in [Passes -> [stage : Stages, at : Nat, upto : Nat]]

\* Every public event before a position was delivered.
DeliveredUpTo(n) == \A i \in 1..n : feed[i] = "public" => i \in delivered

\* A pass that may acknowledge has nothing undelivered behind it, and the event it
\* is about to acknowledge is delivered too.
PassesAreInOrder ==
    \A p \in Passes :
        /\ pass[p].stage # "idle" => pass[p].at > 0
        /\ pass[p].upto <= Len(feed)
        /\ pass[p].stage \in {"reading", "delivering"} => DeliveredUpTo(pass[p].at - 1)
        /\ pass[p].at <= Len(feed) + 1
        /\ pass[p].stage = "acking" => pass[p].at <= Len(feed) /\ DeliveredUpTo(pass[p].at)

(***************************************************************************)
(* The inductive invariant.  The cursor's property alone is not inductive: *)
(* an acknowledgement raises it to where the pass is, so the pass has to   *)
(* have left nothing behind since it read the cursor.                      *)
(***************************************************************************)
SinkIInv == SinkTyped /\ PassesAreInOrder /\ CursorIsBehindDelivery

\* A sink that has delivered nothing satisfies its invariant.
LEMMA SinkInitIInv == SinkInit => SinkIInv
  BY DEF SinkInit, NoPass, SinkIInv, SinkTyped, Stages, PassesAreInOrder, CursorIsBehindDelivery

\* An event appended behind the passes disturbs none of them.
LEMMA AppendEventIInv ==
    ASSUME SinkIInv, NEW visibility \in {"public", "private"}, AppendEvent(visibility)
    PROVE  SinkIInv'
<1>1. /\ feed' = Append(feed, visibility) /\ offset' = offset /\ delivered' = delivered
      /\ pass' = pass /\ feed \in Seq({"public", "private"}) /\ Len(feed) \in Nat
  BY DEF AppendEvent, SinkIInv, SinkTyped
<1>2. /\ feed' \in Seq({"public", "private"}) /\ Len(feed') = Len(feed) + 1
      /\ \A i \in 1..Len(feed) : feed'[i] = feed[i]
  BY <1>1
<1>3. \A n \in 0..Len(feed) : DeliveredUpTo(n) => DeliveredUpTo(n)'
  BY <1>1, <1>2 DEF DeliveredUpTo
<1>4. SinkTyped'
  BY <1>1, <1>2 DEF SinkIInv, SinkTyped
<1>5. PassesAreInOrder'
  <2> SUFFICES ASSUME NEW p \in Passes
               PROVE  /\ pass[p].stage # "idle" => pass[p].at > 0
                      /\ pass[p].upto <= Len(feed')
                      /\ pass[p].stage \in {"reading", "delivering"} => DeliveredUpTo(pass[p].at - 1)'
                      /\ pass[p].at <= Len(feed') + 1
                      /\ pass[p].stage = "acking" => pass[p].at <= Len(feed') /\ DeliveredUpTo(pass[p].at)'
    BY Zenon, <1>1 DEF PassesAreInOrder, DeliveredUpTo
  <2>1. pass[p].at \in Nat /\ pass[p].upto \in Nat
    BY DEF SinkIInv, SinkTyped
  <2>2. /\ pass[p].stage # "idle" => pass[p].at > 0
        /\ pass[p].upto <= Len(feed)
        /\ pass[p].stage \in {"reading", "delivering"} => DeliveredUpTo(pass[p].at - 1)
        /\ pass[p].at <= Len(feed) + 1
        /\ pass[p].stage = "acking" => pass[p].at <= Len(feed) /\ DeliveredUpTo(pass[p].at)
    BY DEF SinkIInv, PassesAreInOrder
  <2>3. pass[p].stage \in {"reading", "delivering"} => pass[p].at - 1 \in 0..Len(feed)
    BY <1>1, <2>1, <2>2
  <2>4. pass[p].stage = "acking" => pass[p].at \in 0..Len(feed)
    BY <1>1, <2>1, <2>2
  <2>5. /\ pass[p].stage \in {"reading", "delivering"} => DeliveredUpTo(pass[p].at - 1)'
        /\ pass[p].stage = "acking" => DeliveredUpTo(pass[p].at)'
    BY <1>1, <1>3, <2>2, <2>3, <2>4
  <2> QED
    BY <1>1, <1>2, <2>1, <2>2, <2>5
<1>6. CursorIsBehindDelivery'
  BY <1>1, <1>2 DEF SinkIInv, SinkTyped, CursorIsBehindDelivery
<1> QED
  BY <1>4, <1>5, <1>6 DEF SinkIInv

\* A step of one pass that leaves the log alone keeps the others in order, and the
\* invariant if its own pass and the cursor are in order.
LEMMA OnePass ==
    ASSUME SinkIInv, NEW p \in Passes, NEW q, q \in [stage : Stages, at : Nat, upto : Nat],
           pass' = [pass EXCEPT ![p] = q], feed' = feed,
           delivered \subseteq delivered',
           offset' \in Nat, offset' <= Len(feed), CursorIsBehindDelivery',
           q.stage # "idle" => q.at > 0,
           q.upto <= Len(feed),
           q.stage \in {"reading", "delivering"} => DeliveredUpTo(q.at - 1)',
           q.at <= Len(feed) + 1,
           q.stage = "acking" => q.at <= Len(feed) /\ DeliveredUpTo(q.at)'
    PROVE  SinkIInv'
<1>1. pass \in [Passes -> [stage : Stages, at : Nat, upto : Nat]]
  BY DEF SinkIInv, SinkTyped
<1>2. SinkTyped'
  BY <1>1 DEF SinkIInv, SinkTyped
<1>3. pass'[p] = q /\ \A r \in Passes : r # p => pass'[r] = pass[r]
  BY <1>1
<1>4. \A n : DeliveredUpTo(n) => DeliveredUpTo(n)'
  BY DEF DeliveredUpTo
<1>5. PassesAreInOrder'
  <2> SUFFICES ASSUME NEW r \in Passes
               PROVE  /\ pass'[r].stage # "idle" => pass'[r].at > 0
                      /\ pass'[r].upto <= Len(feed)
                      /\ pass'[r].stage \in {"reading", "delivering"} => DeliveredUpTo(pass[r].at - 1)'
                      /\ pass'[r].at <= Len(feed) + 1
                      /\ pass'[r].stage = "acking" => pass'[r].at <= Len(feed) /\ DeliveredUpTo(pass[r].at)'
    BY DEF PassesAreInOrder
  <2>1. CASE r = p
    BY <1>3, <2>1 DEF DeliveredUpTo
  <2>2. CASE r # p
    <3>1. /\ pass[r].stage # "idle" => pass[r].at > 0
          /\ pass[r].upto <= Len(feed)
          /\ pass[r].stage \in {"reading", "delivering"} => DeliveredUpTo(pass[r].at - 1)
          /\ pass[r].at <= Len(feed) + 1
          /\ pass[r].stage = "acking" => pass[r].at <= Len(feed) /\ DeliveredUpTo(pass[r].at)
      BY DEF SinkIInv, PassesAreInOrder
    <3>2. pass'[r] = pass[r]
      BY <1>3, <2>2
    <3> QED
      BY <3>1, <3>2 DEF DeliveredUpTo
  <2> QED
    BY <2>1, <2>2
<1> QED
  BY <1>2, <1>5 DEF SinkIInv

\* What the invariant says of one pass.
LEMMA PassFacts ==
    ASSUME SinkIInv, NEW p \in Passes
    PROVE  /\ pass[p] \in [stage : Stages, at : Nat, upto : Nat]
           /\ pass[p].stage # "idle" => pass[p].at > 0
           /\ pass[p].upto <= Len(feed)
           /\ pass[p].stage \in {"reading", "delivering"} => DeliveredUpTo(pass[p].at - 1)
           /\ pass[p].at <= Len(feed) + 1
           /\ pass[p].stage = "acking" => pass[p].at <= Len(feed) /\ DeliveredUpTo(pass[p].at)
           /\ feed \in Seq({"public", "private"}) /\ Len(feed) \in Nat
           /\ offset \in Nat /\ offset <= Len(feed)
           /\ pass \in [Passes -> [stage : Stages, at : Nat, upto : Nat]]
  BY DEF SinkIInv, SinkTyped, PassesAreInOrder

\* A page ends at a position of the feed.
LEMMA PageEnd ==
    ASSUME SinkIInv, NEW after \in Nat
    PROVE  pageEnd(after) \in Nat /\ pageEnd(after) <= Len(feed)
  BY BatchAssumption DEF SinkIInv, SinkTyped, pageEnd

\* A pass that reads the cursor starts behind what was delivered.
LEMMA ReadOffsetIInv ==
    ASSUME SinkIInv, NEW p \in Passes, ReadOffset(p)
    PROVE  SinkIInv'
<1>1. PICK q : q = [stage |-> "reading", at |-> offset + 1, upto |-> offset]
  BY Zenon
<1>2. /\ pass' = [pass EXCEPT ![p] = q] /\ feed' = feed /\ offset' = offset /\ delivered' = delivered
  BY <1>1 DEF ReadOffset
<1>3. q \in [stage : Stages, at : Nat, upto : Nat] /\ q.at > 0 /\ q.upto <= Len(feed)
      /\ q.at <= Len(feed) + 1 /\ q.at - 1 = offset /\ q.stage = "reading"
      /\ offset \in Nat /\ offset <= Len(feed)
  BY <1>1, PassFacts DEF Stages
<1>4. CursorIsBehindDelivery' /\ DeliveredUpTo(q.at - 1)'
  BY <1>2, <1>3 DEF SinkIInv, CursorIsBehindDelivery, DeliveredUpTo
<1> QED
  BY Zenon, <1>2, <1>3, <1>4, OnePass

\* Reading a page preserves the invariant.
LEMMA ReadAllIInv ==
    ASSUME SinkIInv, NEW p \in Passes, ReadAll(p)
    PROVE  SinkIInv'
<1>1. /\ feed' = feed /\ offset' = offset /\ delivered' = delivered /\ pass[p].stage = "reading"
  BY DEF ReadAll
<1>2. pass[p].at \in Nat /\ pass[p].at > 0 /\ pass[p].at <= Len(feed) + 1
      /\ DeliveredUpTo(pass[p].at - 1) /\ offset \in Nat /\ offset <= Len(feed)
  BY <1>1, PassFacts
<1>3. PICK e : e = pageEnd(pass[p].at - 1)
  OBVIOUS
<1>4. e \in Nat /\ e <= Len(feed)
  <2>1. PICK a \in Nat : a = pass[p].at - 1
    BY <1>2
  <2> QED
    BY <1>3, <2>1, PageEnd
<1>5. PICK q : q = [pass[p] EXCEPT !.stage = "delivering", !.upto = e]
  OBVIOUS
<1>6. pass' = [pass EXCEPT ![p] = q]
  BY Zenon, <1>3, <1>5, PassFacts DEF ReadAll
<1>7. pass[p] \in [stage : Stages, at : Nat, upto : Nat]
  BY PassFacts
<1>8. /\ q \in [stage : Stages, at : Nat, upto : Nat] /\ q.at = pass[p].at
      /\ q.upto = e /\ q.stage = "delivering"
  BY Zenon, <1>4, <1>5, <1>7 DEF Stages
<1>9. CursorIsBehindDelivery' /\ DeliveredUpTo(q.at - 1)'
  BY <1>1, <1>2, <1>8 DEF SinkIInv, CursorIsBehindDelivery, DeliveredUpTo
<1> QED
  BY Zenon, <1>1, <1>2, <1>4, <1>6, <1>8, <1>9, OnePass

\* Starting a replay preserves the invariant.
LEMMA ReadReplayIInv ==
    ASSUME SinkIInv, NEW p \in Passes, NEW after \in 0..Len(feed), ReadReplay(p, after)
    PROVE  SinkIInv'
<1>1. PICK q : q = [stage |-> "replaying", at |-> after + 1, upto |-> pageEnd(after)]
  BY Zenon
<1>2. /\ pass' = [pass EXCEPT ![p] = q] /\ feed' = feed /\ offset' = offset /\ delivered' = delivered
  BY <1>1 DEF ReadReplay
<1>3. after \in Nat /\ offset \in Nat /\ offset <= Len(feed)
  BY PassFacts
<1>4. pageEnd(after) \in Nat /\ pageEnd(after) <= Len(feed)
  BY <1>3, PageEnd
<1>5. q \in [stage : Stages, at : Nat, upto : Nat] /\ q.at > 0 /\ q.upto <= Len(feed)
      /\ q.stage = "replaying" /\ q.at <= Len(feed) + 1
  BY <1>1, <1>3, <1>4 DEF Stages
<1>6. CursorIsBehindDelivery'
  BY <1>2 DEF SinkIInv, CursorIsBehindDelivery
<1> QED
  BY Zenon, <1>2, <1>3, <1>5, <1>6, OnePass

\* Delivering the next event of a page preserves the invariant.
LEMMA DeliverIInv ==
    ASSUME SinkIInv, NEW p \in Passes, Deliver(p)
    PROVE  SinkIInv'
<1>1. /\ feed' = feed /\ offset' = offset /\ pass[p].stage \in {"delivering", "replaying"}
      /\ pass[p].at <= pass[p].upto
      /\ delivered' = IF feed[pass[p].at] = "private" THEN delivered ELSE delivered \cup {pass[p].at}
  BY DEF Deliver
<1>2. /\ pass[p] \in [stage : Stages, at : Nat, upto : Nat] /\ pass[p].at > 0
      /\ pass[p].at \in Nat /\ pass[p].upto \in Nat
      /\ pass[p].upto <= Len(feed) /\ Len(feed) \in Nat /\ offset \in Nat /\ offset <= Len(feed)
      /\ pass[p].stage = "delivering" => DeliveredUpTo(pass[p].at - 1)
  BY <1>1, PassFacts
<1>3. PICK q : q = IF pass[p].stage = "delivering"
                   THEN [pass[p] EXCEPT !.stage = "acking"] ELSE [pass[p] EXCEPT !.at = @ + 1]
  BY Zenon
<1>4. pass' = [pass EXCEPT ![p] = q]
  BY Zenon, <1>3, PassFacts DEF Deliver
<1>5. /\ q \in [stage : Stages, at : Nat, upto : Nat] /\ q.at > 0 /\ q.upto <= Len(feed)
      /\ q.stage \in {"acking", "replaying"}
      /\ q.stage = "acking" => q.at = pass[p].at /\ pass[p].stage = "delivering"
  BY <1>1, <1>2, <1>3 DEF Stages
<1>6. delivered \subseteq delivered'
  BY <1>1
<1>7. CursorIsBehindDelivery'
  BY <1>1, <1>6 DEF SinkIInv, CursorIsBehindDelivery
<1>8. q.stage = "acking" => q.at <= Len(feed) /\ DeliveredUpTo(q.at)'
  <2> SUFFICES ASSUME q.stage = "acking" PROVE q.at <= Len(feed) /\ DeliveredUpTo(q.at)'
    OBVIOUS
  <2>1. q.at = pass[p].at /\ DeliveredUpTo(q.at - 1) /\ q.at \in Nat /\ q.at <= Len(feed)
    BY <1>1, <1>2, <1>5
  <2>2. \A i \in 1..q.at : i \in 1..(q.at - 1) \/ i = q.at
    BY <2>1
  <2>3. feed[q.at] = "public" => q.at \in delivered'
    BY <1>1, <2>1
  <2>4. \A i \in 1..q.at : feed[i] = "public" => i \in delivered'
    BY <1>6, <2>1, <2>2, <2>3 DEF DeliveredUpTo
  <2> QED
    BY <1>1, <2>1, <2>4 DEF DeliveredUpTo
<1>9. q.at <= Len(feed) + 1
  BY <1>1, <1>2, <1>3
<1> QED
  BY Zenon, <1>1, <1>2, <1>4, <1>5, <1>6, <1>7, <1>8, <1>9, OnePass

\* Moving the cursor to what a pass delivered preserves the invariant.
LEMMA AckIInv ==
    ASSUME SinkIInv, NEW p \in Passes, Ack(p)
    PROVE  SinkIInv'
<1>1. /\ feed' = feed /\ delivered' = delivered /\ pass[p].stage = "acking"
      /\ offset' = IF pass[p].at > offset THEN pass[p].at ELSE offset
  BY DEF Ack, acknowledged
<1>2. /\ pass[p] \in [stage : Stages, at : Nat, upto : Nat] /\ pass[p].at \in Nat
      /\ pass[p].upto <= Len(feed) /\ Len(feed) \in Nat /\ offset \in Nat /\ offset <= Len(feed)
      /\ pass[p].at <= Len(feed) /\ DeliveredUpTo(pass[p].at)
  BY <1>1, PassFacts
<1>3. PICK q : q = [pass[p] EXCEPT !.stage = "delivering", !.at = @ + 1]
  OBVIOUS
<1>4. pass' = [pass EXCEPT ![p] = q]
  BY <1>3, PassFacts DEF Ack
<1>5. q.at = pass[p].at + 1 /\ q.upto = pass[p].upto /\ q.stage = "delivering"
  BY <1>2, <1>3
<1>6. q \in [stage : Stages, at : Nat, upto : Nat]
  <2>1. "delivering" \in Stages /\ pass[p].at + 1 \in Nat
    BY <1>2 DEF Stages
  <2> QED
    BY Zenon, <1>2, <1>3, <2>1
<1>7. q.at - 1 = pass[p].at /\ q.at > 0 /\ q.at <= Len(feed) + 1
  BY <1>2, <1>5
<1>8. offset' \in Nat /\ offset' <= Len(feed)
  BY <1>1, <1>2
<1>9. CursorIsBehindDelivery'
  BY <1>1, <1>2 DEF SinkIInv, CursorIsBehindDelivery, DeliveredUpTo
<1>10. DeliveredUpTo(q.at - 1)'
  BY <1>1, <1>2, <1>7 DEF DeliveredUpTo
<1> QED
  BY Zenon, <1>1, <1>2, <1>4, <1>5, <1>6, <1>7, <1>8, <1>9, <1>10, OnePass

\* A pass that ends or fails preserves the invariant.
LEMMA EndIInv ==
    ASSUME SinkIInv, NEW p \in Passes, End(p)
    PROVE  SinkIInv'
<1>1. PICK q : q = NoPass
  OBVIOUS
<1>2. /\ pass' = [pass EXCEPT ![p] = q] /\ feed' = feed /\ offset' = offset /\ delivered' = delivered
  BY <1>1 DEF End
<1>3. offset \in Nat /\ offset <= Len(feed) /\ Len(feed) \in Nat
  BY PassFacts
<1>4. q \in [stage : Stages, at : Nat, upto : Nat] /\ q.stage = "idle" /\ q.upto <= Len(feed)
      /\ q.at <= Len(feed) + 1
  BY <1>1, <1>3 DEF NoPass, Stages
<1>5. CursorIsBehindDelivery'
  BY <1>2 DEF SinkIInv, CursorIsBehindDelivery
<1> QED
  BY Zenon, <1>2, <1>3, <1>4, <1>5, OnePass

\* Every step of the sink preserves its invariant.
LEMMA SinkNextIInv == SinkIInv /\ [SinkNext]_sinkVars => SinkIInv'
<1> SUFFICES ASSUME SinkIInv, [SinkNext]_sinkVars PROVE SinkIInv'
  OBVIOUS
<1>1. ASSUME NEW visibility \in {"public", "private"}, AppendEvent(visibility) PROVE SinkIInv'
  BY <1>1, AppendEventIInv
<1>2. ASSUME NEW p \in Passes, ReadOffset(p) PROVE SinkIInv'
  BY <1>2, ReadOffsetIInv
<1>3. ASSUME NEW p \in Passes, ReadAll(p) PROVE SinkIInv'
  BY <1>3, ReadAllIInv
<1>4. ASSUME NEW p \in Passes, Deliver(p) PROVE SinkIInv'
  BY <1>4, DeliverIInv
<1>5. ASSUME NEW p \in Passes, Ack(p) PROVE SinkIInv'
  BY <1>5, AckIInv
<1>6. ASSUME NEW p \in Passes, End(p) PROVE SinkIInv'
  BY <1>6, EndIInv
<1>7. ASSUME NEW p \in Passes, NEW after \in 0..Len(feed), ReadReplay(p, after) PROVE SinkIInv'
  BY <1>7, ReadReplayIInv
<1>8. CASE UNCHANGED sinkVars
  BY <1>8 DEF sinkVars, SinkIInv, SinkTyped, PassesAreInOrder, DeliveredUpTo, CursorIsBehindDelivery
<1> QED
  BY <1>1, <1>2, <1>3, <1>4, <1>5, <1>6, <1>7, <1>8 DEF SinkNext

\* The invariant holds in every state the sink reaches.
LEMMA SinkInvariance == SinkSpec => []SinkIInv
  BY SinkInitIInv, SinkNextIInv, PTL DEF SinkSpec

(***************************************************************************)
(* At-least-once delivery: the cursor is never ahead of the sink.          *)
(***************************************************************************)
THEOREM CursorStaysBehind == SinkSpec => []CursorIsBehindDelivery
<1>1. SinkIInv => CursorIsBehindDelivery
  BY DEF SinkIInv
<1> QED
  BY <1>1, SinkInvariance, PTL

(***************************************************************************)
(* The cursor never moves back, whichever pass acknowledges last.          *)
(***************************************************************************)
THEOREM CursorIsMonotone == SinkSpec => CursorNeverMovesBack
<1>1. SinkIInv /\ [SinkNext]_sinkVars => [offset' >= offset]_sinkVars
  <2> SUFFICES ASSUME SinkIInv, SinkNext PROVE offset' >= offset
    BY DEF sinkVars
  <2>1. offset \in Nat
    BY DEF SinkIInv, SinkTyped
  <2>2. ASSUME NEW p \in Passes, Ack(p) PROVE offset' >= offset
    <3>1. pass[p].at \in Nat
      BY PassFacts
    <3> QED
      BY <2>1, <2>2, <3>1 DEF Ack, acknowledged
  <2>3. (\E p \in Passes : Ack(p)) \/ offset' = offset
    BY Zenon DEF SinkNext, AppendEvent, ReadOffset, ReadAll, Deliver, End, ReadReplay
  <2> QED
    BY <2>1, <2>2, <2>3
<1> QED
  BY <1>1, SinkInvariance, PTL DEF SinkSpec, CursorNeverMovesBack

DeliveredArePublic == \A i \in delivered : i \in 1..Len(feed) /\ feed[i] = "public"

\* Positions are never reused, so what was public when it was delivered still is.
LEMMA DeliveredPublic == SinkSpec => []DeliveredArePublic
<1>1. SinkInit => DeliveredArePublic
  BY DEF SinkInit, DeliveredArePublic
<1>2. SinkIInv /\ DeliveredArePublic /\ [SinkNext]_sinkVars => DeliveredArePublic'
  <2> SUFFICES ASSUME SinkIInv, DeliveredArePublic, [SinkNext]_sinkVars PROVE DeliveredArePublic'
    OBVIOUS
  <2>1. ASSUME NEW visibility \in {"public", "private"}, AppendEvent(visibility)
        PROVE  DeliveredArePublic'
    <3>1. feed \in Seq({"public", "private"}) /\ feed' = Append(feed, visibility) /\ delivered' = delivered
      BY <2>1 DEF AppendEvent, SinkIInv, SinkTyped
    <3>2. Len(feed') = Len(feed) + 1 /\ Len(feed) \in Nat /\ \A i \in 1..Len(feed) : feed'[i] = feed[i]
      BY <3>1
    <3> QED
      BY <3>1, <3>2 DEF DeliveredArePublic
  <2>2. ASSUME NEW p \in Passes, Deliver(p) PROVE DeliveredArePublic'
    <3>1. /\ pass[p].at \in Nat /\ pass[p].upto \in Nat /\ pass[p].upto <= Len(feed)
          /\ pass[p].at > 0 /\ pass[p].at <= pass[p].upto /\ Len(feed) \in Nat
      BY <2>2, PassFacts DEF Deliver
    <3>2. feed[pass[p].at] \in {"public", "private"} /\ pass[p].at \in 1..Len(feed)
      BY <3>1, PassFacts
    <3> QED
      BY <2>2, <3>2 DEF Deliver, DeliveredArePublic
  <2>3. CASE feed' = feed /\ delivered' = delivered
    BY <2>3 DEF DeliveredArePublic
  <2>4. \/ \E visibility \in {"public", "private"} : AppendEvent(visibility)
        \/ \E p \in Passes : Deliver(p)
        \/ feed' = feed /\ delivered' = delivered
    BY Zenon DEF SinkNext, sinkVars, ReadOffset, ReadAll, Ack, End, ReadReplay
  <2> QED
    BY <2>1, <2>2, <2>3, <2>4
<1> QED
  BY <1>1, <1>2, SinkInvariance, PTL DEF SinkSpec

(***************************************************************************)
(* No private event is ever handed to the sink.                            *)
(***************************************************************************)
THEOREM PrivateNeverLeaves == SinkSpec => []PrivateStaysIn
<1>1. DeliveredArePublic => PrivateStaysIn
  BY DEF DeliveredArePublic, PrivateStaysIn
<1> QED
  BY <1>1, DeliveredPublic, PTL

(***************************************************************************)
(* The cursor, the deliveries and every pass stay inside the log.          *)
(***************************************************************************)
THEOREM SinkTypeCorrect == SinkSpec => []SinkTypeOK
<1>1. SinkIInv /\ DeliveredArePublic => SinkTypeOK
  <2> SUFFICES ASSUME SinkIInv, DeliveredArePublic PROVE SinkTypeOK
    OBVIOUS
  <2>1. feed \in Seq({"public", "private"}) /\ Len(feed) \in Nat /\ offset \in 0..Len(feed)
    BY DEF SinkIInv, SinkTyped
  <2>2. delivered \subseteq 1..Len(feed)
    BY DEF DeliveredArePublic
  <2>3. ASSUME NEW p \in Passes
        PROVE  pass[p] \in [stage : Stages, at : 0..(Len(feed) + 1), upto : 0..Len(feed)]
    <3>1. /\ pass[p] \in [stage : Stages, at : Nat, upto : Nat]
          /\ pass[p].at <= Len(feed) + 1 /\ pass[p].upto <= Len(feed)
      BY PassFacts
    <3>2. pass[p].at \in 0..(Len(feed) + 1) /\ pass[p].upto \in 0..Len(feed)
      BY <2>1, <3>1
    <3> QED
      BY <3>1, <3>2
  <2>4. pass \in [Passes -> [stage : Stages, at : 0..(Len(feed) + 1), upto : 0..Len(feed)]]
    BY <2>3, Zenon DEF SinkIInv, SinkTyped
  <2> QED
    BY <2>1, <2>2, <2>4 DEF SinkTypeOK, Stages
<1> QED
  BY <1>1, SinkInvariance, DeliveredPublic, PTL

-----------------------------------------------------------------------------
(***************************************************************************)
(* The console's feed.  Positions are numbers, so what is needed of them   *)
(* is that a set of them has a first and a last one.                       *)
(***************************************************************************)
Below == {p \in Nat \X Nat : p[1] < p[2]}

\* Every set of positions that is not empty has a first one.
LEMMA Least ==
    ASSUME NEW T \in SUBSET Nat, T # {}
    PROVE \E n \in T : \A m \in T : n <= m
<1>1. IsWellFoundedOn(Below, Nat)
  BY NatLessThanWellFounded DEF OpToRel, Below
<1>2. \E x \in T : \A y \in T : ~ (<<y, x>> \in Below)
  BY Zenon, <1>1, WFMin
<1>3. \A x, y \in Nat : y < x => <<y, x>> \in Below
  BY DEF Below
<1>4. PICK n \in T : \A m \in T : ~ (<<m, n>> \in Below)
  BY <1>2
<1>5. ASSUME NEW m \in T PROVE n <= m
  <2>1. m \in Nat /\ n \in Nat
    OBVIOUS
  <2>2. ~ m < n
    BY Zenon, <2>1, <1>3, <1>4
  <2> QED BY <2>1, <2>2
<1> QED BY <1>5

\* A set of naturals that is not empty holds its minimum.
LEMMA MinIsFirst ==
    ASSUME NEW T \in SUBSET Nat, T # {}
    PROVE  Min(T) \in T /\ \A m \in T : Min(T) <= m
<1>1. \E n \in T : \A m \in T : n <= m
  BY Least
<1> QED
  BY Zenon, <1>1 DEF Min

\* A set of positions of the log that is not empty has a last one.
LEMMA Greatest ==
    ASSUME NEW n \in Nat, NEW T \in SUBSET (1..n), T # {}
    PROVE  \E x \in T : \A y \in T : x >= y
<1> DEFINE D == {k \in Nat : n - k \in T}
<1>1. D # {}
  <2>1. PICK x \in T : TRUE
    BY Zenon
  <2>2. n - x \in Nat /\ n - (n - x) = x
    BY <2>1
  <2>3. n - x \in D
    BY <2>1, <2>2
  <2> QED
    BY Zenon, <2>3
<1>2. PICK k \in D : \A m \in D : k <= m
  <2>1. D \in SUBSET Nat
    OBVIOUS
  <2> HIDE DEF D
  <2> QED
    BY <1>1, <2>1, Least
<1>3. ASSUME NEW y \in T PROVE n - k >= y
  <2>1. y \in Nat /\ n - y \in Nat /\ n - (n - y) = y
    OBVIOUS
  <2>2. n - y \in D
    BY <2>1
  <2>3. k <= n - y /\ k \in Nat
    BY <1>2, <2>2
  <2> QED
    BY <2>1, <2>3
<1> QED
  BY <1>2, <1>3

(***************************************************************************)
(* The feed's positions.                                                   *)
(***************************************************************************)
\* s holds the positions of P, each once and in order.
Lists(s, P) ==
    /\ s \in Seq(Nat)
    /\ \A i, j \in 1..Len(s) : i < j => s[i] < s[j]
    /\ \A i \in 1..Len(s) : s[i] \in P
    /\ \A p \in P : \E i \in 1..Len(s) : s[i] = p

\* Appending a position greater than the listed ones lists it too.
LEMMA ListsAppend ==
    ASSUME NEW s, NEW P, Lists(s, P), NEW x \in Nat, \A p \in P : p < x
    PROVE  Lists(Append(s, x), P \cup {x})
<1> DEFINE t == Append(s, x)
<1>1. /\ s \in Seq(Nat) /\ t \in Seq(Nat) /\ Len(t) = Len(s) + 1 /\ Len(s) \in Nat
      /\ t[Len(s) + 1] = x /\ \A i \in 1..Len(s) : t[i] = s[i]
  BY DEF Lists
<1> HIDE DEF t
<1>2. ASSUME NEW i \in 1..Len(t), NEW j \in 1..Len(t), i < j PROVE t[i] < t[j]
  <2>1. i \in 1..Len(s)
    BY <1>1, <1>2
  <2>2. CASE j = Len(s) + 1
    <3>1. s[i] \in P
      BY Zenon, <2>1 DEF Lists
    <3> QED
      BY Zenon, <1>1, <2>1, <2>2, <3>1
  <2>3. CASE j \in 1..Len(s)
    BY <1>1, <1>2, <2>1, <2>3 DEF Lists
  <2> QED
    BY <1>1, <2>2, <2>3
<1>3. ASSUME NEW i \in 1..Len(t) PROVE t[i] \in P \cup {x}
  <2>1. CASE i = Len(s) + 1
    BY <1>1, <2>1
  <2>2. CASE i \in 1..Len(s)
    <3>1. s[i] \in P
      BY Zenon, <2>2 DEF Lists
    <3> QED
      BY Zenon, <1>1, <2>2, <3>1
  <2> QED
    BY <1>1, <2>1, <2>2
<1>4. ASSUME NEW p \in P \cup {x} PROVE \E i \in 1..Len(t) : t[i] = p
  <2>1. CASE p = x
    <3>1. Len(s) + 1 \in 1..Len(t)
      BY <1>1
    <3> QED
      BY <1>1, <2>1, <3>1
  <2>2. CASE p \in P
    <3>1. PICK i \in 1..Len(s) : s[i] = p
      BY <2>2 DEF Lists
    <3>2. i \in 1..Len(t)
      BY <1>1, <3>1
    <3> QED
      BY <1>1, <3>1, <3>2
  <2> QED
    BY <2>1, <2>2
<1>5. Lists(t, P \cup {x})
  BY <1>1, <1>2, <1>3, <1>4 DEF Lists
<1> QED
  BY <1>5 DEF t

\* The head of a list is its first position; the tail lists the others.
LEMMA ListsTail ==
    ASSUME NEW s, NEW P, Lists(s, P), s # <<>>
    PROVE  /\ Head(s) \in P /\ Head(s) \in Nat /\ \A p \in P : Head(s) <= p
           /\ Lists(Tail(s), P \ {Head(s)})
<1> DEFINE t == Tail(s)
<1>1. /\ s \in Seq(Nat) /\ Len(s) \in Nat /\ Len(s) > 0 /\ Head(s) = s[1] /\ s[1] \in Nat
      /\ \A i \in 1..Len(s) : s[i] \in Nat
  BY DEF Lists
<1>2. t \in Seq(Nat) /\ Len(t) = Len(s) - 1 /\ \A i \in 1..Len(t) : t[i] = s[i + 1]
  BY <1>1
<1> HIDE DEF t
<1>3. \A i \in 2..Len(s) : s[1] < s[i]
  BY <1>1 DEF Lists
<1>4. s[1] \in P
  BY <1>1 DEF Lists
<1>5. ASSUME NEW p \in P PROVE Head(s) <= p
  <2>1. PICK i \in 1..Len(s) : s[i] = p
    BY DEF Lists
  <2> QED
    BY <1>1, <1>3, <2>1
<1>6. ASSUME NEW i \in 1..Len(t), NEW j \in 1..Len(t), i < j PROVE t[i] < t[j]
  <2>1. i + 1 \in 1..Len(s) /\ j + 1 \in 1..Len(s) /\ i + 1 < j + 1
    BY <1>1, <1>2, <1>6
  <2> QED
    BY Zenon, <1>2, <2>1 DEF Lists
<1>7. ASSUME NEW i \in 1..Len(t) PROVE t[i] \in P \ {Head(s)}
  <2>1. i + 1 \in 2..Len(s) /\ i + 1 \in 1..Len(s)
    BY <1>1, <1>2
  <2>2. s[1] < s[i + 1] /\ s[i + 1] \in P /\ s[i + 1] \in Nat
    BY <1>1, <1>3, <2>1 DEF Lists
  <2> QED
    BY <1>1, <1>2, <2>2
<1>8. ASSUME NEW p \in P \ {Head(s)} PROVE \E i \in 1..Len(t) : t[i] = p
  <2>1. PICK i \in 1..Len(s) : s[i] = p
    BY DEF Lists
  <2>2. i # 1
    BY <1>1, <2>1
  <2>3. i - 1 \in 1..Len(t) /\ (i - 1) + 1 = i
    BY <1>1, <1>2, <2>2
  <2> QED
    BY Zenon, <1>2, <2>1, <2>3
<1>9. Lists(t, P \ {Head(s)})
  BY <1>2, <1>6, <1>7, <1>8 DEF Lists
<1> QED
  BY <1>1, <1>4, <1>5, <1>9 DEF t

\* The public positions after lo and up to hi.
Public == PublicThrough(Len(entries))
Between(lo, hi) == {i \in Public : lo < i /\ i <= hi}

\* A page is the first public positions after a cursor, and none between is left out.
Pages(page, after) ==
    /\ page \subseteq Public
    /\ \A i \in page : after < i
    /\ \A i \in page : \A j \in Public : after < j /\ j < i => j \in page

Subscriptions ==
    [stage : {"none", "parked", "draining", "sending"}, after : Nat, page : SUBSET Nat,
     wake : BOOLEAN, signals : Nat, ch : Seq(Nat)]

ConsoleTyped ==
    /\ entries \in Seq({"public", "private"})
    /\ waking \in Nat
    /\ conn \in [stage : {"off", "replaying", "live"}, cursor : Nat, head : Nat, page : SUBSET Nat]
    /\ sub \in Subscriptions

\* While a connection replays, its cursor is what the console saw last.
Replaying ==
    conn.stage = "replaying" =>
        /\ conn.cursor = lastEventID
        /\ conn.cursor <= conn.head /\ conn.head <= Len(entries)
        /\ Pages(conn.page, conn.cursor)
        /\ sub.stage = "none"

\* While it is live, the channel holds what the subscription read and the console did
\* not see.
Live ==
    sub.stage # "none" =>
        /\ conn.stage = "live"
        /\ lastEventID <= sub.after /\ sub.after <= Len(entries)
        /\ Lists(sub.ch, Between(lastEventID, sub.after))
        /\ sub.stage = "sending" => sub.page # {} /\ Pages(sub.page, sub.after)

ConsoleIInv ==
    /\ ConsoleTyped
    /\ Lists(seen, Between(0, lastEventID))
    /\ lastEventID \in Nat /\ lastEventID <= Len(entries)
    /\ Replaying
    /\ Live
    /\ sub.stage = "none" => sub.ch = <<>>
    /\ ParkedIsUpToDate

\* ReadAll returns such a page.
LEMMA ReadIsPage ==
    ASSUME ConsoleTyped, NEW after \in Nat
    PROVE  Pages(ReadPublic(after), after) /\ ReadPublic(after) \in SUBSET Nat
<1> DEFINE later == {i \in Public : i > after}
           before(i) == {j \in later : j < i}
<1>1. Len(entries) \in Nat /\ Public \subseteq 1..Len(entries)
  BY DEF ConsoleTyped, Subscriptions, Public, PublicThrough
<1>2. ReadPublic(after) = {i \in later : Cardinality(before(i)) < PageSize}
  BY DEF ReadPublic, Public
<1>3. IsFiniteSet(1..Len(entries))
  BY <1>1, FS_Interval
<1>4. ASSUME NEW i \in ReadPublic(after), NEW j \in Public, after < j, j < i
      PROVE  j \in ReadPublic(after)
  <2>1. i \in Nat /\ j \in Nat /\ i \in later /\ j \in later
    <3>1. i \in later
      BY <1>2
    <3> QED
      BY <1>1, <1>4, <3>1
  <2>2. before(j) \subseteq before(i) /\ before(i) \subseteq 1..Len(entries)
    <3>1. before(i) \subseteq 1..Len(entries)
      BY Zenon, <1>1
    <3>2. ASSUME NEW k \in before(j) PROVE k < i
      <4>1. k \in Nat /\ k < j
        BY <1>1
      <4> QED
        BY <4>1, <2>1, <1>4
    <3> QED
      BY <3>1, <3>2
  <2> HIDE DEF later, before
  <2>3. IsFiniteSet(before(i))
    BY <2>2, <1>3, FS_Subset
  <2>4. IsFiniteSet(before(j)) /\ Cardinality(before(j)) <= Cardinality(before(i))
    BY <2>2, <2>3, FS_Subset
  <2>5. Cardinality(before(i)) \in Nat /\ Cardinality(before(j)) \in Nat
    BY <2>3, <2>4, FS_CardinalityType
  <2>6. Cardinality(before(i)) < PageSize
    BY <1>2
  <2>7. Cardinality(before(j)) < PageSize
    BY <2>4, <2>5, <2>6, PageAssumption
  <2> QED
    BY <2>1, <2>7, <1>2
<1>5. ReadPublic(after) \subseteq later
  BY <1>2
<1>6. \A i \in later : i \in Public /\ i \in Nat /\ after < i
  BY <1>1
<1> HIDE DEF later
<1> QED
  BY <1>4, <1>5, <1>6 DEF Pages

\* The first of a page is next after the cursor: no public position lies between.
LEMMA FirstOfPage ==
    ASSUME ConsoleTyped, NEW after \in Nat, NEW page, Pages(page, after), page # {},
           NEW lo \in Nat, lo <= after
    PROVE  LET x == Min(page) IN
           /\ x \in page /\ x \in Nat /\ x \in Public /\ after < x /\ x <= Len(entries)
           /\ Between(lo, x) = Between(lo, after) \cup {x}
           /\ Pages(page \ {x}, x)
<1>1. Len(entries) \in Nat /\ Public \subseteq 1..Len(entries)
  BY DEF ConsoleTyped, Subscriptions, Public, PublicThrough
<1>2. page \in SUBSET Nat
  BY <1>1 DEF Pages
<1>3. PICK x : x = Min(page)
  BY Zenon
<1>4. x \in page /\ \A m \in page : x <= m
  BY <1>2, <1>3, MinIsFirst
<1>5. x \in Public /\ x \in Nat /\ after < x /\ x <= Len(entries)
  BY <1>1, <1>4 DEF Pages
<1>6. \A j \in Public : j \in Nat
  BY <1>1
<1>7. \A j \in Public : after < j /\ j < x => FALSE
  BY <1>4, <1>5, <1>6, <1>2 DEF Pages
<1>8. Between(lo, x) = Between(lo, after) \cup {x}
  <2>1. ASSUME NEW j \in Between(lo, x) PROVE j \in Between(lo, after) \cup {x}
    BY <1>5, <1>6, <1>7 DEF Between
  <2>2. ASSUME NEW j \in Between(lo, after) \cup {x} PROVE j \in Between(lo, x)
    BY <1>5, <1>6 DEF Between
  <2> QED
    BY <2>1, <2>2
<1>9. Pages(page \ {x}, x)
  <2>1. ASSUME NEW i \in page \ {x} PROVE x < i
    BY <1>4, <1>5, <1>2
  <2>2. ASSUME NEW i \in page \ {x}, NEW j \in Public, x < j, j < i PROVE j \in page \ {x}
    <3>1. after < j /\ j # x
      BY <2>2, <1>5, <1>6
    <3> QED
      BY <2>2, <3>1 DEF Pages
  <2>3. page \ {x} \subseteq Public
    BY DEF Pages
  <2> QED
    BY <2>1, <2>2, <2>3 DEF Pages
<1> QED
  BY <1>3, <1>4, <1>5, <1>8, <1>9

\* A console that has not connected satisfies the invariant.
LEMMA ConsoleInitIInv == ConsoleInit => ConsoleIInv
<1> SUFFICES ASSUME ConsoleInit PROVE ConsoleIInv
  OBVIOUS
<1>1. lastEventID = 0 /\ Len(entries) = 0 /\ seen = <<>>
  BY DEF ConsoleInit, lastEventID
<1>2. ConsoleTyped
  BY DEF ConsoleInit, ConsoleTyped, Subscriptions, Off, Unsubscribed
<1>3. Between(0, 0) = {}
  BY <1>1 DEF Between, Public, PublicThrough
<1>4. Lists(<<>>, {})
  BY DEF Lists
<1>5. Replaying /\ Live /\ (sub.stage = "none" => sub.ch = <<>>) /\ ParkedIsUpToDate
  BY DEF ConsoleInit, Replaying, Live, ParkedIsUpToDate, Off, Unsubscribed
<1>6. Lists(seen, Between(0, lastEventID))
  BY Zenon, <1>1, <1>3, <1>4
<1> QED
  BY <1>1, <1>2, <1>5, <1>6 DEF ConsoleIInv

\* An append adds a position past every other, and a wake-up is owed for it.
LEMMA AppendEntryIInv ==
    ASSUME ConsoleIInv, NEW visibility \in {"public", "private"}, AppendEntry(visibility)
    PROVE  ConsoleIInv'
<1>1. /\ entries \in Seq({"public", "private"}) /\ entries' = Append(entries, visibility)
      /\ waking' = waking + 1 /\ waking \in Nat /\ Len(entries) \in Nat
      /\ seen' = seen /\ conn' = conn /\ sub' = sub
  BY DEF ConsoleIInv, AppendEntry, ConsoleTyped
<1>2. /\ Len(entries') = Len(entries) + 1
      /\ \A i \in 1..Len(entries) : entries'[i] = entries[i]
      /\ entries' \in Seq({"public", "private"})
  BY <1>1
<1>3. ConsoleTyped'
  BY <1>1, <1>2 DEF ConsoleIInv, ConsoleTyped, Subscriptions
<1>4. lastEventID' = lastEventID
  BY <1>1 DEF lastEventID
<1>5. /\ Public \subseteq Public' /\ Public \subseteq 1..Len(entries)
      /\ \A i \in Public' : i \in Nat /\ (i <= Len(entries) => i \in Public)
  BY <1>1, <1>2 DEF Public, PublicThrough
<1>6. ASSUME NEW lo \in Nat, NEW hi \in Nat, hi <= Len(entries)
      PROVE  {i \in Public' : lo < i /\ i <= hi} = Between(lo, hi)
  <2>1. \A i \in Public' : i <= hi => i \in Public
    BY <1>1, <1>5, <1>6
  <2>2. \A i \in Public : i \in Public'
    BY <1>5
  <2> QED
    BY Zenon, <2>1, <2>2 DEF Between
<1>7. ASSUME NEW page, NEW after \in Nat, Pages(page, after)
      PROVE  /\ page \subseteq Public'
             /\ \A i \in page : after < i
             /\ \A i \in page : \A j \in Public' : after < j /\ j < i => j \in page
  <2>1. ASSUME NEW i \in page, NEW j \in Public', after < j, j < i PROVE j \in page
    <3>1. j \in Nat /\ j <= Len(entries)
      BY <1>1, <1>5, <1>7, <2>1 DEF Pages
    <3> QED
      BY <1>5, <1>7, <2>1, <3>1 DEF Pages
  <2> QED
    BY <1>5, <1>7, <2>1 DEF Pages
<1>8. Lists(seen, Between(0, lastEventID))'
  <2>1. Between(0, lastEventID)' = Between(0, lastEventID)
    BY <1>4, <1>6 DEF ConsoleIInv, Between
  <2> QED
    BY Zenon, <1>1, <2>1 DEF ConsoleIInv, Lists
<1>9. Replaying'
  <2>1. conn.cursor \in Nat /\ conn.head \in Nat
    BY DEF ConsoleIInv, ConsoleTyped, Subscriptions
  <2>2. CASE conn.stage = "replaying"
    <3>1. Pages(conn.page, conn.cursor)'
      BY <1>1, <1>7, <2>1, <2>2 DEF ConsoleIInv, Replaying, Pages
    <3> QED
      BY <1>1, <1>2, <1>4, <2>1, <2>2, <3>1 DEF ConsoleIInv, Replaying
  <2> QED
    BY <1>1, <2>2 DEF Replaying
<1>10. Live'
  <2>1. sub.after \in Nat
    BY DEF ConsoleIInv, ConsoleTyped, Subscriptions
  <2>2. CASE sub.stage # "none"
    <3>1. sub.stage = "sending" => Pages(sub.page, sub.after)'
      BY <1>1, <1>7, <2>1, <2>2 DEF ConsoleIInv, Live, Pages
    <3>2. Between(lastEventID, sub.after)' = Between(lastEventID, sub.after)
      BY <1>1, <1>4, <1>6, <2>1, <2>2 DEF ConsoleIInv, Live, Between
    <3>3. Lists(sub.ch, Between(lastEventID, sub.after))'
      BY <1>1, <2>2, <3>2 DEF ConsoleIInv, Live, Lists
    <3> QED
      BY <1>1, <1>2, <1>4, <2>1, <2>2, <3>1, <3>3 DEF ConsoleIInv, Live
  <2> QED
    BY <1>1, <2>2 DEF Live
<1>11. ParkedIsUpToDate'
  BY <1>1 DEF ParkedIsUpToDate
<1> QED
  BY <1>1, <1>2, <1>3, <1>4, <1>8, <1>9, <1>10, <1>11 DEF ConsoleIInv

\* What stays when a step leaves the log alone.
LEMMA LogStays ==
    ASSUME entries' = entries
    PROVE  /\ Public' = Public
           /\ \A lo, hi : Between(lo, hi)' = Between(lo, hi)
           /\ \A page, after : Pages(page, after)' = Pages(page, after)
           /\ \A after : ReadPublic(after)' = ReadPublic(after)
BY DEF Public, PublicThrough, Between, Pages, ReadPublic

\* A step of the subscription that leaves its place in the log and its channel alone.
LEMMA SubIInv ==
    ASSUME ConsoleIInv, entries' = entries, seen' = seen, conn' = conn, ConsoleTyped',
           sub'.after = sub.after, sub'.ch = sub.ch,
           (sub'.stage = "none") = (sub.stage = "none"),
           sub'.stage = "sending" => sub'.page # {} /\ Pages(sub'.page, sub'.after),
           ParkedIsUpToDate'
    PROVE  ConsoleIInv'
<1>1. lastEventID' = lastEventID
  BY DEF lastEventID
<1>2. Public' = Public
  BY LogStays
<1>3. Lists(seen, Between(0, lastEventID))'
  BY <1>1, <1>2 DEF ConsoleIInv, Lists, Between
<1>4. Replaying'
  BY <1>1, <1>2 DEF ConsoleIInv, Replaying, Pages
<1>5. Live'
  <2>1. CASE sub.stage # "none"
    <3>1. Lists(sub.ch, Between(lastEventID, sub.after))'
      BY <1>1, <1>2, <2>1 DEF ConsoleIInv, Live, Lists, Between
    <3>2. sub'.stage = "sending" => Pages(sub.page, sub.after)'
      BY <1>2 DEF Pages
    <3> QED
      BY <1>1, <2>1, <3>1, <3>2 DEF ConsoleIInv, Live
  <2> QED
    BY <2>1 DEF Live
<1> QED
  BY <1>1, <1>3, <1>4, <1>5 DEF ConsoleIInv

\* Waking the subscriptions after a commit preserves the invariant.
LEMMA wakeSubscribersIInv ==
    ASSUME ConsoleIInv, wakeSubscribers PROVE ConsoleIInv'
<1>1. ConsoleTyped
  BY DEF ConsoleIInv
<1>2. entries' = entries /\ seen' = seen /\ conn' = conn /\ waking' \in Nat
  BY <1>1 DEF wakeSubscribers, ConsoleTyped
<1>3. CASE sub.stage = "none" /\ sub' = sub
  <2>1. ConsoleTyped'
    BY <1>1, <1>2, <1>3 DEF ConsoleTyped, Subscriptions
  <2> QED
    BY <1>2, <1>3, <2>1, SubIInv DEF ParkedIsUpToDate
<1>4. CASE sub.stage # "none" /\ sub' = [sub EXCEPT !.wake = TRUE]
  <2>1. /\ sub'.after = sub.after /\ sub'.ch = sub.ch /\ sub'.stage = sub.stage
        /\ sub'.page = sub.page /\ sub'.wake = TRUE
    BY <1>1, <1>4 DEF ConsoleTyped, Subscriptions
  <2>2. ConsoleTyped'
    BY Zenon, <1>1, <1>2, <1>4 DEF ConsoleTyped, Subscriptions
  <2>3. sub.stage = "sending" => sub.page # {} /\ Pages(sub.page, sub.after)
    BY DEF ConsoleIInv, Live
  <2>4. ParkedIsUpToDate'
    BY <2>1 DEF ParkedIsUpToDate
  <2> QED
    BY Zenon, <1>2, <2>1, <2>2, <2>3, <2>4, SubIInv
<1> QED
  BY <1>3, <1>4 DEF wakeSubscribers

\* A signal owed by Subscribe or a retry timer preserves the invariant.
LEMMA signalIInv ==
    ASSUME ConsoleIInv, signal PROVE ConsoleIInv'
<1>1. ConsoleTyped
  BY DEF ConsoleIInv
<1>2. /\ entries' = entries /\ seen' = seen /\ conn' = conn
      /\ sub' = [sub EXCEPT !.signals = @ - 1, !.wake = TRUE]
  BY DEF signal
<1>3. /\ sub'.after = sub.after /\ sub'.ch = sub.ch /\ sub'.stage = sub.stage
      /\ sub'.page = sub.page /\ sub'.wake = TRUE
  BY <1>1, <1>2 DEF ConsoleTyped, Subscriptions
<1>4. ConsoleTyped'
  <2>1. sub \in Subscriptions /\ sub.signals - 1 \in Nat
    BY <1>1 DEF ConsoleTyped, Subscriptions, signal
  <2>2. sub' \in Subscriptions
    BY Zenon, <1>2, <2>1 DEF Subscriptions
  <2> QED
    BY <1>1, <1>2, <2>2 DEF ConsoleTyped, signal
<1>5. sub.stage = "sending" => sub.page # {} /\ Pages(sub.page, sub.after)
  BY DEF ConsoleIInv, Live
<1>6. ParkedIsUpToDate'
  BY <1>3 DEF ParkedIsUpToDate
<1> QED
  BY Zenon, <1>2, <1>3, <1>4, <1>5, <1>6, SubIInv

\* A parked subscription that takes its signal preserves the invariant.
LEMMA WakeIInv ==
    ASSUME ConsoleIInv, Wake PROVE ConsoleIInv'
<1>1. ConsoleTyped
  BY DEF ConsoleIInv
<1>2. entries' = entries /\ seen' = seen /\ conn' = conn
  BY DEF Wake
<1>3. /\ sub'.after = sub.after /\ sub'.ch = sub.ch
      /\ sub'.stage = "draining" /\ sub.stage = "parked"
  BY <1>1 DEF ConsoleTyped, Subscriptions, Wake
<1>4. ConsoleTyped'
  BY Zenon, <1>1 DEF ConsoleTyped, Subscriptions, Wake
<1>5. ParkedIsUpToDate'
  BY <1>3 DEF ParkedIsUpToDate
<1> QED
  BY <1>2, <1>3, <1>4, <1>5, SubIInv

\* A subscription parks only when there is nothing more to read.
LEMMA ReadPageIInv ==
    ASSUME ConsoleIInv, ReadPage PROVE ConsoleIInv'
<1>1. ConsoleTyped /\ sub.after \in Nat
  BY DEF ConsoleIInv, ConsoleTyped, Subscriptions
<1>2. entries' = entries /\ seen' = seen /\ conn' = conn /\ waking' = waking /\ sub.stage = "draining"
  BY DEF ReadPage
<1>3. CASE ReadPublic(sub.after) = {} /\ sub' = [sub EXCEPT !.stage = "parked"]
  <2>1. sub'.after = sub.after /\ sub'.ch = sub.ch /\ sub'.stage = "parked"
    BY <1>1, <1>3 DEF ConsoleTyped, Subscriptions
  <2>2. ConsoleTyped'
    BY Zenon, <1>1, <1>2, <1>3 DEF ConsoleTyped, Subscriptions
  <2>3. ReadPublic(sub.after)' = {}
    BY <1>2, <1>3, <2>1 DEF ReadPublic, PublicThrough
  <2>4. ParkedIsUpToDate'
    BY <2>3 DEF ParkedIsUpToDate
  <2> QED
    BY <1>2, <2>1, <2>2, <2>4, SubIInv
<1>4. CASE /\ ReadPublic(sub.after) # {}
           /\ sub' = [sub EXCEPT !.stage = "sending", !.page = ReadPublic(sub.after)]
  <2>1. Pages(ReadPublic(sub.after), sub.after) /\ ReadPublic(sub.after) \in SUBSET Nat
    BY <1>1, ReadIsPage
  <2>2. /\ sub'.after = sub.after /\ sub'.ch = sub.ch /\ sub'.stage = "sending"
        /\ sub'.page = ReadPublic(sub.after)
    BY <1>1, <1>4 DEF ConsoleTyped, Subscriptions
  <2>3. ConsoleTyped'
    BY Zenon, <1>1, <1>2, <1>4, <2>1 DEF ConsoleTyped, Subscriptions
  <2>4. ParkedIsUpToDate'
    BY <2>2 DEF ParkedIsUpToDate
  <2> QED
    BY <1>2, <1>4, <2>1, <2>2, <2>3, <2>4, SubIInv
<1> QED
  BY <1>3, <1>4 DEF ReadPage

\* A read that fails leaves a retry owed, which preserves the invariant.
LEMMA ReadFailsIInv ==
    ASSUME ConsoleIInv, ReadFails PROVE ConsoleIInv'
<1>1. ConsoleTyped
  BY DEF ConsoleIInv
<1>2. entries' = entries /\ seen' = seen /\ conn' = conn /\ sub.stage = "draining"
  BY DEF ReadFails
<1>3. /\ sub'.after = sub.after /\ sub'.ch = sub.ch
      /\ sub'.stage = "parked" /\ sub'.signals > 0
  BY <1>1 DEF ConsoleTyped, Subscriptions, ReadFails
<1>4. ConsoleTyped'
  <2>1. sub \in Subscriptions /\ sub.signals + 1 \in Nat
    BY <1>1 DEF ConsoleTyped, Subscriptions
  <2>2. sub' = [sub EXCEPT !.stage = "parked", !.signals = sub.signals + 1]
    BY DEF ReadFails
  <2>3. sub' \in Subscriptions
    BY Zenon, <2>1, <2>2 DEF Subscriptions
  <2> QED
    BY <1>1, <2>3 DEF ConsoleTyped, ReadFails
<1>5. ParkedIsUpToDate'
  BY <1>3 DEF ParkedIsUpToDate
<1> QED
  BY <1>2, <1>3, <1>4, <1>5, SubIInv

\* A send moves the first of the page from the log's side of the channel to the
\* console's.
LEMMA SendIInv ==
    ASSUME ConsoleIInv, Send PROVE ConsoleIInv'
<1>1. ConsoleTyped /\ sub.after \in Nat /\ sub.ch \in Seq(Nat) /\ lastEventID \in Nat
  BY DEF ConsoleIInv, ConsoleTyped, Subscriptions
<1>2. /\ entries' = entries /\ seen' = seen /\ conn' = conn /\ waking' = waking
      /\ sub.stage = "sending" /\ sub.page # {} /\ Pages(sub.page, sub.after)
      /\ lastEventID <= sub.after /\ Lists(sub.ch, Between(lastEventID, sub.after))
      /\ conn.stage = "live"
  BY DEF ConsoleIInv, Send, Live
<1>3. PICK x : x = Min(sub.page)
  BY Zenon
<1>4. /\ x \in Nat /\ sub.after < x /\ x <= Len(entries)
      /\ Between(lastEventID, x) = Between(lastEventID, sub.after) \cup {x}
      /\ Pages(sub.page \ {x}, x)
  BY Zenon, <1>1, <1>2, <1>3, FirstOfPage
<1>5. /\ sub'.ch = Append(sub.ch, x) /\ sub'.after = x /\ sub'.page = sub.page \ {x}
      /\ sub'.stage = (IF sub.page = {x} THEN "draining" ELSE "sending")
  BY <1>1, <1>3 DEF ConsoleTyped, Subscriptions, Send
<1>6. \A p \in Between(lastEventID, sub.after) : p < x
  <2>1. \A p \in Between(lastEventID, sub.after) : p \in Nat /\ p <= sub.after
    BY <1>1 DEF Between, Public, PublicThrough, ConsoleTyped
  <2> QED
    BY <1>1, <1>4, <2>1
<1>7. Lists(sub'.ch, Between(lastEventID, x))
  BY <1>2, <1>4, <1>5, <1>6, ListsAppend
<1>8. lastEventID' = lastEventID /\ Public' = Public
  BY <1>2, LogStays DEF lastEventID
<1>9. Between(lastEventID, sub.after)' = Between(lastEventID, x)
  BY <1>5, <1>8 DEF Between
<1>10. Lists(sub.ch, Between(lastEventID, sub.after))'
  BY Zenon, <1>7, <1>9 DEF Lists
<1>11. ConsoleTyped'
  <2>1. sub \in Subscriptions /\ Append(sub.ch, x) \in Seq(Nat) /\ sub.page \ {x} \in SUBSET Nat
    BY <1>1, <1>4 DEF ConsoleTyped, Subscriptions
  <2>2. sub' = [sub EXCEPT !.ch = Append(sub.ch, x), !.after = x, !.page = sub.page \ {x},
                           !.stage = IF sub.page = {x} THEN "draining" ELSE "sending"]
    BY <1>3 DEF Send
  <2>3. sub' \in Subscriptions
    BY Zenon, <1>4, <2>1, <2>2 DEF Subscriptions
  <2> QED
    BY <1>1, <1>2, <2>3 DEF ConsoleTyped
<1>12. Pages(sub.page, sub.after)'
  BY <1>4, <1>5, <1>8 DEF Pages
<1>13. Live'
  <2>1. sub'.stage = "sending" => sub'.page # {}
    BY Zenon, <1>2, <1>5
  <2>2. conn'.stage = "live" /\ (lastEventID <= sub.after)' /\ (sub.after <= Len(entries))'
    BY <1>1, <1>2, <1>4, <1>5, <1>8
  <2> QED
    BY Zenon, <1>10, <1>12, <2>1, <2>2 DEF Live
<1>14. Replaying'
  BY <1>2 DEF Replaying
<1>15. Lists(seen, Between(0, lastEventID))'
  BY <1>2, <1>8 DEF ConsoleIInv, Lists, Between
<1>16. ParkedIsUpToDate' /\ sub'.stage # "none"
  BY <1>5 DEF ParkedIsUpToDate
<1> QED
  BY <1>2, <1>8, <1>11, <1>13, <1>14, <1>15, <1>16 DEF ConsoleIInv

\* A write of the next public position after what the console saw last.
LEMMA Received ==
    ASSUME ConsoleTyped, Lists(seen, Between(0, lastEventID)), lastEventID \in Nat,
           NEW x \in Nat, lastEventID < x, Between(0, x) = Between(0, lastEventID) \cup {x},
           seen' = Append(seen, x), entries' = entries
    PROVE  lastEventID' = x /\ Lists(seen, Between(0, lastEventID))'
<1>1. seen \in Seq(Nat)
  BY DEF Lists
<1>2. lastEventID' = x
  BY <1>1 DEF lastEventID
<1>3. \A p \in Between(0, lastEventID) : p \in Nat /\ p <= lastEventID
  BY DEF Between, Public, PublicThrough, ConsoleTyped
<1>4. \A p \in Between(0, lastEventID) : p < x
  BY <1>3
<1>5. Lists(seen', Between(0, x))
  BY <1>4, ListsAppend
<1>6. Between(0, lastEventID)' = Between(0, x)
  BY <1>2, LogStays DEF Between
<1>7. Lists(seen, Between(0, lastEventID))'
  BY <1>5, <1>6 DEF Lists
<1> QED
  BY <1>2, <1>7

\* A console that connects starts its replay at what it saw last.
LEMMA StreamIInv ==
    ASSUME ConsoleIInv, StreamConsoleEvents PROVE ConsoleIInv'
<1>1. /\ ConsoleTyped /\ conn.stage = "off" /\ lastEventID <= LatestPosition
      /\ conn' = [stage |-> "replaying", cursor |-> lastEventID, head |-> LatestPosition, page |-> {}]
      /\ entries' = entries /\ waking' = waking /\ seen' = seen /\ sub' = sub
  BY DEF ConsoleIInv, StreamConsoleEvents
<1>2. LatestPosition \in Nat /\ LatestPosition <= Len(entries)
  <2>1. Len(entries) \in Nat /\ Public \subseteq 1..Len(entries)
    BY DEF ConsoleTyped, Subscriptions, Public, PublicThrough
  <2>2. CASE Public = {}
    BY <2>1, <2>2 DEF LatestPosition, Public
  <2>3. CASE Public # {}
    <3>1. \E x \in Public : \A y \in Public : x >= y
      BY Zenon, <2>1, <2>3, Greatest
    <3>2. Max(Public) \in Public
      BY Zenon, <3>1 DEF Max
    <3>3. LatestPosition = Max(Public)
      BY <2>3 DEF LatestPosition, Public
    <3>4. \A m \in Public : m \in Nat /\ m <= Len(entries)
      BY <2>1
    <3> QED
      BY Zenon, <3>2, <3>3, <3>4
  <2> QED
    BY <2>2, <2>3
<1>3. sub.stage = "none"
  BY <1>1 DEF ConsoleIInv, Live
<1>4. lastEventID' = lastEventID /\ Public' = Public
  BY <1>1, LogStays DEF lastEventID
<1>5. ConsoleTyped'
  BY <1>1, <1>2 DEF ConsoleIInv, ConsoleTyped, Subscriptions
<1>6. Replaying'
  BY <1>1, <1>2, <1>3, <1>4 DEF Replaying, Pages
<1>7. Live' /\ ParkedIsUpToDate'
  BY <1>1, <1>3 DEF Live, ParkedIsUpToDate
<1>8. Lists(seen, Between(0, lastEventID))'
  BY <1>1, <1>4 DEF ConsoleIInv, Lists, Between
<1> QED
  BY <1>1, <1>4, <1>5, <1>6, <1>7, <1>8 DEF ConsoleIInv

\* Reading a page of the replay preserves the invariant.
LEMMA ReadReplayPageIInv ==
    ASSUME ConsoleIInv, ReadReplayPage PROVE ConsoleIInv'
<1>1. /\ ConsoleTyped /\ conn.stage = "replaying" /\ conn.cursor \in Nat
      /\ entries' = entries /\ waking' = waking /\ seen' = seen /\ sub' = sub
      /\ sub.stage = "none"
  BY DEF ConsoleIInv, ReadReplayPage, ConsoleTyped, Replaying
<1>2. lastEventID' = lastEventID /\ Public' = Public
  BY <1>1, LogStays DEF lastEventID
<1>3. Live' /\ ParkedIsUpToDate'
  BY <1>1 DEF Live, ParkedIsUpToDate
<1>4. Lists(seen, Between(0, lastEventID))'
  BY <1>1, <1>2 DEF ConsoleIInv, Lists, Between
<1>5. Pages(ReadPublic(conn.cursor), conn.cursor) /\ ReadPublic(conn.cursor) \in SUBSET Nat
  BY <1>1, ReadIsPage
<1>6. CASE conn' = Off
  <2>1. ConsoleTyped'
    BY <1>1, <1>6 DEF ConsoleTyped, Off
  <2>2. Replaying'
    BY <1>6 DEF Replaying, Off
  <2> QED
    BY <1>1, <1>2, <1>3, <1>4, <2>1, <2>2 DEF ConsoleIInv
<1>7. CASE conn' = [conn EXCEPT !.page = ReadPublic(conn.cursor)]
  <2>1. ConsoleTyped'
    BY <1>1, <1>5, <1>7 DEF ConsoleTyped
  <2>2. /\ conn'.cursor = conn.cursor /\ conn'.head = conn.head
        /\ conn'.page = ReadPublic(conn.cursor)
    BY <1>1, <1>7 DEF ConsoleTyped
  <2>3. Pages(conn.page, conn.cursor)'
    BY <1>2, <1>5, <2>2 DEF Pages
  <2>4. Replaying'
    BY <1>1, <1>2, <2>2, <2>3 DEF ConsoleIInv, Replaying
  <2> QED
    BY <1>1, <1>2, <1>3, <1>4, <2>1, <2>4 DEF ConsoleIInv
<1> QED
  BY <1>6, <1>7 DEF ReadReplayPage

\* Writing a replayed entry preserves the invariant.
LEMMA WriteReplayedIInv ==
    ASSUME ConsoleIInv, WriteReplayed PROVE ConsoleIInv'
<1>1. /\ ConsoleTyped /\ conn.stage = "replaying" /\ conn.cursor \in Nat /\ conn.head \in Nat
      /\ conn.page # {} /\ Pages(conn.page, conn.cursor) /\ conn.cursor = lastEventID
      /\ conn.head <= Len(entries)
      /\ entries' = entries /\ waking' = waking /\ sub' = sub /\ sub.stage = "none"
  BY DEF ConsoleIInv, WriteReplayed, ConsoleTyped, Replaying
<1>2. PICK x : x = Min(conn.page)
  BY Zenon
<1>3. /\ x <= conn.head /\ seen' = Append(seen, x)
      /\ conn' = [conn EXCEPT !.cursor = x, !.page = conn.page \ {x}]
  BY <1>2 DEF WriteReplayed
<1>4. /\ x \in Nat /\ lastEventID < x /\ x <= Len(entries)
      /\ Between(0, x) = Between(0, lastEventID) \cup {x}
      /\ Pages(conn.page \ {x}, x)
  <2>1. 0 \in Nat /\ 0 <= conn.cursor
    BY <1>1
  <2> QED
    BY Zenon, <1>1, <1>2, <2>1, FirstOfPage
<1>5. lastEventID' = x /\ Lists(seen, Between(0, lastEventID))'
  BY <1>1, <1>3, <1>4, Received DEF ConsoleIInv
<1>6. ConsoleTyped'
  BY Zenon, <1>1, <1>3, <1>4 DEF ConsoleTyped
<1>7. /\ conn'.cursor = x /\ conn'.head = conn.head /\ conn'.page = conn.page \ {x}
  BY <1>1, <1>3 DEF ConsoleTyped
<1>8. Public' = Public
  BY <1>1, LogStays
<1>9. Pages(conn.page, conn.cursor)'
  BY <1>4, <1>7, <1>8 DEF Pages
<1>10. Replaying'
  BY <1>1, <1>3, <1>4, <1>5, <1>7, <1>9 DEF Replaying
<1>11. Live' /\ ParkedIsUpToDate'
  BY <1>1 DEF Live, ParkedIsUpToDate
<1> QED
  BY <1>1, <1>4, <1>5, <1>6, <1>10, <1>11 DEF ConsoleIInv

\* The seam: nothing public lies between what was replayed and the head at which the
\* subscription starts.
LEMMA SubscribeIInv ==
    ASSUME ConsoleIInv, Subscribe PROVE ConsoleIInv'
<1>1. /\ ConsoleTyped /\ conn.stage = "replaying" /\ conn.cursor \in Nat /\ conn.head \in Nat
      /\ Pages(conn.page, conn.cursor) /\ conn.cursor = lastEventID /\ conn.cursor <= conn.head
      /\ conn.head <= Len(entries) /\ Len(entries) \in Nat
      /\ conn.cursor >= conn.head \/ (conn.page # {} /\ Min(conn.page) > conn.head)
      /\ conn' = [conn EXCEPT !.stage = "live", !.page = {}]
      /\ entries' = entries /\ waking' = waking /\ seen' = seen
  BY DEF ConsoleIInv, Subscribe, ConsoleTyped, Replaying
<1>2. sub' = [stage |-> "parked", after |-> conn.head, page |-> {}, wake |-> FALSE,
               signals |-> 1, ch |-> <<>>]
  BY Zenon DEF Subscribe, Unsubscribed
<1>3. \A i \in Public : i \in Nat
  BY <1>1 DEF Public, PublicThrough
<1>4. Between(lastEventID, conn.head) = {}
  <2>1. CASE conn.cursor >= conn.head
    BY <1>1, <1>3, <2>1 DEF Between
  <2>2. CASE conn.page # {} /\ Min(conn.page) > conn.head
    <3>1. PICK x : x = Min(conn.page)
      BY Zenon
    <3>2. x \in conn.page /\ x \in Nat /\ x > conn.head /\ \A m \in conn.page : x <= m
      <4>1. conn.page \in SUBSET Nat
        BY <1>1 DEF ConsoleTyped
      <4> QED
        BY <2>2, <3>1, <4>1, MinIsFirst
    <3>3. ASSUME NEW j \in Between(lastEventID, conn.head) PROVE FALSE
      <4>1. j \in Public /\ j \in Nat /\ conn.cursor < j /\ j < x
        BY <1>1, <1>3, <3>2 DEF Between
      <4>2. j \in conn.page
        BY <1>1, <3>2, <4>1 DEF Pages
      <4> QED
        BY <3>2, <4>1, <4>2
    <3> QED
      BY <3>3
  <2> QED
    BY <1>1, <2>1, <2>2
<1>5. lastEventID' = lastEventID /\ Public' = Public
  BY <1>1, LogStays DEF lastEventID
<1>6. ConsoleTyped'
  <2>1. <<>> \in Seq(Nat) /\ {} \in SUBSET Nat
    OBVIOUS
  <2>2. sub' \in Subscriptions
    BY <1>1, <1>2, <2>1 DEF Subscriptions
  <2> QED
    BY Zenon, <1>1, <2>2 DEF ConsoleTyped
<1>7. Lists(seen, Between(0, lastEventID))'
  BY <1>1, <1>5 DEF ConsoleIInv, Lists, Between
<1>8. Lists(sub.ch, Between(lastEventID, sub.after))'
  <2>1. Between(lastEventID, sub.after)' = {} /\ sub'.ch = <<>>
    BY <1>2, <1>4, <1>5 DEF Between
  <2> QED
    BY <2>1 DEF Lists
<1>9. conn'.stage = "live" /\ sub'.stage = "parked" /\ sub'.after = conn.head /\ sub'.signals = 1
  BY <1>1, <1>2 DEF ConsoleTyped
<1>10. Live'
  BY <1>1, <1>5, <1>8, <1>9 DEF Live
<1>11. Replaying' /\ ParkedIsUpToDate'
  BY <1>9 DEF Replaying, ParkedIsUpToDate
<1> QED
  BY <1>1, <1>5, <1>6, <1>7, <1>9, <1>10, <1>11 DEF ConsoleIInv

\* The channel's first position is the next one the console has not seen.
LEMMA WriteDeliveryIInv ==
    ASSUME ConsoleIInv, WriteDelivery PROVE ConsoleIInv'
<1>1. /\ ConsoleTyped /\ conn.stage = "live" /\ sub.ch # <<>> /\ sub.stage # "none"
      /\ lastEventID \in Nat /\ sub.after \in Nat /\ sub.after <= Len(entries)
      /\ Len(entries) \in Nat /\ Lists(sub.ch, Between(lastEventID, sub.after))
      /\ (sub.stage = "sending" => sub.page # {} /\ Pages(sub.page, sub.after))
      /\ entries' = entries /\ waking' = waking /\ conn' = conn
      /\ seen' = Append(seen, Head(sub.ch)) /\ sub' = [sub EXCEPT !.ch = Tail(sub.ch)]
  BY DEF ConsoleIInv, WriteDelivery, ConsoleTyped, Subscriptions, Live
<1>2. PICK x : x = Head(sub.ch)
  BY Zenon
<1>3. /\ x \in Between(lastEventID, sub.after) /\ x \in Nat
      /\ \A p \in Between(lastEventID, sub.after) : x <= p
      /\ Lists(Tail(sub.ch), Between(lastEventID, sub.after) \ {x})
  BY Zenon, <1>1, <1>2, ListsTail
<1>4. x \in Public /\ lastEventID < x /\ x <= sub.after
  BY <1>3 DEF Between
<1>5. \A i \in Public : i \in Nat /\ i > 0
  BY <1>1 DEF Public, PublicThrough
<1>6. Between(0, x) = Between(0, lastEventID) \cup {x}
  <2>1. ASSUME NEW j \in Between(0, x), j > lastEventID, j # x PROVE FALSE
    <3>1. j \in Public /\ j \in Nat /\ j <= x
      BY <1>5 DEF Between
    <3>2. j \in Between(lastEventID, sub.after)
      BY <1>1, <1>3, <1>4, <2>1, <3>1 DEF Between
    <3> QED
      BY <1>3, <2>1, <3>1, <3>2
  <2>2. ASSUME NEW j \in Between(0, x) PROVE j \in Between(0, lastEventID) \cup {x}
    <3>1. j \in Nat /\ j \in Public /\ j > 0
      BY <1>5 DEF Between
    <3> QED
      BY <1>1, <2>1, <3>1 DEF Between
  <2>3. ASSUME NEW j \in Between(0, lastEventID) \cup {x} PROVE j \in Between(0, x)
    BY <1>1, <1>3, <1>4, <1>5 DEF Between
  <2> QED
    BY <2>2, <2>3
<1>7. lastEventID' = x /\ Lists(seen, Between(0, lastEventID))'
  BY <1>1, <1>2, <1>3, <1>4, <1>6, Received DEF ConsoleIInv
<1>8. Between(lastEventID, sub.after) \ {x} = Between(x, sub.after)
  <2>1. ASSUME NEW j \in Between(lastEventID, sub.after), j # x PROVE j \in Between(x, sub.after)
    <3>1. j \in Public /\ j \in Nat /\ j <= sub.after /\ x <= j
      BY <1>3, <1>5 DEF Between
    <3> QED
      BY <1>3, <2>1, <3>1 DEF Between
  <2>2. ASSUME NEW j \in Between(x, sub.after)
        PROVE  j \in Between(lastEventID, sub.after) /\ j # x
    <3>1. j \in Public /\ j \in Nat /\ j <= sub.after /\ x < j
      BY <1>5 DEF Between
    <3> QED
      BY <1>1, <1>3, <1>4, <3>1 DEF Between
  <2> QED
    BY <2>1, <2>2
<1>9. /\ sub'.ch = Tail(sub.ch) /\ sub'.after = sub.after /\ sub'.stage = sub.stage
      /\ sub'.page = sub.page /\ sub'.wake = sub.wake /\ sub'.signals = sub.signals
  BY <1>1 DEF ConsoleTyped, Subscriptions
<1>10. Public' = Public
  BY <1>1, LogStays
<1>11. Lists(sub.ch, Between(lastEventID, sub.after))'
  <2>1. Between(lastEventID, sub.after)' = Between(x, sub.after)
    BY <1>7, <1>9, <1>10 DEF Between
  <2>2. Lists(Tail(sub.ch), Between(x, sub.after))
    BY Zenon, <1>3, <1>8
  <2> QED
    BY <1>9, <2>1, <2>2 DEF Lists
<1>12. ConsoleTyped'
  <2>1. sub \in Subscriptions /\ Tail(sub.ch) \in Seq(Nat)
    BY <1>1 DEF ConsoleTyped, Subscriptions
  <2>2. sub' \in Subscriptions
    BY Zenon, <1>1, <2>1 DEF Subscriptions
  <2> QED
    BY <1>1, <2>2 DEF ConsoleTyped
<1>13. Live'
  <2>1. sub.stage = "sending" => Pages(sub.page, sub.after)'
    BY <1>1, <1>9, <1>10 DEF Pages
  <2> QED
    BY <1>1, <1>3, <1>4, <1>7, <1>9, <1>11, <2>1 DEF Live
<1>14. Replaying'
  BY <1>1 DEF Replaying
<1>15. ParkedIsUpToDate'
  <2>1. ReadPublic(sub.after)' = ReadPublic(sub.after)
    BY <1>1, <1>9 DEF ReadPublic, PublicThrough
  <2> QED
    BY <1>1, <1>9, <2>1 DEF ConsoleIInv, ParkedIsUpToDate
<1> QED
  BY <1>1, <1>3, <1>4, <1>7, <1>9, <1>12, <1>13, <1>14, <1>15 DEF ConsoleIInv

\* A connection that breaks preserves the invariant.
LEMMA DisconnectIInv ==
    ASSUME ConsoleIInv, Disconnect PROVE ConsoleIInv'
<1>1. /\ entries' = entries /\ waking' = waking /\ seen' = seen
      /\ conn' = Off /\ sub' = Unsubscribed
  BY DEF Disconnect
<1>2. lastEventID' = lastEventID /\ Public' = Public
  BY <1>1, LogStays DEF lastEventID
<1>3. ConsoleTyped'
  BY <1>1 DEF ConsoleIInv, ConsoleTyped, Subscriptions, Off, Unsubscribed
<1>4. Lists(seen, Between(0, lastEventID))'
  BY <1>1, <1>2 DEF ConsoleIInv, Lists, Between
<1>5. Replaying' /\ Live' /\ ParkedIsUpToDate' /\ sub'.ch = <<>>
  BY <1>1 DEF Replaying, Live, ParkedIsUpToDate, Off, Unsubscribed
<1> QED
  BY <1>1, <1>2, <1>3, <1>4, <1>5 DEF ConsoleIInv

\* Every step of the console feed preserves the invariant.
LEMMA ConsoleNextIInv == ConsoleIInv /\ [ConsoleNext]_consoleVars => ConsoleIInv'
<1> SUFFICES ASSUME ConsoleIInv, [ConsoleNext]_consoleVars PROVE ConsoleIInv'
  OBVIOUS
<1>1. CASE UNCHANGED consoleVars
  <2>1. /\ entries' = entries /\ waking' = waking /\ seen' = seen /\ conn' = conn /\ sub' = sub
    BY <1>1 DEF consoleVars
  <2>2. ConsoleTyped'
    BY <2>1 DEF ConsoleIInv, ConsoleTyped
  <2>3. sub.stage = "sending" => sub.page # {} /\ Pages(sub.page, sub.after)
    BY DEF ConsoleIInv, Live
  <2>4. ParkedIsUpToDate'
    BY Zenon, <2>1 DEF ConsoleIInv, ParkedIsUpToDate, ReadPublic, PublicThrough
  <2> QED
    BY <2>1, <2>2, <2>3, <2>4, SubIInv
<1>2. CASE Quiet
  BY <1>1, <1>2 DEF Quiet
<1> QED
  BY Zenon, <1>1, <1>2, AppendEntryIInv, wakeSubscribersIInv, StreamIInv, ReadReplayPageIInv,
     WriteReplayedIInv, SubscribeIInv, WriteDeliveryIInv, DisconnectIInv, signalIInv, WakeIInv,
     ReadPageIInv, SendIInv, ReadFailsIInv
     DEF ConsoleNext, Handler, Goroutine

\* The invariant holds in every state the feed reaches.
LEMMA ConsoleInvariance == ConsoleSpec => []ConsoleIInv
  BY ConsoleInitIInv, ConsoleNextIInv, PTL DEF ConsoleSpec

(***************************************************************************)
(* For any page size and channel size, any appends, failing reads and      *)
(* broken connections, what the console received is the public log up to   *)
(* the event it received last: nothing twice, left out or out of order.    *)
(***************************************************************************)
THEOREM ConsoleSeesTheLog == ConsoleSpec => []SeenIsThePublicLog
<1>1. ConsoleIInv => SeenIsThePublicLog
  <2> SUFFICES ASSUME ConsoleIInv PROVE SeenIsThePublicLog
    OBVIOUS
  <2>1. /\ Lists(seen, Between(0, lastEventID)) /\ lastEventID \in Nat
        /\ lastEventID <= Len(entries) /\ Len(entries) \in Nat
    BY DEF ConsoleIInv, ConsoleTyped
  <2>2. Between(0, lastEventID) = PublicThrough(lastEventID)
    BY <2>1 DEF Between, Public, PublicThrough
  <2>3. DOMAIN seen = 1..Len(seen)
    BY <2>1 DEF Lists
  <2>4. {seen[i] : i \in DOMAIN seen} = Between(0, lastEventID)
    BY <2>1, <2>3 DEF Lists
  <2>5. \A i, j \in DOMAIN seen : i < j => seen[i] < seen[j]
    BY <2>1, <2>3 DEF Lists
  <2> QED
    BY <2>2, <2>4, <2>5 DEF SeenIsThePublicLog
<1> QED
  BY <1>1, ConsoleInvariance, PTL

(***************************************************************************)
(* No wake-up is lost: a parked subscription with something to read is     *)
(* signalled, or a step that will signal it is still to run.               *)
(***************************************************************************)
THEOREM NoWakeupIsLost == ConsoleSpec => []ParkedIsUpToDate
<1>1. ConsoleIInv => ParkedIsUpToDate
  BY DEF ConsoleIInv
<1> QED
  BY <1>1, ConsoleInvariance, PTL

=============================================================================

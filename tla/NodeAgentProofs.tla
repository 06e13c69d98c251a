--------------------------- MODULE NodeAgentProofs ---------------------------
(***************************************************************************)
(* NodeAgent implements NodeCommands, for any Runs, images, buffer size    *)
(* and number of faults, and what the agent remembers telling the control  *)
(* plane is recorded as long as its state file survives and its clock goes *)
(* forward.                                                                *)
(***************************************************************************)
EXTENDS NodeAgent, FiniteSetTheorems, SequenceTheorems, TLAPS

Effectful == Launches \cup Stops

ContainerPhase == {"absent", "created", "running", "exited"}
Message == [op : Op, fencing : Nat]
Observed == [id : Nat, run : Runs \cup {"none"}, phase : ContainerPhase, at : Nat]
State == [fencing : Nat, applied : SUBSET Op, spool : Seq(Observed), seq : Nat,
          reported : [Runs -> ContainerPhase]]

(* The shapes the proof relies on. *)
Shape ==
    /\ ops \in [Op -> [state : {"none", "pending", "applied", "refused"}, fencing : Nat]]
    /\ issued \in Seq(Op) /\ delivering \subseteq Op
    /\ fencing \in Nat /\ now \in Nat
    /\ stream \in Seq(Message)
    /\ worker \in [stage : {"idle", "perform", "performed", "report"},
                   op : Op \cup {NoOp}, ok : BOOLEAN]
    /\ mem \in State
    /\ container \in [Runs -> ContainerPhase]
    /\ starts \in [Runs -> {0, 1}]
    /\ content \subseteq Images

(* A container that was never created was never started. *)
NeverMade == \A r \in Runs : container[r] = "absent" => starts[r] = 0

(* Every command in flight was recorded, and a copy of a launch or a stop still
   carries the fencing token its row was stamped with. *)
Tokens ==
    /\ mem.fencing = fencing
    /\ \A o \in Op : ops[o].fencing <= fencing

InFlight ==
    /\ \A o \in delivering : ops[o].state # "none"
    /\ \A i \in DOMAIN stream :
        /\ ops[stream[i].op].state # "none"
        /\ stream[i].op \in Effectful => stream[i].fencing = ops[stream[i].op].fencing

(* The agent will refuse to perform o again. *)
Guarded(o) == o \in mem.applied \/ ops[o].fencing < mem.fencing

(* Nothing that may have left an effect is settled before the agent's memory or
   its newer fencing token keeps it from being performed again. *)
SettledIsGuarded ==
    \A o \in Effectful : ops[o].state \in {"applied", "refused"} => Guarded(o)

WorkerIsBacked ==
    worker.stage # "idle" =>
        /\ worker.op \in Op /\ ops[worker.op].state # "none"
        /\ worker.op \in Effectful =>
             /\ worker.stage \in {"perform", "performed"} => ops[worker.op].state = "pending"
             /\ worker.stage = "report" => Guarded(worker.op)
        /\ (worker.op \in Preparations /\ worker.stage \in {"performed", "report"} /\ worker.ok)
             => worker.op.of \in content

AppliedIsThere == \A o \in Preparations : o \in mem.applied => o.of \in content

IInv ==
    /\ Shape /\ NeverMade /\ Tokens /\ InFlight /\ SettledIsGuarded
    /\ WorkerIsBacked /\ AppliedIsThere

-----------------------------------------------------------------------------
(* An operation is its kind and what it is of, so the kinds do not meet. *)
LEMMA OpShape ==
    /\ \A o \in Launches : o = [kind |-> "launch", of |-> o.of] /\ o.of \in Runs
    /\ \A o \in Stops : o = [kind |-> "stop", of |-> o.of] /\ o.of \in Runs
    /\ \A o \in Preparations : o = [kind |-> "prepare", of |-> o.of] /\ o.of \in Images
    /\ NoOp \notin Op
    /\ \A o \in Op : /\ o \in Launches <=> o.kind = "launch"
                     /\ o \in Stops <=> o.kind = "stop"
                     /\ o \in Preparations <=> o.kind = "prepare"
                     /\ MayLeaveEffectOnFailure(o) <=> o \in Effectful
BY DEF Launches, Stops, Preparations, Op, NoOp, MayLeaveEffectOnFailure, Effectful

\* The initial state satisfies the invariant.
LEMMA InitHolds == Init => IInv
BY OpShape DEF Init, IInv, Shape, NeverMade, Tokens, InFlight, SettledIsGuarded, WorkerIsBacked,
    AppliedIsThere, StateFile, State, Idle, ContainerPhase, Guarded, Effectful, Op

(* The actions that touch neither the operations, the agent's memory, its
   worker nor the daemon. *)
LEMMA ReportingKeeps ==
    ASSUME IInv,
           \/ RegisterSession \/ Start \/ Reported \/ FlushEvent \/ FlushFails \/ SessionDrops
           \/ UNCHANGED vars
    PROVE  IInv'
<1> USE DEF IInv, Shape, NeverMade, Tokens, InFlight, SettledIsGuarded, WorkerIsBacked,
        AppliedIsThere, Guarded, store, link, daemon
<1>1. CASE RegisterSession BY <1>1 DEF RegisterSession
<1>2. CASE Start BY <1>2 DEF Start
<1>3. CASE Reported BY <1>3 DEF Reported
<1>4. CASE FlushEvent BY <1>4 DEF FlushEvent
<1>5. CASE FlushFails BY <1>5 DEF FlushFails
<1>6. CASE SessionDrops BY <1>6 DEF SessionDrops
<1>7. CASE UNCHANGED vars BY <1>7 DEF vars
<1> HIDE DEF IInv, store, link, daemon
<1> QED BY <1>1, <1>2, <1>3, <1>4, <1>5, <1>6, <1>7

(* Reports and spools change the agent's memory, but neither its fencing token
   nor what it remembers having applied. *)
LEMMA MemoryKeeps ==
    ASSUME IInv, mem' \in State, now' \in Nat,
           mem'.fencing = mem.fencing, mem'.applied = mem.applied,
           UNCHANGED <<ops, issued, fencing, stream, delivering, worker, daemon>>
    PROVE  IInv'
BY DEF IInv, Shape, NeverMade, Tokens, InFlight, SettledIsGuarded, WorkerIsBacked,
    AppliedIsThere, Guarded, daemon

\* A heartbeat preserves the invariant.
LEMMA HeartbeatKeeps ==
    ASSUME IInv, NEW first \in BOOLEAN, NEW arrived \in BOOLEAN, HeartbeatSpooled(first, arrived)
    PROVE  IInv'
<1> USE DEF IInv, Shape
<1>1. /\ mem.spool \in Seq(Observed) /\ mem.seq \in Nat /\ mem.seq + 1 \in Nat /\ now + 1 \in Nat
  BY DEF State
<1>2. Heartbeat \in Observed BY <1>1 DEF Heartbeat, Observed, ContainerPhase
<1>3. Append(mem.spool, Heartbeat) \in Seq(Observed) BY <1>1, <1>2
<1>4. /\ mem' \in State /\ mem'.fencing = mem.fencing /\ mem'.applied = mem.applied
  BY Zenon, <1>1, <1>3 DEF HeartbeatSpooled, State
<1>5. /\ now' \in Nat
      /\ UNCHANGED <<ops, issued, fencing, stream, delivering, worker, daemon>>
  BY <1>1 DEF HeartbeatSpooled
<1> QED BY <1>4, <1>5, MemoryKeeps

\* A report told or spooled preserves the invariant.
LEMMA ReportsKeep ==
    ASSUME IInv, NEW r \in Runs, NEW arrived \in BOOLEAN,
           Told(r) \/ Spooled(r, arrived)
    PROVE  IInv'
<1> USE DEF IInv, Shape
<1>1. /\ mem.spool \in Seq(Observed) /\ mem.seq \in Nat /\ mem.seq + 1 \in Nat
      /\ mem.reported \in [Runs -> ContainerPhase] /\ container[r] \in ContainerPhase
      /\ now + 1 \in Nat
  BY DEF State
<1>2. Observation(r) \in Observed BY <1>1 DEF Observation, Observed
<1>3. CASE Told(r)
  <2>1. [mem.reported EXCEPT ![r] = container[r]] \in [Runs -> ContainerPhase] BY <1>1
  <2>2. /\ mem' \in State /\ mem'.fencing = mem.fencing /\ mem'.applied = mem.applied
    BY Zenon, <1>3, <1>1, <2>1 DEF Told, State
  <2> QED BY <1>3, <2>2, <1>1, MemoryKeeps DEF Told, link
<1>4. CASE Spooled(r, arrived)
  <2>1. Append(mem.spool, Observation(r)) \in Seq(Observed) BY <1>1, <1>2
  <2>2. /\ mem' \in State /\ mem'.fencing = mem.fencing /\ mem'.applied = mem.applied
    BY Zenon, <1>4, <1>1, <2>1 DEF Spooled, State
  <2> QED BY <1>4, <2>2, <1>1, MemoryKeeps DEF Spooled, link
<1> QED BY <1>3, <1>4

\* Clearing the spool preserves the invariant.
LEMMA ClearSpoolKeeps ==
    ASSUME IInv, ClearSpool
    PROVE  IInv'
<1> USE DEF IInv, Shape
<1>1. << >> \in Seq(Observed) OBVIOUS
<1>2. mem' \in State /\ mem'.fencing = mem.fencing /\ mem'.applied = mem.applied
  BY Zenon, <1>1 DEF ClearSpool, State
<1> QED BY <1>2, MemoryKeeps DEF ClearSpool, store, link

\* Dispatching an operation preserves the invariant.
LEMMA DispatchKeeps ==
    ASSUME IInv, NEW o \in Op, Dispatch(o)
    PROVE  IInv'
<1> USE DEF IInv, Shape
<1>1. ops' = [ops EXCEPT ![o] = [state |-> "pending", fencing |-> fencing]] BY DEF Dispatch
<1>2. /\ ops' \in [Op -> [state : {"none", "pending", "applied", "refused"}, fencing : Nat]]
      /\ ops'[o].state = "pending" /\ ops'[o].fencing = fencing
      /\ \A p \in Op \ {o} : ops'[p] = ops[p]
  BY <1>1
<1>3. Append(issued, o) \in Seq(Op) BY AppendProperties
<1>4. Shape' BY <1>2, <1>3 DEF Dispatch, daemon
<1>5. o \in Effectful => ops[o].state = "none" BY OpShape DEF Dispatch, Reissuable
<1>6. Tokens' BY <1>2 DEF Tokens, Dispatch
<1>7. InFlight'
  <2> SUFFICES ASSUME NEW i \in DOMAIN stream
               PROVE  /\ ops'[stream[i].op].state # "none"
                      /\ stream[i].op \in Effectful
                           => stream[i].fencing = ops'[stream[i].op].fencing
    BY <1>2 DEF InFlight, Dispatch
  <2>1. stream[i] \in Message BY ElementOfSeq
  <2>2. stream[i].op \in Op BY <2>1 DEF Message
  <2> QED BY Zenon, <2>2, <1>2, <1>5 DEF InFlight
<1>8. SettledIsGuarded' BY <1>2 DEF SettledIsGuarded, Guarded, Dispatch, Effectful, Op
<1>9. WorkerIsBacked' BY <1>2, <1>5 DEF WorkerIsBacked, Guarded, Dispatch, daemon
<1> QED BY <1>4, <1>6, <1>7, <1>8, <1>9 DEF NeverMade, AppliedIsThere, Dispatch, daemon

\* Delivering a command to the agent preserves the invariant.
LEMMA DeliverKeeps ==
    ASSUME IInv, NEW o \in Op, Deliver(o)
    PROVE  IInv'
<1> USE DEF IInv, Shape
<1>1. CommandFrom(o) \in Message /\ CommandFrom(o).op = o /\ CommandFrom(o).fencing = ops[o].fencing
  BY DEF CommandFrom, Message
<1>2. /\ Append(stream, CommandFrom(o)) \in Seq(Message)
      /\ DOMAIN Append(stream, CommandFrom(o)) = 1..(Len(stream) + 1)
      /\ \A i \in 1..Len(stream) : Append(stream, CommandFrom(o))[i] = stream[i]
      /\ Append(stream, CommandFrom(o))[Len(stream) + 1] = CommandFrom(o)
      /\ DOMAIN stream = 1..Len(stream)
      /\ Len(stream) \in Nat
  BY <1>1, AppendProperties, LenProperties
<1>3. InFlight'
  <2>0. ops[o].state # "none" /\ delivering' \subseteq delivering BY DEF Deliver, InFlight
  <2>1. CASE stream' = stream BY <2>0, <2>1 DEF InFlight, Deliver, store
  <2>2. CASE stream' = Append(stream, CommandFrom(o))
    <3>1. \A i \in DOMAIN stream' : \/ i \in DOMAIN stream /\ stream'[i] = stream[i]
                                    \/ stream'[i] = CommandFrom(o)
      BY <2>2, <1>2
    <3> QED BY <3>1, <1>1, <2>0 DEF InFlight, Deliver, store
  <2> QED BY <2>1, <2>2 DEF Deliver
<1>4. Shape' BY <1>2 DEF Deliver, store, daemon
<1> QED BY <1>3, <1>4 DEF Deliver, store, daemon, NeverMade, Tokens, SettledIsGuarded,
      WorkerIsBacked, AppliedIsThere, Guarded

(* The session's first commands are rows of the store. *)
LEMMA ReadPendingKeeps ==
    ASSUME IInv, ReadPending
    PROVE  IInv'
<1> USE DEF IInv, Shape
<1> DEFINE pending == {i \in DOMAIN issued : ops[issued[i]].state = "pending"}
<1>1. PICK listing \in [1..Cardinality(pending) -> pending] :
         stream' = [i \in DOMAIN listing |-> CommandFrom(issued[listing[i]])]
  BY Zenon DEF ReadPending, PendingOperations
<1>2. Cardinality(pending) \in Nat
  <2>1. Len(issued) \in Nat /\ DOMAIN issued = 1..Len(issued) BY LenProperties
  <2>2. IsFiniteSet(1..Len(issued)) BY <2>1, FS_Interval
  <2>3. pending \subseteq 1..Len(issued) BY <2>1
  <2>4. IsFiniteSet(pending) BY <2>2, <2>3, FS_Subset
  <2> QED BY <2>4, FS_CardinalityType
<1>3. \A i \in DOMAIN listing : /\ issued[listing[i]] \in Op
                               /\ ops[issued[listing[i]]].state = "pending"
  BY ElementOfSeq, <1>1
<1> HIDE DEF pending
<1>4. \A i \in DOMAIN listing : /\ stream'[i] = CommandFrom(issued[listing[i]])
                               /\ stream'[i] \in Message
  BY <1>1, <1>3 DEF CommandFrom, Message
<1>5. stream' \in [1..Cardinality(pending) -> Message] BY <1>1, <1>4
<1>6. stream' \in Seq(Message)
  <2>1. SUFFICES ASSUME NEW n \in Nat, NEW q \in [1..n -> Message]
                 PROVE  q \in Seq(Message)
    BY Zenon, <1>5, <1>2
  <2>2. q \in UNION {[1..k -> Message] : k \in Nat} BY Zenon
  <2> QED BY <2>2, SeqDef, Zenon
<1>7. InFlight'
  <2>1. ops' = ops BY DEF ReadPending, store
  <2>2. DOMAIN stream' = DOMAIN listing /\ delivering' = delivering BY <1>1 DEF ReadPending
  <2> QED BY <2>1, <2>2, <1>3, <1>4 DEF InFlight, CommandFrom
<1>8. Shape' BY <1>6 DEF ReadPending, store, daemon
<1> QED BY <1>7, <1>8 DEF ReadPending, store, daemon, NeverMade, Tokens, SettledIsGuarded,
      WorkerIsBacked, AppliedIsThere, Guarded

\* A session that ends and an agent that crashes preserve the invariant.
LEMMA EndingKeeps ==
    ASSUME IInv, ServeReturns \/ Crash
    PROVE  IInv'
<1> USE DEF IInv, Shape
<1>1. << >> \in Seq(Message) /\ DOMAIN << >> = {} OBVIOUS
<1>2. CASE ServeReturns
  BY <1>1, <1>2 DEF ServeReturns, link, store, daemon, NeverMade, Tokens, InFlight, SettledIsGuarded,
      WorkerIsBacked, AppliedIsThere, Guarded
<1>3. CASE Crash
  BY <1>1, <1>3 DEF Crash, link, Idle, store, daemon, NeverMade, Tokens, InFlight, SettledIsGuarded,
      WorkerIsBacked, AppliedIsThere, Guarded
<1> QED BY <1>2, <1>3

(* Without its state file the agent refuses every earlier command by token. *)
LEMMA StateLostKeeps ==
    ASSUME IInv, StateLost
    PROVE  IInv'
<1> USE DEF IInv, Shape
<1>1. /\ mem' = StateFile(fencing + 1) /\ fencing' = fencing + 1 /\ worker = Idle
      /\ UNCHANGED <<ops, issued, delivering, now, stream, worker, container, starts, content>>
  BY DEF StateLost, link, daemon
<1>2. mem'.fencing = fencing + 1 /\ mem'.applied = {} BY <1>1 DEF StateFile
<1>3. mem' \in State
  <2>1. << >> \in Seq(Observed) /\ fencing + 1 \in Nat /\ 0 \in Nat OBVIOUS
  <2>2. [r \in Runs |-> "absent"] \in [Runs -> ContainerPhase] BY DEF ContainerPhase
  <2> QED BY <2>1, <2>2, <1>1 DEF StateFile, State
<1>4. \A o \in Op : ops[o].fencing \in Nat BY DEF Shape
<1>5. Shape' BY <1>1, <1>3
<1>6. Tokens' BY <1>1, <1>2, <1>4 DEF Tokens
<1>7. SettledIsGuarded' BY <1>1, <1>2, <1>4 DEF SettledIsGuarded, Guarded, Tokens, Effectful, Op
<1>8. WorkerIsBacked' BY <1>1 DEF WorkerIsBacked, Idle
<1> QED BY <1>1, <1>2, <1>5, <1>6, <1>7, <1>8 DEF NeverMade, InFlight, AppliedIsThere

\* Taking the next command preserves the invariant.
LEMMA TakeCommandKeeps ==
    ASSUME IInv, TakeCommand
    PROVE  IInv'
<1> USE DEF IInv, Shape
<1> DEFINE command == Head(stream)
<1>1. /\ stream # << >> /\ stream' = Tail(stream)
      /\ worker' = [op |-> command.op,
                    stage |-> IF command.fencing < mem.fencing \/ command.op \in mem.applied
                              THEN "report" ELSE "perform",
                    ok |-> command.fencing >= mem.fencing]
      /\ UNCHANGED <<ops, issued, delivering, fencing, now, mem, container, starts, content>>
  BY DEF TakeCommand, store, daemon
<1>2. /\ command = stream[1] /\ 1 \in DOMAIN stream /\ command \in Message
      /\ Tail(stream) \in Seq(Message)
      /\ \A i \in DOMAIN Tail(stream) : i + 1 \in DOMAIN stream /\ Tail(stream)[i] = stream[i + 1]
  BY <1>1, HeadTailProperties, ElementOfSeq
<1>3. /\ command.op \in Op /\ command.fencing \in Nat
      /\ ops[command.op].state # "none"
      /\ command.op \in Effectful => command.fencing = ops[command.op].fencing
  BY <1>2 DEF Message, InFlight
<1> HIDE DEF command
<1>4. /\ worker'.op = command.op /\ worker'.ok = (command.fencing >= mem.fencing)
      /\ worker'.stage = IF command.fencing < mem.fencing \/ command.op \in mem.applied
                         THEN "report" ELSE "perform"
  BY <1>1
<1>5. Shape' BY <1>1, <1>2, <1>3
<1>6. InFlight' BY <1>1, <1>2 DEF InFlight
<1>7. mem.fencing \in Nat /\ ops[command.op].state \in {"pending", "applied", "refused"}
  BY <1>3 DEF State
<1>8. WorkerIsBacked'
  <2>1. CASE command.fencing < mem.fencing
    <3>0. ~(command.fencing >= mem.fencing) BY <2>1, <1>3, <1>7
    <3>1. ~worker'.ok /\ worker'.stage = "report" BY <2>1, <1>4, <3>0, Zenon
    <3> QED BY <3>1, <2>1, <1>1, <1>3, <1>4 DEF WorkerIsBacked, Guarded
  <2>2. CASE command.fencing >= mem.fencing /\ command.op \in mem.applied
    <3>1. worker'.stage = "report" BY <2>2, <1>4
    <3> QED BY <3>1, <2>2, <1>1, <1>3, <1>4 DEF WorkerIsBacked, Guarded, AppliedIsThere
  <2>3. CASE command.fencing >= mem.fencing /\ command.op \notin mem.applied
    <3>1. worker'.stage = "perform" BY <2>3, <1>3, <1>4, <1>7
    <3>2. command.op \in Effectful => ops[command.op].state = "pending"
      BY <2>3, <1>3, <1>7 DEF SettledIsGuarded, Guarded
    <3> QED BY <3>1, <3>2, <1>1, <1>3, <1>4 DEF WorkerIsBacked
  <2> QED BY <2>1, <2>2, <2>3, <1>3, <1>7
<1> QED BY <1>1, <1>5, <1>6, <1>8 DEF NeverMade, Tokens, SettledIsGuarded, AppliedIsThere, Guarded

(* Whatever performing a command leaves, a container that is absent was never
   started, a launch starts one only where there was none, and a preparation that
   succeeded left its content. *)
LEMMA PerformEffect ==
    ASSUME IInv, NEW left \in ContainerPhase, NEW ok \in BOOLEAN, Perform(left, ok)
    PROVE  /\ worker.op \in Op /\ worker.stage = "perform"
           /\ container' \in [Runs -> ContainerPhase]
           /\ starts' \in [Runs -> {0, 1}]
           /\ content' \subseteq Images /\ content \subseteq content'
           /\ NeverMade'
           /\ worker.op \in Launches =>
                /\ content' = content
                /\ \/ starts' = starts
                   \/ starts[worker.op.of] = 0 /\ starts' = [starts EXCEPT ![worker.op.of] = 1]
           /\ worker.op \in Stops => starts' = starts /\ content' = content
           /\ worker.op \in Preparations =>
                /\ starts' = starts
                /\ content' \in {content, content \cup {worker.op.of}}
                /\ ok => worker.op.of \in content'
<1> USE DEF IInv, Shape
<1>1. worker.op \in Op /\ worker.stage = "perform" BY DEF Perform, WorkerIsBacked
<1> DEFINE x == worker.op.of
<1>2. CASE worker.op \in Launches
  <2>1. x \in Runs /\ LaunchWorkload(x, left, ok) /\ worker.op \notin Stops \cup Preparations
    BY <1>1, <1>2, OpShape DEF Perform
  <2>2. CASE container[x] # "absent"
    BY <1>1, <2>1, <2>2 DEF LaunchWorkload, NeverMade
  <2>3. CASE container[x] = "absent"
    <3>1. starts[x] = 0 BY <2>1, <2>3 DEF NeverMade
    <3>2. container' = [container EXCEPT ![x] = left] /\ content' = content
      BY <2>1, <2>3 DEF LaunchWorkload
    <3>3. starts' = IF left = "running" THEN [starts EXCEPT ![x] = 1] ELSE starts
      BY <2>1, <2>3, <3>1 DEF LaunchWorkload
    <3> QED BY <1>1, <2>1, <3>1, <3>2, <3>3 DEF NeverMade
  <2> QED BY <2>2, <2>3
<1>3. CASE worker.op \in Stops
  <2>1. x \in Runs /\ StopWorkload(x, left, ok) /\ worker.op \notin Launches \cup Preparations
    BY <1>1, <1>3, OpShape DEF Perform
  <2> QED BY <1>1, <2>1 DEF StopWorkload, NeverMade
<1>4. CASE worker.op \in Preparations
  <2>1. x \in Images /\ PrepareImage(x, ok) /\ worker.op \notin Launches \cup Stops
    BY <1>1, <1>4, OpShape DEF Perform
  <2> QED BY <1>1, <2>1 DEF PrepareImage, NeverMade
<1> QED BY <1>1, <1>2, <1>3, <1>4 DEF Op

\* Carrying a command out, or failing half way, preserves the invariant.
LEMMA PerformKeeps ==
    ASSUME IInv, NEW left \in ContainerPhase, NEW ok \in BOOLEAN, Perform(left, ok)
    PROVE  IInv'
<1> USE DEF IInv, Shape
<1>1. /\ worker' = [worker EXCEPT !.stage = "performed", !.ok = ok]
      /\ UNCHANGED <<ops, issued, delivering, fencing, now, mem, stream>>
  BY DEF Perform, store, link
<1>2. worker'.op = worker.op /\ worker'.stage = "performed" /\ worker'.ok = ok BY <1>1
<1>3. worker' \in [stage : {"idle", "perform", "performed", "report"},
                   op : Op \cup {NoOp}, ok : BOOLEAN]
  BY Zenon, <1>1
<1>4. Shape' BY <1>1, <1>3, PerformEffect
<1>5. WorkerIsBacked' BY <1>1, <1>2, PerformEffect DEF WorkerIsBacked
<1>6. AppliedIsThere' BY <1>1, PerformEffect DEF AppliedIsThere
<1> QED BY <1>1, <1>4, <1>5, <1>6, PerformEffect DEF Tokens, InFlight, SettledIsGuarded, Guarded

\* Recording a command as applied preserves the invariant.
LEMMA MarkAppliedKeeps ==
    ASSUME IInv, MarkApplied
    PROVE  IInv'
<1> USE DEF IInv, Shape
<1>1. /\ worker.stage = "performed" /\ worker' = [worker EXCEPT !.stage = "report"]
      /\ mem' = IF worker.ok \/ MayLeaveEffectOnFailure(worker.op)
                THEN [mem EXCEPT !.applied = @ \cup {worker.op}] ELSE mem
      /\ UNCHANGED <<ops, issued, delivering, fencing, now, stream, container, starts, content>>
  BY DEF MarkApplied, store, link, daemon
<1>2. /\ worker.op \in Op /\ worker'.op = worker.op /\ worker'.stage = "report"
      /\ worker'.ok = worker.ok
  BY <1>1 DEF WorkerIsBacked
<1>3. /\ mem' \in State /\ mem'.fencing = mem.fencing /\ mem.applied \subseteq mem'.applied
      /\ mem'.applied \subseteq mem.applied \cup {worker.op}
      /\ worker.op \in Effectful => worker.op \in mem'.applied
      /\ worker.op \in mem'.applied \ mem.applied => worker.ok \/ worker.op \in Effectful
  BY Zenon, <1>1, <1>2, OpShape DEF State
<1>4. Shape' BY Zenon, <1>1, <1>3
<1>5. WorkerIsBacked' BY <1>1, <1>2, <1>3 DEF WorkerIsBacked, Guarded
<1>6. AppliedIsThere'
  <2>1. worker.op \in Preparations => worker.op \notin Effectful BY <1>2, OpShape DEF Effectful
  <2> QED BY <2>1, <1>1, <1>2, <1>3 DEF AppliedIsThere, WorkerIsBacked
<1> QED BY <1>1, <1>3, <1>4, <1>5, <1>6
      DEF NeverMade, Tokens, InFlight, SettledIsGuarded, Guarded

\* A result that is reported or lost preserves the invariant.
LEMMA ResultKeeps ==
    ASSUME IInv, ReportResult \/ ResultLost
    PROVE  IInv'
<1> USE DEF IInv, Shape
<1>1. CASE ReportResult
  <2>1. /\ worker.op \in Op /\ worker.stage = "report" /\ worker' = Idle
        /\ UNCHANGED <<issued, delivering, fencing, now, mem, stream, container, starts, content>>
    BY <1>1 DEF ReportResult, WorkerIsBacked, link, daemon
  <2>2. /\ ops' \in [Op -> [state : {"none", "pending", "applied", "refused"}, fencing : Nat]]
        /\ \A o \in Op : /\ ops'[o].fencing = ops[o].fencing
                         /\ o # worker.op => ops'[o] = ops[o]
                         /\ ops'[o].state = "none" => ops[o].state = "none"
    BY Zenon, <1>1, <2>1 DEF ReportResult, SettleOperation
  <2>3. Shape' BY <2>1, <2>2 DEF Idle
  <2>4. WorkerIsBacked' BY <2>1 DEF WorkerIsBacked, Idle
  <2>5. InFlight'
    <3>0. \A i \in DOMAIN stream : stream[i] \in Message BY ElementOfSeq
    <3>1. \A i \in DOMAIN stream : stream[i].op \in Op BY <3>0 DEF Message
    <3> QED BY <3>1, <2>1, <2>2 DEF InFlight
  <2>6. SettledIsGuarded'
    <3>1. worker.op \in Effectful => Guarded(worker.op) BY <2>1 DEF WorkerIsBacked
    <3> QED BY <3>1, <2>1, <2>2 DEF SettledIsGuarded, Guarded, Effectful, Op
  <2> QED BY <2>1, <2>2, <2>3, <2>4, <2>5, <2>6 DEF NeverMade, Tokens, AppliedIsThere
<1>2. CASE ResultLost
  BY <1>2 DEF ResultLost, Idle, store, link, daemon, NeverMade, Tokens, InFlight,
      SettledIsGuarded, WorkerIsBacked, AppliedIsThere, Guarded
<1> QED BY <1>1, <1>2

\* A workload that exits preserves the invariant.
LEMMA ExitKeeps ==
    ASSUME IInv, NEW r \in Runs, WorkloadExits(r)
    PROVE  IInv'
BY DEF IInv, Shape, WorkloadExits, store, link, ContainerPhase, NeverMade, Tokens, InFlight,
    SettledIsGuarded, WorkerIsBacked, AppliedIsThere, Guarded

\* Every step preserves the invariant.
LEMMA StepKeeps == IInv /\ [Next]_vars => IInv'
<1> SUFFICES ASSUME IInv, [Next]_vars PROVE IInv' OBVIOUS
<1>1. CASE UNCHANGED vars BY <1>1, ReportingKeeps
<1>2. CASE \E o \in Op : Dispatch(o) \/ Deliver(o) BY <1>2, DispatchKeeps, DeliverKeeps
<1>3. CASE RegisterSession \/ Start \/ Reported \/ FlushEvent \/ FlushFails \/ SessionDrops
  BY <1>3, ReportingKeeps
<1>4. CASE ReadPending BY <1>4, ReadPendingKeeps
<1>5. CASE ServeReturns \/ Crash BY <1>5, EndingKeeps
<1>6. CASE StateLost BY <1>6, StateLostKeeps
<1>7. CASE TakeCommand BY <1>7, TakeCommandKeeps
<1>8. CASE MarkApplied BY <1>8, MarkAppliedKeeps
<1>9. CASE ReportResult \/ ResultLost BY <1>9, ResultKeeps
<1>10. CASE \E left \in {"absent", "created", "running", "exited"}, ok \in BOOLEAN : Perform(left, ok)
  BY <1>10, PerformKeeps DEF ContainerPhase
<1>11. CASE \E r \in Runs : Told(r) \/ WorkloadExits(r) \/ \E arrived \in BOOLEAN : Spooled(r, arrived)
  BY Zenon, <1>11, ReportsKeep, ExitKeeps
<1>12. CASE ClearSpool BY <1>12, ClearSpoolKeeps
<1>13. CASE \E first, arrived \in BOOLEAN : HeartbeatSpooled(first, arrived)
  BY <1>13, HeartbeatKeeps
<1>14. ASSUME NEW at \in 0..now, ClockSetBack(at) PROVE IInv'
  <2>1. now' = at /\ UNCHANGED <<mem, ops, issued, fencing, stream, delivering, worker, daemon>>
    BY <1>14 DEF ClockSetBack, store, link
  <2>2. now \in Nat /\ mem \in State BY DEF IInv, Shape
  <2>3. now' \in Nat BY <2>1, <2>2
  <2> QED BY Zenon, <2>1, <2>2, <2>3, MemoryKeeps
<1> QED BY <1>1, <1>2, <1>3, <1>4, <1>5, <1>6, <1>7, <1>8, <1>9, <1>10, <1>11, <1>12, <1>13, <1>14
      DEF Next

-----------------------------------------------------------------------------
(* What the agent told is recorded.  A container only moves on, from absent
   through created and running to exited; Rank orders those phases. *)
Rank(p) == IF p = "exited" THEN 3 ELSE IF p = "running" THEN 2 ELSE IF p = "created" THEN 1 ELSE 0

Row == [phase : ContainerPhase, at : Nat]

(* The identity of e is spent, e is dated no later than now, and the container it
   is about has not gone back since. *)
Dated(e) ==
    /\ e.id <= mem.seq /\ e.at <= now
    /\ e.run \in Runs => Rank(e.phase) <= Rank(container[e.run])

(* Writing e over the row of its Run never takes that row back. *)
Advances(e) ==
    (e.run \in Runs /\ e.at >= workload[e.run].at) => Rank(workload[e.run].phase) <= Rank(e.phase)

(* Two events of one Run say as much in the order they are dated. *)
InOrder(e, f) ==
    (e.run \in Runs /\ e.run = f.run /\ e.at <= f.at) => Rank(e.phase) <= Rank(f.phase)

(* While the state file survives and the clock goes forward, an identity the
   agent has not used is not recorded, no row is newer than the machine's clock
   or ahead of the container, none is behind what the agent remembers telling,
   and flushing the spool in any order it is interrupted and repeated never takes
   one back. *)
Remembered ==
    /\ \A id \in recorded : id \in Nat /\ id <= mem.seq
    /\ \A r \in Runs : /\ workload[r].at <= now
                       /\ Rank(mem.reported[r]) <= Rank(workload[r].phase)
                       /\ Rank(workload[r].phase) <= Rank(container[r])
    /\ \A i \in DOMAIN mem.spool : Dated(mem.spool[i]) /\ Advances(mem.spool[i])
    /\ \A i, j \in DOMAIN mem.spool : InOrder(mem.spool[i], mem.spool[j])

RInv ==
    /\ losses \in Nat /\ setbacks \in Nat /\ flushed \in Nat
    /\ workload \in [Runs -> Row]
    /\ losses = 0 /\ setbacks = 0 => Remembered

\* The rank of a phase is one of four.
LEMMA RankNat == \A p : Rank(p) \in 0..3
BY DEF Rank

\* The initial state satisfies the invariant of the recorded phases.
LEMMA RInvInit == Init => RInv
BY DEF Init, RInv, Row, Remembered, StateFile, ContainerPhase, Rank

\* Recording an observation keeps the rows well formed.
LEMMA RecordShape ==
    ASSUME NEW e \in Observed, workload \in [Runs -> Row], RecordEvent(e)
    PROVE  workload' \in [Runs -> Row]
BY DEF RecordEvent, Row, Observed

(* No step moves a container back. *)
LEMMA ContainersMoveOn ==
    ASSUME IInv, NEW left \in ContainerPhase, NEW ok \in BOOLEAN, Perform(left, ok), NEW r \in Runs
    PROVE  Rank(container[r]) <= Rank(container'[r])
<1> USE DEF IInv, Shape
<1>1. worker.op \in Op BY PerformEffect
<1> DEFINE x == worker.op.of
<1>2. CASE worker.op \in Launches
  <2>1. x \in Runs /\ LaunchWorkload(x, left, ok) BY <1>1, <1>2, OpShape DEF Perform
  <2> QED BY <2>1 DEF LaunchWorkload, Rank
<1>3. CASE worker.op \in Stops
  <2>1. x \in Runs /\ StopWorkload(x, left, ok) BY <1>1, <1>3, OpShape DEF Perform
  <2> QED BY <2>1 DEF StopWorkload, Rank, ContainerPhase
<1>4. CASE worker.op \in Preparations
  <2>1. PrepareImage(x, ok) BY <1>1, <1>4, OpShape DEF Perform
  <2> QED BY <2>1 DEF PrepareImage, Rank
<1> QED BY <1>1, <1>2, <1>3, <1>4 DEF Op

(* A step that records nothing, and of the memory the reports are about at most
   empties the spool. *)
LEMMA QuietStep ==
    ASSUME IInv, RInv, UNCHANGED <<recorded, workload, now, losses, setbacks>>, flushed' \in Nat,
           mem'.seq = mem.seq, mem'.reported = mem.reported, mem'.spool \in {mem.spool, <<>>},
           container' \in [Runs -> ContainerPhase],
           \A r \in Runs : Rank(container[r]) <= Rank(container'[r])
    PROVE  RInv'
<1>1. SUFFICES ASSUME losses = 0, setbacks = 0 PROVE Remembered' BY DEF RInv
<1>2. Remembered BY <1>1 DEF RInv
<1>3. /\ (\A id \in recorded : id \in Nat /\ id <= mem.seq)'
      /\ (\A r \in Runs : /\ workload[r].at <= now
                          /\ Rank(mem.reported[r]) <= Rank(workload[r].phase)
                          /\ Rank(workload[r].phase) <= Rank(container[r]))'
  BY <1>2, RankNat DEF Remembered
<1>4. CASE mem'.spool = <<>> BY <1>3, <1>4 DEF Remembered
<1>5. CASE mem'.spool = mem.spool
  <2>1. ASSUME NEW i \in DOMAIN mem.spool PROVE Dated(mem.spool[i])' /\ Advances(mem.spool[i])'
    <3>1. PICK f : f = mem.spool[i] /\ f = mem'.spool[i] BY <1>5
    <3>2. Dated(f) /\ Advances(f) BY Zenon, <3>1, <1>2 DEF Remembered
    <3>3. f.run \in Runs => Rank(f.phase) <= Rank(container'[f.run])
      <4> SUFFICES ASSUME f.run \in Runs PROVE Rank(f.phase) <= Rank(container'[f.run]) OBVIOUS
      <4>1. PICK was, is : was = container[f.run] /\ is = container'[f.run] OBVIOUS
      <4>2. Rank(f.phase) <= Rank(was) /\ Rank(was) <= Rank(is) BY <3>2, <4>1 DEF Dated
      <4>3. Rank(f.phase) \in Nat /\ Rank(was) \in Nat /\ Rank(is) \in Nat BY DEF Rank
      <4> QED BY <4>1, <4>2, <4>3
    <3>4. Dated(mem.spool[i])' BY <3>1, <3>2, <3>3 DEF Dated
    <3>5. Advances(mem.spool[i])' BY <3>1, <3>2 DEF Advances
    <3> QED BY <3>4, <3>5
  <2>2. \A i, j \in DOMAIN mem.spool : InOrder(mem.spool[i], mem.spool[j]) BY <1>2 DEF Remembered
  <2> QED BY <1>3, <1>5, <2>1, <2>2 DEF Remembered, InOrder
<1> QED BY <1>4, <1>5

(* A step that makes the next event, e, of what the container is now: sent and
   remembered as told, or spooled whether or not it arrived. *)
LEMMA FreshStep ==
    ASSUME IInv, RInv, NEW e \in Observed, e.id = mem.seq + 1, e.at = now + 1,
           e.run \in Runs => e.phase = container[e.run],
           mem'.seq = mem.seq + 1, now' = now + 1, UNCHANGED <<losses, setbacks, flushed, container>>,
           RecordEvent(e) \/ UNCHANGED <<recorded, workload>>,
           mem'.spool \in {mem.spool, Append(mem.spool, e)},
           \/ mem'.reported = mem.reported
           \/ /\ RecordEvent(e) /\ e.run \in Runs
              /\ mem'.reported = [mem.reported EXCEPT ![e.run] = container[e.run]]
    PROVE  RInv'
<1>1. workload' \in [Runs -> Row]
  <2>1. workload \in [Runs -> Row] BY DEF RInv
  <2>2. CASE RecordEvent(e) BY <2>1, <2>2, RecordShape
  <2> QED BY <2>1, <2>2
<1>2. SUFFICES ASSUME losses = 0, setbacks = 0 PROVE Remembered' BY <1>1 DEF RInv
<1>3. Remembered /\ workload \in [Runs -> Row] BY <1>2 DEF RInv
<1>4. /\ mem.seq \in Nat /\ now \in Nat /\ mem.spool \in Seq(Observed)
      /\ mem.reported \in [Runs -> ContainerPhase]
      /\ \A r \in Runs : workload[r].at \in Nat
  BY <1>3 DEF IInv, Shape, State, Row
<1>5. e.id \notin recorded BY <1>3, <1>4 DEF Remembered
<1>6. /\ \A r \in Runs : \/ workload'[r] = workload[r]
                         \/ /\ r = e.run /\ workload'[r].at = now + 1
                            /\ workload'[r].phase = container[r]
      /\ RecordEvent(e) /\ e.run \in Runs => workload'[e.run].phase = container[e.run]
      /\ recorded' \subseteq recorded \cup {e.id}
  <2>1. CASE UNCHANGED <<recorded, workload>> /\ ~RecordEvent(e) BY <2>1
  <2>2. CASE RecordEvent(e)
    <3>1. e.run \in Runs => e.at >= workload[e.run].at BY <1>3, <1>4 DEF Remembered
    <3> QED BY <2>2, <3>1, <1>3, <1>5 DEF RecordEvent
  <2> QED BY <2>1, <2>2
<1>7. (\A id \in recorded : id \in Nat /\ id <= mem.seq)'
  BY <1>3, <1>4, <1>6 DEF Remembered
<1>8. ASSUME NEW r \in Runs
      PROVE  /\ workload'[r].at <= now'
             /\ Rank(mem'.reported[r]) <= Rank(workload'[r].phase)
             /\ Rank(workload'[r].phase) <= Rank(container'[r])
  <2>1. workload'[r].at <= now'
    <3>1. workload[r].at <= now BY <1>3 DEF Remembered
    <3> QED BY <3>1, <1>4, <1>6
  <2>2. Rank(workload[r].phase) <= Rank(workload'[r].phase)
        /\ Rank(workload'[r].phase) <= Rank(container[r])
    <3>1. PICK was, is, c : /\ was = workload[r].phase /\ is = workload'[r].phase
                            /\ c = container[r]
      OBVIOUS
    <3>2. Rank(was) <= Rank(c) BY <3>1, <1>3 DEF Remembered
    <3>3. is = was \/ is = c BY <3>1, <1>6
    <3>4. Rank(was) \in Nat /\ Rank(c) \in Nat BY DEF Rank
    <3>5. Rank(was) <= Rank(is) /\ Rank(is) <= Rank(c) BY <3>2, <3>3, <3>4
    <3> QED BY <3>1, <3>5
  <2>3. mem'.reported[r] = mem.reported[r] \/ mem'.reported[r] = workload'[r].phase
    BY <1>4, <1>6
  <2>4. Rank(mem.reported[r]) <= Rank(workload[r].phase) BY <1>3 DEF Remembered
  <2>5. PICK a, b, was, is : /\ a = mem.reported[r] /\ b = mem'.reported[r]
                             /\ was = workload[r].phase /\ is = workload'[r].phase
    OBVIOUS
  <2>6. Rank(a) \in Nat /\ Rank(was) \in Nat /\ Rank(is) \in Nat BY DEF Rank
  <2>7. Rank(a) <= Rank(was) /\ Rank(was) <= Rank(is) /\ (b = a \/ b = is)
    BY <2>2, <2>3, <2>4, <2>5
  <2>8. Rank(b) <= Rank(is) BY <2>6, <2>7
  <2> QED BY <2>1, <2>2, <2>5, <2>8
<1> DEFINE Old(i) == i \in DOMAIN mem.spool /\ mem'.spool[i] = mem.spool[i]
<1>9. \A i \in DOMAIN mem'.spool : Old(i) \/ mem'.spool[i] = e
  <2>1. PICK s, q : s \in Seq(Observed) /\ s = mem.spool /\ q = mem'.spool BY <1>4
  <2>2. q = s \/ q = Append(s, e) BY <2>1
  <2>3. \A i \in DOMAIN q : (i \in DOMAIN s /\ q[i] = s[i]) \/ q[i] = e
    <3>1. CASE q = s BY <3>1
    <3>2. CASE q = Append(s, e)
      <4>1. Len(s) \in Nat /\ DOMAIN s = 1..Len(s) BY <2>1, LenProperties
      <4>2. DOMAIN q = 1..(Len(s) + 1) /\ q[Len(s) + 1] = e /\ \A i \in 1..Len(s) : q[i] = s[i]
        BY <2>1, <3>2, <4>1
      <4> QED BY <4>1, <4>2
    <3> QED BY <2>2, <3>1, <3>2
  <2> QED BY <2>1, <2>3
<1>10. ASSUME NEW i \in DOMAIN mem.spool
       PROVE  /\ mem.spool[i] \in Observed
              /\ mem.spool[i].id \in Nat /\ mem.spool[i].at \in Nat
              /\ Dated(mem.spool[i]) /\ Advances(mem.spool[i])
  <2>1. mem.spool[i] \in Observed BY <1>4, ElementOfSeq
  <2> QED BY <2>1, <1>3 DEF Remembered, Observed
<1>11. ASSUME NEW i \in DOMAIN mem'.spool
       PROVE  Dated(mem.spool[i])' /\ Advances(mem.spool[i])'
  <2>1. CASE Old(i)
    <3>1. Dated(mem.spool[i])'
      <4>1. PICK f \in Observed : f = mem.spool[i] /\ mem'.spool[i] = f
        BY <2>1, <1>10
      <4>2. f.id \in Nat /\ f.at \in Nat /\ Dated(f) BY <4>1, <2>1, <1>10
      <4>3. f.id <= mem.seq + 1 /\ f.at <= now + 1 BY <4>2, <1>4 DEF Dated
      <4>4. f.run \in Runs => Rank(f.phase) <= Rank(container'[f.run]) BY <4>2 DEF Dated
      <4> QED BY <4>1, <4>3, <4>4 DEF Dated
    <3>2. Advances(mem.spool[i])'
      <4>1. PICK f \in Observed : f = mem.spool[i] /\ mem'.spool[i] = f
        BY <2>1, <1>10
      <4>2. f.at \in Nat /\ f.at <= now /\ Advances(f) BY <4>1, <2>1, <1>10 DEF Dated, Observed
      <4>3. ASSUME f.run \in Runs, f.at >= workload'[f.run].at
            PROVE  Rank(workload'[f.run].phase) <= Rank(f.phase)
        <5>1. workload'[f.run] = workload[f.run] BY <4>2, <4>3, <1>4, <1>6
        <5> QED BY <5>1, <4>2, <4>3 DEF Advances
      <4> QED BY <4>1, <4>3 DEF Advances
    <3> QED BY <3>1, <3>2
  <2>2. CASE mem'.spool[i] = e
    <3>1. e.run \in Runs => Rank(workload'[e.run].phase) <= Rank(e.phase) BY <1>8
    <3>2. Dated(mem.spool[i])'
      <4>1. e.run \in Runs => Rank(e.phase) <= Rank(container[e.run])
        <5>1. Rank(e.phase) \in Nat BY DEF Rank
        <5> QED BY <5>1
      <4> QED BY <2>2, <1>4, <4>1 DEF Dated
    <3> QED BY <2>2, <3>1, <3>2 DEF Advances
  <2> QED BY <2>1, <2>2, <1>9
<1>12. ASSUME NEW i \in DOMAIN mem'.spool, NEW j \in DOMAIN mem'.spool
       PROVE  InOrder(mem'.spool[i], mem'.spool[j])
  <2>1. CASE Old(i) /\ Old(j) BY <2>1, <1>3 DEF Remembered, InOrder
  <2>2. CASE Old(i) /\ mem'.spool[j] = e BY <2>2, <1>10 DEF InOrder, Dated
  <2>3. CASE mem'.spool[i] = e /\ Old(j)
    <3>1. mem.spool[j].at \in Nat /\ mem.spool[j].at <= now BY <2>3, <1>10 DEF Dated
    <3>2. ~(e.at <= mem'.spool[j].at) BY <3>1, <2>3, <1>4
    <3> QED BY <3>2, <2>3 DEF InOrder
  <2>4. CASE mem'.spool[i] = e /\ mem'.spool[j] = e 
    <3>1. Rank(e.phase) \in Nat BY DEF Rank
    <3> QED BY <2>4, <3>1 DEF InOrder
  <2> QED BY <2>1, <2>2, <2>3, <2>4, <1>9
<1> QED BY <1>7, <1>8, <1>11, <1>12 DEF Remembered, InOrder

(* Flushing writes an older event over a row only when the row is older still. *)
LEMMA FlushStep ==
    ASSUME IInv, RInv, FlushEvent
    PROVE  RInv'
<1>1. /\ flushed \in Nat /\ flushed < Len(mem.spool) /\ mem.spool \in Seq(Observed)
      /\ workload \in [Runs -> Row]
  BY DEF FlushEvent, RInv, IInv, Shape, State
<1>2. flushed + 1 \in DOMAIN mem.spool BY <1>1
<1>3. PICK e \in Observed : e = mem.spool[flushed + 1] BY <1>1, <1>2, ElementOfSeq
<1>4. /\ RecordEvent(e) /\ flushed' \in Nat
      /\ UNCHANGED <<mem, container, now, losses, setbacks>>
  BY <1>1, <1>3 DEF FlushEvent, daemon
<1>5. workload' \in [Runs -> Row] BY <1>1, <1>4, RecordShape
<1>6. SUFFICES ASSUME losses = 0, setbacks = 0 PROVE Remembered' BY <1>4, <1>5 DEF RInv
<1>7. Remembered BY <1>6 DEF RInv
<1>8. Dated(e) /\ Advances(e) /\ e.id \in Nat /\ e.at \in Nat
  BY <1>2, <1>3, <1>7 DEF Remembered, Observed
<1>9. \A i \in DOMAIN mem.spool : InOrder(e, mem.spool[i]) BY <1>2, <1>3, <1>7 DEF Remembered
<1>10. \A r \in Runs : \/ workload'[r] = workload[r]
                       \/ /\ r = e.run /\ e.at >= workload[r].at
                          /\ workload'[r].at = e.at /\ workload'[r].phase = e.phase
  BY <1>1, <1>4 DEF RecordEvent
<1>11. (\A id \in recorded : id \in Nat /\ id <= mem.seq)'
  BY <1>4, <1>7, <1>8 DEF RecordEvent, Remembered, Dated
<1>12. \A r \in Runs : Rank(workload[r].phase) <= Rank(workload'[r].phase)
  BY <1>8, <1>10, RankNat DEF Advances
<1>13. (\A r \in Runs : /\ workload[r].at <= now
                        /\ Rank(mem.reported[r]) <= Rank(workload[r].phase)
                        /\ Rank(workload[r].phase) <= Rank(container[r]))'
  <2>1. SUFFICES ASSUME NEW r \in Runs
                 PROVE  /\ workload'[r].at <= now'
                        /\ Rank(mem'.reported[r]) <= Rank(workload'[r].phase)
                        /\ Rank(workload'[r].phase) <= Rank(container'[r])
    OBVIOUS
  <2>2. PICK a, was, is, c : /\ a = mem.reported[r] /\ c = container[r]
                             /\ was = workload[r].phase /\ is = workload'[r].phase
    OBVIOUS
  <2>3. Rank(a) \in Nat /\ Rank(was) \in Nat /\ Rank(is) \in Nat BY DEF Rank
  <2>4. Rank(a) <= Rank(was) /\ Rank(was) <= Rank(is) BY <2>2, <1>7, <1>12 DEF Remembered
  <2>5. Rank(a) <= Rank(is) BY <2>3, <2>4
  <2>6. Rank(is) <= Rank(c) BY <2>2, <1>7, <1>8, <1>10 DEF Remembered, Dated
  <2>7. workload'[r].at <= now BY <1>7, <1>8, <1>10 DEF Remembered, Dated
  <2> QED BY <1>4, <2>2, <2>5, <2>6, <2>7
<1>14. (\A i \in DOMAIN mem.spool : Dated(mem.spool[i]) /\ Advances(mem.spool[i]))'
  <2>1. SUFFICES ASSUME NEW i \in DOMAIN mem.spool
                 PROVE  Dated(mem.spool[i])' /\ Advances(mem.spool[i])'
    BY <1>4
  <2>2. Dated(mem.spool[i])' BY <1>4, <1>7 DEF Remembered, Dated
  <2>3. PICK f : f = mem.spool[i] /\ mem'.spool[i] = f BY <1>4
  <2>4. Advances(f) /\ InOrder(e, f) BY <2>3, <1>7, <1>9 DEF Remembered
  <2>5. Advances(mem.spool[i])' BY <2>3, <2>4, <1>10 DEF Advances, InOrder
  <2> QED BY <2>2, <2>5
<1> QED BY <1>4, <1>7, <1>11, <1>13, <1>14 DEF Remembered, InOrder

\* Every step preserves the invariant of the recorded phases.
LEMMA RInvStep == IInv /\ RInv /\ [Next]_vars => RInv'
<1> SUFFICES ASSUME IInv, RInv, [Next]_vars PROVE RInv' OBVIOUS
<1>0. /\ container \in [Runs -> ContainerPhase] /\ flushed \in Nat
      /\ mem \in State /\ mem.spool \in Seq(Observed) /\ mem.seq \in Nat /\ now \in Nat
      /\ \A r \in Runs : Rank(container[r]) <= Rank(container[r])
  <2>1. \A r \in Runs : Rank(container[r]) <= Rank(container[r]) BY DEF Rank
  <2> QED BY <2>1 DEF IInv, Shape, RInv, State
<1>1. CASE \/ UNCHANGED vars
           \/ \E o \in Op : Dispatch(o) \/ Deliver(o)
           \/ ReadPending \/ RegisterSession \/ Start \/ FlushFails
           \/ SessionDrops \/ ServeReturns \/ TakeCommand \/ ReportResult \/ ResultLost \/ Crash
  <2>1. UNCHANGED <<recorded, workload, now, losses, setbacks, flushed, mem, container>>
    BY Zenon, <1>1 DEF vars, Dispatch, Deliver, ReadPending, RegisterSession, Start, FlushFails,
      SessionDrops, ServeReturns, TakeCommand, ReportResult, ResultLost, Crash, store, daemon
  <2> QED BY <1>0, <2>1, QuietStep
<1>2. CASE Reported
  <2>1. UNCHANGED <<recorded, workload, now, losses, setbacks, mem, container>> /\ flushed' = 0
    BY <1>2 DEF Reported, store, daemon
  <2> QED BY Zenon, <1>0, <2>1, QuietStep
<1>3. CASE ClearSpool
  <2>1. /\ UNCHANGED <<recorded, workload, now, losses, setbacks, flushed, container>>
        /\ mem'.seq = mem.seq /\ mem'.reported = mem.reported /\ mem'.spool = <<>>
    BY <1>0, <1>3 DEF ClearSpool, store, daemon, State
  <2> QED BY <1>0, <2>1, QuietStep
<1>4. CASE MarkApplied
  <2>1. /\ UNCHANGED <<recorded, workload, now, losses, setbacks, flushed, container>>
        /\ mem'.seq = mem.seq /\ mem'.reported = mem.reported /\ mem'.spool = mem.spool
    BY <1>0, <1>4 DEF MarkApplied, store, daemon, State
  <2> QED BY <1>0, <2>1, QuietStep
<1>5. ASSUME NEW r \in Runs, WorkloadExits(r) PROVE RInv'
  <2>1. /\ UNCHANGED <<recorded, workload, now, losses, setbacks, flushed, mem>>
        /\ container[r] = "running" /\ container' = [container EXCEPT ![r] = "exited"]
    BY <1>5 DEF WorkloadExits, store
  <2>2. /\ container' \in [Runs -> ContainerPhase]
        /\ \A s \in Runs : Rank(container[s]) <= Rank(container'[s])
    BY <1>0, <2>1 DEF ContainerPhase, Rank
  <2> QED BY <1>0, <2>1, <2>2, QuietStep
<1>6. ASSUME NEW left \in ContainerPhase, NEW ok \in BOOLEAN, Perform(left, ok) PROVE RInv'
  <2>1. UNCHANGED <<recorded, workload, now, losses, setbacks, flushed, mem>>
    BY <1>6 DEF Perform, store
  <2>2. container' \in [Runs -> ContainerPhase] BY <1>6, PerformEffect
  <2>3. \A r \in Runs : Rank(container[r]) <= Rank(container'[r]) BY <1>6, ContainersMoveOn
  <2> QED BY <1>0, <2>1, <2>2, <2>3, QuietStep
<1>7. CASE FlushEvent BY <1>7, FlushStep
<1>8. CASE StateLost
  <2>1. losses' = losses + 1 /\ UNCHANGED <<flushed, workload, setbacks>> BY <1>8 DEF StateLost
  <2> QED BY <2>1 DEF RInv
<1>9. ASSUME NEW r \in Runs, Told(r) PROVE RInv'
  <2>0. Observation(r) \in Observed BY <1>0 DEF Observation, Observed
  <2>1. PICK e \in Observed : e = Observation(r) BY <2>0
  <2>2. e.id = mem.seq + 1 /\ e.at = now + 1 /\ e.run = r /\ e.phase = container[r]
    BY <2>1 DEF Observation
  <2>3. /\ RecordEvent(e) /\ now' = now + 1 /\ UNCHANGED <<losses, setbacks, flushed, container>>
    BY <1>9, <2>1 DEF Told, daemon
  <2>4. /\ mem'.seq = mem.seq + 1 /\ mem'.spool = mem.spool
        /\ mem'.reported = [mem.reported EXCEPT ![r] = container[r]]
    BY <1>0, <1>9 DEF Told, State
  <2> QED BY <2>2, <2>3, <2>4, FreshStep
<1>10. ASSUME NEW r \in Runs, NEW arrived \in BOOLEAN, Spooled(r, arrived) PROVE RInv'
  <2>0. Observation(r) \in Observed BY <1>0 DEF Observation, Observed
  <2>1. PICK e \in Observed : e = Observation(r) BY <2>0
  <2>2. e.id = mem.seq + 1 /\ e.at = now + 1 /\ e.run = r /\ e.phase = container[r]
    BY <2>1 DEF Observation
  <2>3. /\ RecordEvent(e) \/ UNCHANGED <<recorded, workload>>
        /\ now' = now + 1 /\ UNCHANGED <<losses, setbacks, flushed, container>>
    BY <1>10, <2>1 DEF Spooled, daemon
  <2>4. /\ mem'.seq = mem.seq + 1 /\ mem'.reported = mem.reported
        /\ mem'.spool = Append(mem.spool, e)
    BY <1>0, <1>10, <2>1 DEF Spooled, State
  <2> QED BY <2>2, <2>3, <2>4, FreshStep
<1>11. ASSUME NEW first \in BOOLEAN, NEW arrived \in BOOLEAN, HeartbeatSpooled(first, arrived)
       PROVE RInv'
  <2>0. Heartbeat \in Observed BY <1>0 DEF Heartbeat, Observed, ContainerPhase
  <2>1. PICK e \in Observed : e = Heartbeat BY <2>0
  <2>2. e.id = mem.seq + 1 /\ e.at = now + 1 /\ e.run \notin Runs
    BY <2>1, NodeAgentConstants DEF Heartbeat
  <2>3. /\ RecordEvent(e) \/ UNCHANGED <<recorded, workload>>
        /\ now' = now + 1 /\ UNCHANGED <<losses, setbacks, flushed, container>>
    BY <1>11, <2>1 DEF HeartbeatSpooled, daemon
  <2>4. /\ mem'.seq = mem.seq + 1 /\ mem'.reported = mem.reported
        /\ mem'.spool = Append(mem.spool, e)
    BY <1>0, <1>11, <2>1 DEF HeartbeatSpooled, State
  <2> QED BY <2>2, <2>3, <2>4, FreshStep
<1>12. ASSUME NEW at \in 0..now, ClockSetBack(at) PROVE RInv'
  <2>1. setbacks' = setbacks + 1 /\ UNCHANGED <<flushed, workload, losses>>
    BY <1>12 DEF ClockSetBack, store
  <2> QED BY <2>1 DEF RInv
<1> QED BY <1>1, <1>2, <1>3, <1>4, <1>5, <1>6, <1>7, <1>8, <1>9, <1>10, <1>11, <1>12
      DEF Next, ContainerPhase

-----------------------------------------------------------------------------
(* The refinement: took and command of NodeCommands, as NodeAgent maps them. *)
command == [o \in Op |-> ops[o].state]
took == [o \in Launches \cup Preparations |->
            IF o.kind = "launch" THEN starts[o.of] ELSE IF o.of \in content THEN 1 ELSE 0]

\* The initial state is one of the abstract specification.
LEMMA InitImplements == Init => Effects!CInit
BY OpShape DEF Init, Effects!CInit, Effects!Op, Op

(* A step that leaves the operations and the daemon's history alone is no step
   of the abstract specification. *)
LEMMA Silent ==
    ASSUME UNCHANGED <<ops, starts, content>>
    PROVE  UNCHANGED Effects!cvars
BY DEF Effects!cvars

\* A dispatch is an issue of the abstract specification.
LEMMA DispatchImplements ==
    ASSUME IInv, NEW o \in Op, Dispatch(o)
    PROVE  Effects!Issue(o)
<1>1. ops' = [ops EXCEPT ![o] = [state |-> "pending", fencing |-> fencing]]
      /\ UNCHANGED <<starts, content>>
  BY DEF Dispatch, daemon
<1>2. ops[o].state = "none" \/ (o \in Preparations /\ ops[o].state = "refused")
  BY OpShape DEF Dispatch, Reissuable, MayLeaveEffectOnFailure, Op
<1>3. command' = [command EXCEPT ![o] = "pending"] BY Zenon, <1>1 DEF command, IInv, Shape
<1>4. UNCHANGED took BY <1>1 DEF took
<1> QED BY <1>2, <1>3, <1>4 DEF Effects!Issue, command, took

\* A reported result settles the operation once, or is a stutter.
LEMMA ReportImplements ==
    ASSUME IInv, ReportResult
    PROVE  \/ UNCHANGED Effects!cvars
           \/ \E outcome \in {"applied", "refused"} : Effects!Settle(worker.op, outcome)
<1>1. /\ worker.op \in Op /\ worker.stage = "report" /\ UNCHANGED <<starts, content>>
      /\ SettleOperation(worker.op, worker.ok)
  BY DEF ReportResult, IInv, WorkerIsBacked, daemon
<1>2. CASE ops[worker.op].state # "pending" BY <1>1, <1>2, Silent DEF SettleOperation
<1>3. CASE ops[worker.op].state = "pending"
  <2>1. PICK outcome \in {"applied", "refused"} :
           /\ outcome = IF worker.ok THEN "applied" ELSE "refused"
           /\ ops' = [ops EXCEPT ![worker.op].state = outcome]
    BY Zenon, <1>1, <1>3 DEF SettleOperation
  <2>2. command' = [command EXCEPT ![worker.op] = outcome]
    BY Zenon, <1>1, <2>1 DEF command, IInv, Shape
  <2>3. UNCHANGED took BY <1>1 DEF took
  <2>4. (worker.op \in Preparations /\ outcome = "applied") => took[worker.op] = 1
    BY <1>1, <2>1, OpShape DEF took, IInv, WorkerIsBacked
  <2> QED BY Zenon, <1>3, <1>1, <2>2, <2>3, <2>4 DEF Effects!Settle, command, took
<1> QED BY <1>2, <1>3

\* An effect on the daemon is an abstract effect, or a stutter.
LEMMA PerformImplements ==
    ASSUME IInv, NEW left \in ContainerPhase, NEW ok \in BOOLEAN, Perform(left, ok)
    PROVE  \/ UNCHANGED Effects!cvars
           \/ /\ worker.op \in Launches \cup Preparations
              /\ Effects!TakeEffect(worker.op)
<1> DEFINE w == worker.op
<1>1. w \in Op /\ worker.stage = "perform" /\ ops' = ops /\ ops[w].state # "none"
  BY Zenon, PerformEffect DEF Perform, store, IInv, WorkerIsBacked
<1>2. UNCHANGED command BY <1>1 DEF command
<1>3. CASE w \in Launches /\ starts' # starts
  <2>1. starts[w.of] = 0 /\ starts' = [starts EXCEPT ![w.of] = 1] /\ content' = content
    BY <1>3, PerformEffect
  <2>2. ops[w].state = "pending" BY <1>1, <1>3 DEF IInv, WorkerIsBacked, Effectful
  <2>3. \A o \in Launches : o.of = w.of => o = w BY <1>3, OpShape
  <2>4. took' = [took EXCEPT ![w] = 1]
    BY Zenon, <1>3, <2>1, <2>3, OpShape DEF took, IInv, Shape, Op
  <2>5. took[w] = 0 BY <1>1, <1>3, <2>1, OpShape DEF took
  <2>6. command[w] = "pending" BY <1>1, <2>2 DEF command
  <2> QED BY <1>2, <1>3, <2>4, <2>5, <2>6 DEF Effects!TakeEffect, command, took
<1>4. CASE w \in Preparations /\ content' # content
  <2>1. starts' = starts /\ content' = content \cup {w.of} /\ w.of \notin content
    BY <1>4, PerformEffect
  <2>2. \A o \in Preparations : o.of = w.of => o = w BY <1>4, OpShape
  <2>3. took' = [took EXCEPT ![w] = 1]
    BY Zenon, <1>4, <2>1, <2>2, OpShape DEF took, Op
  <2>4. took[w] = 0 BY <1>1, <1>4, <2>1, OpShape DEF took
  <2>5. command[w] # "none" BY <1>1 DEF command
  <2> QED BY Zenon, <1>2, <1>4, <2>3, <2>4, <2>5 DEF Effects!TakeEffect, command, took
<1>5. CASE UNCHANGED <<starts, content>> BY <1>1, <1>5, Silent
<1> QED BY <1>1, <1>3, <1>4, <1>5, PerformEffect DEF Op

\* Every step is a step of the abstract specification, or a stutter.
LEMMA StepImplements == IInv /\ [Next]_vars => [Effects!CNext]_Effects!cvars
<1> SUFFICES ASSUME IInv, [Next]_vars PROVE Effects!CNext \/ UNCHANGED Effects!cvars OBVIOUS
<1> USE DEF Effects!Op, Op
<1>1. CASE UNCHANGED vars
  <2>1. UNCHANGED <<ops, starts, content>> BY <1>1 DEF vars, store, daemon
  <2> QED BY <2>1, Silent
<1>2. CASE \E o \in Op : Dispatch(o) BY <1>2, DispatchImplements DEF Effects!CNext
<1>3. CASE ReportResult
  <2>1. worker.op \in Op BY <1>3 DEF ReportResult, IInv, WorkerIsBacked
  <2> QED BY <2>1, <1>3, ReportImplements DEF Effects!CNext
<1>4. CASE \E left \in {"absent", "created", "running", "exited"}, ok \in BOOLEAN : Perform(left, ok)
  <2>1. PICK left \in ContainerPhase, ok \in BOOLEAN : Perform(left, ok) BY <1>4 DEF ContainerPhase
  <2>2. \/ UNCHANGED Effects!cvars
        \/ worker.op \in Launches \cup Preparations /\ Effects!TakeEffect(worker.op)
    BY <2>1, PerformImplements
  <2>3. CASE UNCHANGED Effects!cvars BY <2>3
  <2>4. CASE worker.op \in Launches \cup Preparations /\ Effects!TakeEffect(worker.op)
    <3>1. \E o \in Launches \cup Preparations : Effects!TakeEffect(o)
      <4>1. PICK o \in Launches \cup Preparations : o = worker.op BY <2>4
      <4>2. Effects!TakeEffect(o) BY <4>1, <2>4 DEF Effects!TakeEffect
      <4> QED BY <4>2
    <3> QED BY <3>1 DEF Effects!CNext
  <2> QED BY <2>2, <2>3, <2>4
<1>5. CASE \/ \E o \in Op : Deliver(o)
           \/ ReadPending \/ RegisterSession \/ Start \/ Reported \/ FlushEvent \/ FlushFails
           \/ ClearSpool \/ SessionDrops \/ ServeReturns
           \/ \E first, arrived \in BOOLEAN : HeartbeatSpooled(first, arrived)
           \/ \E r \in Runs : Told(r) \/ WorkloadExits(r)
                              \/ \E arrived \in BOOLEAN : Spooled(r, arrived)
           \/ TakeCommand \/ MarkApplied \/ ResultLost \/ Crash \/ StateLost
           \/ \E at \in 0..now : ClockSetBack(at)
  <2>1. UNCHANGED <<ops, starts, content>>
    BY Zenon, <1>5 DEF Deliver, ReadPending, RegisterSession, Start, Reported, FlushEvent,
      FlushFails, ClearSpool, SessionDrops, ServeReturns, Told, WorkloadExits, Spooled, HeartbeatSpooled,
      TakeCommand, MarkApplied, ResultLost, Crash, StateLost, ClockSetBack, store, daemon
  <2> QED BY <2>1, Silent
<1> QED BY <1>1, <1>2, <1>3, <1>4, <1>5 DEF Next

(* IInv holds in every state the agent and the registry reach. *)
THEOREM Invariance == Spec => []IInv
BY InitHolds, StepKeeps, PTL DEF Spec

(* The node protocol implements NodeCommands: through any number of crashes,
   dropped sessions, lost results and lost state files, a launch starts at most
   one container and only while its command is outstanding, a settled command
   stays settled, and a preparation acknowledged as applied is there
   (Agent.apply, Registry.dispatch and RecordResult, State.MarkApplied). *)
THEOREM ImplementsNodeCommands == Spec => CommandsTakeEffectOnce
<1>1. Spec => [][Effects!CNext]_Effects!cvars
  BY Invariance, StepImplements, PTL DEF Spec
<1> QED BY <1>1, InitImplements, PTL DEF Spec, CommandsTakeEffectOnce, Effects!CSpec

(* While the agent's state file survives and its clock goes forward, what it
   remembers telling the control plane is in node_workloads or something later is,
   for any Runs and any number of crashes, lost answers and repeated flushes (reportObservations, flush,
   RecordEvent's duplicate and observed_at checks). *)
THEOREM ToldStaysRecorded == Spec => []ToldIsRecorded
<1>1. IInv /\ RInv => ToldIsRecorded
  <2>1. SUFFICES ASSUME RInv, losses = 0, setbacks = 0, NEW r \in Runs
                 PROVE  /\ mem.reported[r] = "exited" => workload[r].phase = "exited"
                        /\ mem.reported[r] = "running" => workload[r].phase \in {"running", "exited"}
    BY DEF ToldIsRecorded
  <2>2. PICK a, is : a = mem.reported[r] /\ is = workload[r].phase OBVIOUS
  <2>3. Rank(a) <= Rank(is) BY <2>1, <2>2 DEF RInv, Remembered
  <2>4. (a = "exited" => is = "exited") /\ (a = "running" => is \in {"running", "exited"})
    BY <2>3 DEF Rank
  <2> QED BY <2>2, <2>4
<1> QED BY <1>1, Invariance, RInvInit, RInvStep, PTL DEF Spec
=============================================================================

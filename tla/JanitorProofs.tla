---------------------------- MODULE JanitorProofs ----------------------------
(***************************************************************************)
(* What a sweep may take and what it leaves on record, for any Runs,       *)
(* connections, number of sweeps in flight and number of faults.           *)
(***************************************************************************)
EXTENDS Janitor, FiniteSetTheorems, SequenceTheorems, TLAPS

RunNames == Runs \cup Strangers \cup {NoRun}
KeyShape == [run : RunNames, n : Nat]
Thing == [id : Nat, conn : Conns, made : KeyShape, run : RunNames, attempt : KeyShape, key : KeyShape]
Launched == [conn : Conns, disposition : {"release", "terminate"}]
Streams == [stage : {"placing", "launching", "running", "asked", "closed"}, launches : Seq(Launched)]
Outcomes == {"none", "adopted", "terminated"}
Reasons == {"none", "unattributed", "no recorded run", "live", "no launch accounts for it", "recorded"}
Sweeping == [at : {"idle", "converge", "record", "reclaim"}, left : Seq(Thing),
             outcome : Outcomes, reason : Reasons]
Event == [identity : KeyShape, outcome : Outcomes, reason : Reasons,
          id : Nat, conn : Conns, run : RunNames]

Shape ==
    /\ run \in [Runs -> Streams]
    /\ objects \subseteq Thing /\ IsFiniteSet(objects)
    /\ orphan \subseteq Event
    /\ sweep \in [Sweepers -> Sweeping]

(* The intent to launch is on record before a provider is asked. *)
LaunchingIsRecorded ==
    \A r \in Runs : run[r].stage = "launching" => Len(run[r].launches) > 0

Launch(k) == k.n \in 1 .. Len(run[k.run].launches)

(* A launch whose answer was lost is a launch some Run recorded. *)
ComingIsRecorded == \A k \in coming : k \in KeyShape /\ k.run \in Runs /\ Launch(k)

(* An object carries the identities of the launch that made it and of no other,
   and that launch is on record if a Run of this log made it. *)
Attributed(o) ==
    /\ o.key = o.made /\ o.attempt \in {NoKey, o.made}
    /\ (o.run \in Runs \/ o.made.run \in Runs) => o.run = o.made.run /\ Launch(o.made)

(* Giving back what k made, as this outcome, is what the record asks for. *)
Due(k, outcome) ==
    k.run \in Runs => Launch(k) /\ over(k.run) /\ outcome = Outcome(DispositionOf(k))

OnRecord(k, outcome) == \E e \in orphan : e.identity = k /\ e.outcome = outcome

(* A decision in hand is due, and on record before it is carried out. *)
InHand(s) ==
    sweep[s].at \in {"record", "reclaim"} =>
        /\ sweep[s].left # <<>>
        /\ Due(Head(sweep[s].left).made, sweep[s].outcome)
        /\ sweep[s].at = "reclaim" => OnRecord(Head(sweep[s].left).key, sweep[s].outcome)

SweepsAreSound ==
    \A s \in Sweepers :
        /\ \A i \in 1 .. Len(sweep[s].left) : Attributed(sweep[s].left[i])
        /\ InHand(s)

RecordIsDue == \A e \in orphan : Due(e.identity, e.outcome)

TakenWasDue ==
    \A x \in reclaimed :
        /\ Attributed(x.object) /\ Due(x.object.made, x.outcome)
        /\ OnRecord(x.object.key, x.outcome)

IInv ==
    /\ Shape /\ LaunchingIsRecorded /\ ComingIsRecorded /\ (\A o \in objects : Attributed(o))
    /\ SweepsAreSound /\ RecordIsDue /\ TakenWasDue

-----------------------------------------------------------------------------

\* The initial state satisfies the invariant.
LEMMA InitHolds == Init => IInv
<1> SUFFICES ASSUME Init PROVE IInv OBVIOUS
<1>1. \A o \in Unaccounted : o \in Thing /\ Attributed(o)
  <2> SUFFICES ASSUME NEW s \in Strangers, NEW c \in Conns, NEW r \in Strangers \cup {NoRun},
                      NEW o, o = [Object(Key(s, 1), c, 1, {"key"}) EXCEPT !.run = r]
               PROVE  o \in Thing /\ Attributed(o)
    BY DEF Unaccounted
  <2>1. NoKey \in KeyShape /\ Key(s, 1) \in KeyShape BY DEF NoKey, Key, KeyShape, RunNames
  <2>2. o = [id |-> 1, conn |-> c, made |-> Key(s, 1), run |-> r, attempt |-> NoKey, key |-> Key(s, 1)]
    BY DEF Object
  <2>3. o \in Thing BY <2>1, <2>2 DEF Thing, RunNames
  <2>4. Key(s, 1).run = s BY DEF Key
  <2> QED BY <2>2, <2>3, <2>4, JanitorConstants DEF Attributed
<1>2. objects \subseteq Thing /\ IsFiniteSet(objects) /\ \A o \in objects : Attributed(o)
  BY Zenon, <1>1, FS_EmptySet, FS_Singleton DEF Init
<1>3. Shape
  <2>1. <<>> \in Seq(Launched) /\ <<>> \in Seq(Thing) BY EmptySeq
  <2>2. Idle \in Sweeping BY <2>1 DEF Idle, Sweeping, Outcomes, Reasons
  <2>3. [stage |-> "placing", launches |-> <<>>] \in Streams BY <2>1 DEF Streams
  <2> QED BY <1>2, <2>2, <2>3 DEF Init, Shape
<1> QED
  BY <1>2, <1>3
  DEF Init, IInv, LaunchingIsRecorded, ComingIsRecorded, SweepsAreSound, InHand, Idle,
      RecordIsDue, TakenWasDue

-----------------------------------------------------------------------------
(* A Run's launches are only added to, and a Run that is over stays over. *)
Grows ==
    \A r \in Runs :
        /\ over(r) => over(r)'
        /\ Len(run[r].launches) <= Len(run'[r].launches)
        /\ \A n \in 1 .. Len(run[r].launches) : run'[r].launches[n] = run[r].launches[n]

(* The lifecycle of a Run only adds launches, each of them well formed. *)
LEMMA StepGrows ==
    ASSUME Shape, LaunchingIsRecorded, Next
    PROVE  Grows /\ run' \in [Runs -> Streams] /\ LaunchingIsRecorded'
<1>1. CASE run' = run
  BY <1>1 DEF Grows, LaunchingIsRecorded, Shape, Streams, over
<1>2. ASSUME NEW r \in Runs, NEW stage \in {"running", "placing", "closed", "asked"},
             run' = [run EXCEPT ![r].stage = stage], ~ over(r) \/ stage = "closed"
      PROVE  Grows /\ run' \in [Runs -> Streams] /\ LaunchingIsRecorded'
  BY <1>2 DEF Grows, LaunchingIsRecorded, Shape, Streams, over
<1>3. ASSUME NEW r \in Runs, NEW c \in Conns, RecordLaunchIntent(r, c)
      PROVE  Grows /\ run' \in [Runs -> Streams] /\ LaunchingIsRecorded'
  <2> DEFINE l == [conn |-> c, disposition |-> Disposition(c)]
  <2>1. l \in Launched BY DEF Launched, Disposition
  <2>2. run[r].launches \in Seq(Launched) BY DEF Shape, Streams
  <2> HIDE DEF l
  <2>3. /\ Append(run[r].launches, l) \in Seq(Launched)
        /\ Len(Append(run[r].launches, l)) = Len(run[r].launches) + 1
        /\ \A i \in 1 .. Len(run[r].launches) : Append(run[r].launches, l)[i] = run[r].launches[i]
    BY <2>1, <2>2, AppendProperties
  <2>4. run' = [run EXCEPT ![r] = [stage |-> "launching", launches |-> Append(run[r].launches, l)]]
    <3>1. run' = [run EXCEPT ![r].stage = "launching", ![r].launches = Append(@, l)]
      BY <1>3 DEF RecordLaunchIntent, l
    <3>2. [run[r] EXCEPT !.stage = "launching"] = [stage |-> "launching", launches |-> run[r].launches]
      BY DEF Shape, Streams
    <3> QED BY <3>1, <3>2 DEF Shape
  <2>5. ~ over(r) BY <1>3 DEF RecordLaunchIntent, over
  <2>6. Len(run[r].launches) \in Nat BY <2>2, LenProperties
  <2> QED BY <2>2, <2>3, <2>4, <2>5, <2>6 DEF Grows, LaunchingIsRecorded, Shape, Streams, over
<1>4. ASSUME NEW r \in Runs, Lifecycle(r)
      PROVE  \/ run' = run
             \/ \E c \in Conns : RecordLaunchIntent(r, c)
             \/ \E stage \in {"running", "placing", "closed", "asked"} :
                   run' = [run EXCEPT ![r].stage = stage] /\ (~ over(r) \/ stage = "closed")
  BY <1>4 DEF Lifecycle, LaunchAccepted, LaunchIndeterminate, LaunchUnavailable, LaunchRejected,
              TerminalBeforeLaunch, RequestCleanup, releaseAndClose, over
<1>5. run' = run \/ \E r \in Runs : Lifecycle(r)
  BY Zenon DEF Next, Lands, Sweep, ListOwned, SweepEnds, Converge, Record, Reclaim, Crash, Fails, AnswersAgain
<1> QED BY <1>1, <1>2, <1>3, <1>4, <1>5

(* What was said of a launch and of an object stays true as Runs go on. *)
LEMMA SaidStaysTrue ==
    ASSUME Shape, Grows
    PROVE  /\ \A k : (k.run \in Runs /\ Launch(k)) => Launch(k)' /\ DispositionOf(k)' = DispositionOf(k)
           /\ \A o : Attributed(o) => Attributed(o)'
           /\ \A k, outcome : Due(k, outcome) => Due(k, outcome)'
<1>1. \A k : (k.run \in Runs /\ Launch(k)) => Launch(k)' /\ DispositionOf(k)' = DispositionOf(k)
  <2> SUFFICES ASSUME NEW k, k.run \in Runs, Launch(k)
               PROVE  Launch(k)' /\ DispositionOf(k)' = DispositionOf(k)
    OBVIOUS
  <2>1. Len(run[k.run].launches) \in Nat BY LenProperties DEF Shape, Streams
  <2> QED BY <2>1 DEF Grows, Launch, DispositionOf
<1>2. \A o : Attributed(o) => Attributed(o)'
  BY <1>1 DEF Attributed
<1>3. \A k, outcome : Due(k, outcome) => Due(k, outcome)'
  BY <1>1 DEF Due, Grows
<1> QED BY <1>1, <1>2, <1>3

-----------------------------------------------------------------------------
(* What a Run's launch makes carries that launch's identities. *)
LEMMA MadeIsAttributed ==
    ASSUME Shape, NEW k \in KeyShape, k.run \in Runs, Launch(k), NEW id \in Nat, NEW kept
    PROVE  Object(k, ConnOf(k), id, kept) \in Thing /\ Attributed(Object(k, ConnOf(k), id, kept))
<1>1. ConnOf(k) \in Conns
  <2>1. run[k.run].launches \in Seq(Launched) BY DEF Shape, Streams
  <2>2. run[k.run].launches[k.n] \in Launched BY <2>1, ElementOfSeq DEF Launch
  <2> QED BY <2>2 DEF ConnOf, Launched
<1>2. NoKey \in KeyShape BY DEF NoKey, KeyShape, RunNames
<1>3. k.run \in RunNames BY DEF RunNames
<1> DEFINE a == IF "attempt" \in kept THEN k ELSE NoKey
<1>4. a \in KeyShape /\ a \in {NoKey, k} BY <1>2
<1>5. Object(k, ConnOf(k), id, kept)
        = [id |-> id, conn |-> ConnOf(k), made |-> k, run |-> k.run, attempt |-> a, key |-> k]
  BY DEF Object
<1> HIDE DEF a
<1> QED BY <1>1, <1>3, <1>4, <1>5 DEF Thing, Attributed

\* The latest launch of a launching Run is one it recorded.
LEMMA LatestIsLaunch ==
    ASSUME Shape, LaunchingIsRecorded, NEW r \in Runs, run[r].stage = "launching"
    PROVE  Latest(r) \in KeyShape /\ Latest(r).run = r /\ Launch(Latest(r))
<1>1. Len(run[r].launches) \in Nat /\ Len(run[r].launches) > 0
  BY LenProperties DEF Shape, Streams, LaunchingIsRecorded
<1>2. Latest(r) = [run |-> r, n |-> Len(run[r].launches)] BY DEF Latest, Key
<1> QED BY <1>1, <1>2 DEF KeyShape, RunNames, Launch

(* A step that adds at most one attributed object keeps them all attributed. *)
LEMMA ObjectsKeep ==
    ASSUME IInv, Next, NEW x, x \in Thing /\ Attributed(x), objects' \subseteq objects \cup {x}
    PROVE  objects' \subseteq Thing /\ IsFiniteSet(objects') /\ (\A o \in objects : Attributed(o))'
<1>1. IsFiniteSet(objects') BY Zenon, FS_AddElement, FS_Subset DEF IInv, Shape
<1>2. Grows BY StepGrows DEF IInv
<1>3. \A o \in objects' : Attributed(o)' BY <1>2, SaidStaysTrue DEF IInv
<1> QED BY <1>1, <1>3 DEF IInv, Shape

\* Objects that go leave the others attributed.
LEMMA ObjectsGo ==
    ASSUME IInv, Next, objects' \subseteq objects
    PROVE  objects' \subseteq Thing /\ IsFiniteSet(objects') /\ (\A o \in objects : Attributed(o))'
<1>1. IsFiniteSet(objects') BY FS_Subset DEF IInv, Shape
<1>2. Grows BY StepGrows DEF IInv
<1>3. \A o \in objects' : Attributed(o)' BY <1>2, SaidStaysTrue DEF IInv
<1> QED BY <1>1, <1>3 DEF IInv, Shape

(* While no sweep moves, Runs may go on as they like. *)
LEMMA RunsKeepSweeps ==
    ASSUME IInv, Next, UNCHANGED <<orphan, sweep, reclaimed>>
    PROVE  SweepsAreSound' /\ RecordIsDue' /\ TakenWasDue'
<1>1. Grows BY StepGrows DEF IInv
<1>2. /\ \A o : Attributed(o) => Attributed(o)'
      /\ \A k, outcome : Due(k, outcome) => Due(k, outcome)'
  BY <1>1, SaidStaysTrue DEF IInv
<1>3. \A k, outcome : OnRecord(k, outcome) => OnRecord(k, outcome)' BY DEF OnRecord
<1>4. SweepsAreSound' BY <1>2, <1>3 DEF IInv, SweepsAreSound, InHand
<1>5. RecordIsDue' BY <1>2 DEF IInv, RecordIsDue
<1>6. TakenWasDue' BY <1>2, <1>3 DEF IInv, TakenWasDue
<1> QED BY <1>4, <1>5, <1>6

\* A launch on its way stays recorded when only launches are added.
LEMMA ComingKeeps ==
    ASSUME IInv, Next,
           \A k \in coming' \ coming : k \in KeyShape /\ k.run \in Runs /\ Launch(k)
    PROVE  ComingIsRecorded'
<1>1. Grows BY StepGrows DEF IInv
<1> QED BY <1>1, SaidStaysTrue DEF IInv, ComingIsRecorded

-----------------------------------------------------------------------------
(* The step of one sweep: what it has in hand afterwards has to be sound. *)
LEMMA SweepKeeps ==
    ASSUME IInv, NEW s \in Sweepers, NEW v \in Sweeping, sweep' = [sweep EXCEPT ![s] = v],
           UNCHANGED run, orphan \subseteq orphan',
           \A i \in 1 .. Len(v.left) : Attributed(v.left[i]),
           v.at \in {"record", "reclaim"} => v.left # <<>> /\ Due(Head(v.left).made, v.outcome),
           v.at = "reclaim" => OnRecord(Head(v.left).key, v.outcome)'
    PROVE  SweepsAreSound' /\ sweep' \in [Sweepers -> Sweeping]
<1>1. /\ \A o : Attributed(o)' <=> Attributed(o)
      /\ \A k, outcome : Due(k, outcome)' <=> Due(k, outcome)
      /\ \A k, outcome : OnRecord(k, outcome) => OnRecord(k, outcome)'
  BY DEF Attributed, Due, Launch, over, DispositionOf, OnRecord
<1>2. sweep' \in [Sweepers -> Sweeping] BY DEF IInv, Shape
<1>3. sweep'[s] = v /\ \A t \in Sweepers \ {s} : sweep'[t] = sweep[t] BY DEF IInv, Shape
<1> QED BY <1>1, <1>2, <1>3 DEF IInv, SweepsAreSound, InHand

\* An idle sweeper is well formed.
LEMMA IdleIsSweeping == Idle \in Sweeping /\ Idle.at = "idle" /\ Idle.left = <<>>
<1>1. <<>> \in Seq(Thing) BY EmptySeq
<1> QED BY <1>1 DEF Idle, Sweeping, Outcomes, Reasons

\* A sweeper that stops preserves what is known of the sweeps.
LEMMA IdleKeeps ==
    ASSUME IInv, NEW s \in Sweepers, sweep' = [sweep EXCEPT ![s] = Idle],
           UNCHANGED run, orphan \subseteq orphan'
    PROVE  SweepsAreSound' /\ sweep' \in [Sweepers -> Sweeping]
<1>1. \A i \in 1 .. Len(Idle.left) : Attributed(Idle.left[i]) BY IdleIsSweeping
<1>2. Idle.at \notin {"record", "reclaim"} BY IdleIsSweeping
<1> HIDE DEF Idle
<1> QED BY Zenon, <1>1, <1>2, IdleIsSweeping, SweepKeeps

(* The head of a listing is one of its objects, and the rest are the others. *)
LEMMA ListingParts ==
    ASSUME IInv, NEW s \in Sweepers, sweep[s].left # <<>>
    PROVE  /\ Head(sweep[s].left) \in Thing /\ Attributed(Head(sweep[s].left))
           /\ Tail(sweep[s].left) \in Seq(Thing)
           /\ \A i \in 1 .. Len(Tail(sweep[s].left)) : Attributed(Tail(sweep[s].left)[i])
<1> DEFINE left == sweep[s].left
<1>1. left \in Seq(Thing) /\ \A i \in 1 .. Len(left) : Attributed(left[i])
  BY DEF IInv, Shape, Sweeping, SweepsAreSound
<1>2. left # <<>> OBVIOUS
<1> HIDE DEF left
<1>3. /\ Head(left) \in Thing /\ Tail(left) \in Seq(Thing) /\ Len(Tail(left)) = Len(left) - 1
      /\ \A i \in 1 .. Len(Tail(left)) : Tail(left)[i] = left[i + 1]
  BY <1>1, <1>2, HeadTailProperties
<1>4. Len(left) \in Nat \ {0} BY <1>1, <1>2, EmptySeq
<1>5. Head(left) = left[1] BY <1>1, <1>2
<1>6. \A i \in 1 .. Len(Tail(left)) : i + 1 \in 1 .. Len(left) BY <1>3, <1>4
<1>7. Attributed(Head(left)) BY <1>1, <1>4, <1>5
<1>8. \A i \in 1 .. Len(Tail(left)) : Attributed(Tail(left)[i]) BY <1>1, <1>3, <1>6
<1> QED BY <1>3, <1>7, <1>8 DEF left

\* A sweeper that goes on to its next object preserves it.
LEMMA NextKeeps ==
    ASSUME IInv, NEW s \in Sweepers, sweep[s].left # <<>>,
           sweep' = [sweep EXCEPT ![s] = Next1(s)], UNCHANGED run, orphan \subseteq orphan'
    PROVE  SweepsAreSound' /\ sweep' \in [Sweepers -> Sweeping]
<1>1. Next1(s) = [at |-> "converge", left |-> Tail(sweep[s].left), outcome |-> "none", reason |-> "none"]
  <2> DEFINE w == sweep[s]
  <2>1. w \in Sweeping BY DEF IInv, Shape
  <2>2. Next1(s) = [w EXCEPT !.at = "converge", !.left = Tail(@), !.outcome = "none", !.reason = "none"]
    BY DEF Next1
  <2> HIDE DEF w
  <2>3. [w EXCEPT !.at = "converge"]
          = [at |-> "converge", left |-> w.left, outcome |-> w.outcome, reason |-> w.reason]
    BY <2>1 DEF Sweeping
  <2>4. Next1(s) = [at |-> "converge", left |-> Tail(w.left), outcome |-> "none", reason |-> "none"]
    BY Zenon, <2>2, <2>3
  <2> QED BY <2>4 DEF w
<1>2. Next1(s) \in Sweeping /\ Next1(s).at = "converge" /\ Next1(s).left = Tail(sweep[s].left)
  BY <1>1, ListingParts DEF Sweeping, Outcomes, Reasons
<1>3. \A i \in 1 .. Len(Next1(s).left) : Attributed(Next1(s).left[i]) BY <1>2, ListingParts
<1> QED BY Zenon, <1>2, <1>3, SweepKeeps

(* launchTaking finds the launch that made the object and no other. *)
LEMMA TakingIsMaker ==
    ASSUME Shape, NEW o \in Thing, Attributed(o), o.run \in Runs
    PROVE  launchTaking(o) = {o.made}
<1>1. o.made \in KeyShape /\ o.made.run = o.run /\ Launch(o.made) BY DEF Thing, Attributed
<1>2. o.made = Key(o.run, o.made.n) BY <1>1 DEF KeyShape, Key
<1>3. o.made \in Launches(o.run) BY <1>1, <1>2 DEF Launches, Launch
<1>4. NoKey \notin Launches(o.run) BY Zenon, JanitorConstants DEF NoKey, Launches, Key
<1>5. \A k \in Launches(o.run) : took(o, k) <=> k = o.made
  BY <1>4 DEF Attributed, took
<1>6. {k \in Launches(o.run) : took(o, k)} = {o.made} BY <1>3, <1>5
<1> QED BY <1>6 DEF launchTaking

\* What decide finds for an object is due for its launch.
LEMMA DecidedIsDue ==
    ASSUME Shape, NEW o \in Thing, Attributed(o), decide(o).outcome # "none"
    PROVE  /\ Due(o.made, decide(o).outcome)
           /\ decide(o).outcome # "error"
           /\ decide(o).outcome \in Outcomes /\ decide(o).reason \in Reasons
<1>1. CASE o.run = NoRun
  BY <1>1, JanitorConstants DEF decide, Due, Attributed, Outcomes, Reasons
<1>2. CASE o.run \in Strangers
  BY <1>2, JanitorConstants DEF decide, Due, Attributed, Outcomes, Reasons
<1>3. CASE o.run \in Runs
  <2>1. over(o.run) /\ decide(o) = byRecordedDisposition(o) BY <1>3, JanitorConstants DEF decide
  <2>2. launchTaking(o) = {o.made} BY <1>3, TakingIsMaker
  <2>3. byRecordedDisposition(o) = [outcome |-> Outcome(DispositionOf(o.made)), reason |-> "recorded"]
    BY <2>2 DEF byRecordedDisposition
  <2> QED BY <1>3, <2>1, <2>3 DEF Due, Attributed, Outcome, Outcomes, Reasons
<1> QED BY <1>1, <1>2, <1>3 DEF Thing, RunNames

-----------------------------------------------------------------------------
(* One lemma per step of a sweep. *)
LEMMA ListOwnedKeeps ==
    ASSUME IInv, NEW s \in Sweepers, ListOwned(s)
    PROVE  SweepsAreSound' /\ sweep' \in [Sweepers -> Sweeping]
<1>1. PICK listing \in [1 .. Cardinality(objects) -> objects] :
          sweep' = [sweep EXCEPT ![s] = [Idle EXCEPT !.at = "converge", !.left = listing]]
  BY Zenon DEF ListOwned
<1>2. Cardinality(objects) \in Nat BY FS_CardinalityType DEF IInv, Shape
<1>3. listing \in Seq(Thing) /\ \A i \in 1 .. Len(listing) : listing[i] \in objects
  <2>1. listing \in Seq(objects) BY <1>2
  <2> QED BY <2>1, <1>2 DEF IInv, Shape
<1>4. PICK v : v = [Idle EXCEPT !.at = "converge", !.left = listing] OBVIOUS
<1>5. v \in Sweeping /\ v.at = "converge" /\ v.left = listing
  <2>1. [Idle EXCEPT !.at = "converge"]
          = [at |-> "converge", left |-> <<>>, outcome |-> "none", reason |-> "none"]
    BY DEF Idle
  <2>2. v = [at |-> "converge", left |-> listing, outcome |-> "none", reason |-> "none"]
    BY Zenon, <1>4, <2>1
  <2> QED BY <1>3, <2>2 DEF Sweeping, Outcomes, Reasons
<1>6. \A i \in 1 .. Len(v.left) : Attributed(v.left[i]) BY <1>3, <1>5 DEF IInv
<1>7. sweep' = [sweep EXCEPT ![s] = v] /\ UNCHANGED <<run, orphan>> BY Zenon, <1>1, <1>4 DEF ListOwned
<1> QED BY Zenon, <1>5, <1>6, <1>7, SweepKeeps

\* Deciding the next object preserves what is known of the sweeps.
LEMMA ConvergeKeeps ==
    ASSUME IInv, NEW s \in Sweepers, Converge(s)
    PROVE  SweepsAreSound' /\ sweep' \in [Sweepers -> Sweeping]
<1>1. PICK w \in Sweeping : w = sweep[s] BY DEF IInv, Shape
<1>2. w.left # <<>> /\ UNCHANGED <<run, orphan>> BY <1>1 DEF Converge
<1>3. PICK o \in Thing : o = Head(w.left) /\ Attributed(o) BY <1>1, <1>2, ListingParts
<1>4. \A i \in 1 .. Len(w.left) : Attributed(w.left[i]) BY <1>1 DEF IInv, SweepsAreSound
<1> DEFINE recorded == {e \in orphan : e.identity = orphanIdentity(o)}
<1>5. sweep' = [sweep EXCEPT ![s] =
          IF recorded # {} THEN LET e == CHOOSE e \in recorded : TRUE IN
               [w EXCEPT !.at = "reclaim", !.outcome = e.outcome, !.reason = e.reason]
          ELSE IF decide(o).outcome = "error" THEN Idle
          ELSE IF decide(o).outcome = "none" THEN Next1(s)
          ELSE [w EXCEPT !.at = "record", !.outcome = decide(o).outcome, !.reason = decide(o).reason]]
  BY <1>1, <1>3 DEF Converge, IInv, Shape
<1>6. CASE recorded # {}
  <2>1. PICK e \in recorded : e = CHOOSE x \in recorded : TRUE BY <1>6
  <2>2. e \in Event /\ e \in orphan /\ e.identity = o.key BY <2>1 DEF orphanIdentity, IInv, Shape
  <2>v. PICK v : v = [w EXCEPT !.at = "reclaim", !.outcome = e.outcome, !.reason = e.reason] OBVIOUS
  <2>3. sweep' = [sweep EXCEPT ![s] = v] BY <1>5, <1>6, <2>1, <2>v
  <2>4. v \in Sweeping /\ v.at = "reclaim" /\ v.left = w.left /\ v.outcome = e.outcome
    <3>1. [w EXCEPT !.at = "reclaim"]
             = [at |-> "reclaim", left |-> w.left, outcome |-> w.outcome, reason |-> w.reason]
      BY DEF Sweeping
    <3>2. v = [at |-> "reclaim", left |-> w.left, outcome |-> e.outcome, reason |-> e.reason]
      BY Zenon, <2>v, <3>1
    <3> QED BY <2>2, <3>2 DEF Sweeping, Event
  <2>5. Due(o.made, e.outcome) BY <1>3, <2>2 DEF IInv, RecordIsDue, Attributed
  <2>6. OnRecord(o.key, e.outcome)' BY <1>2, <2>2 DEF OnRecord
  <2> QED BY Zenon, <1>2, <1>3, <1>4, <2>3, <2>4, <2>5, <2>6, SweepKeeps
<1>7. CASE recorded = {} /\ decide(o).outcome = "none"
  <2>1. sweep' = [sweep EXCEPT ![s] = Next1(s)] BY Zenon, <1>5, <1>7
  <2> QED BY Zenon, <1>1, <1>2, <2>1, NextKeeps
<1>8. CASE recorded = {} /\ decide(o).outcome # "none"
  <2>1. PICK outcome \in Outcomes, reason \in Reasons :
            /\ decide(o).outcome = outcome /\ decide(o).reason = reason /\ Due(o.made, outcome)
            /\ outcome # "error"
    BY <1>3, <1>8, DecidedIsDue DEF IInv
  <2>v. PICK v : v = [w EXCEPT !.at = "record", !.outcome = outcome, !.reason = reason] OBVIOUS
  <2>2. sweep' = [sweep EXCEPT ![s] = v] BY Zenon, <1>5, <1>8, <2>1, <2>v
  <2>3. v \in Sweeping /\ v.at = "record" /\ v.left = w.left /\ v.outcome = outcome
    <3>1. [w EXCEPT !.at = "record"]
             = [at |-> "record", left |-> w.left, outcome |-> w.outcome, reason |-> w.reason]
      BY DEF Sweeping
    <3>2. v = [at |-> "record", left |-> w.left, outcome |-> outcome, reason |-> reason]
      BY Zenon, <2>v, <3>1
    <3> QED BY <3>2 DEF Sweeping
  <2> QED BY Zenon, <1>2, <1>3, <1>4, <2>1, <2>2, <2>3, SweepKeeps
<1> QED BY <1>6, <1>7, <1>8

\* Recording an orphan preserves it, and what is recorded is due.
LEMMA RecordKeeps ==
    ASSUME IInv, NEW s \in Sweepers, Record(s)
    PROVE  /\ SweepsAreSound' /\ sweep' \in [Sweepers -> Sweeping]
           /\ RecordIsDue' /\ orphan' \subseteq Event /\ orphan \subseteq orphan'
<1>1. PICK w \in Sweeping : w = sweep[s] BY DEF IInv, Shape
<1>2. w.at = "record" /\ UNCHANGED run BY <1>1 DEF Record
<1>3. w.left # <<>> /\ Due(Head(w.left).made, w.outcome)
  BY <1>1, <1>2 DEF IInv, SweepsAreSound, InHand
<1>4. PICK o \in Thing : o = Head(w.left) /\ Attributed(o) BY <1>1, <1>3, ListingParts
<1>5. \A i \in 1 .. Len(w.left) : Attributed(w.left[i]) BY <1>1 DEF IInv, SweepsAreSound
<1> DEFINE event == [identity |-> o.key, outcome |-> w.outcome, reason |-> w.reason,
                     id |-> o.id, conn |-> o.conn, run |-> o.run]
<1>6. \/ orphan' = orphan \cup {event} /\ sweep' = [sweep EXCEPT ![s].at = "reclaim"]
      \/ orphan' = orphan /\ sweep' = [sweep EXCEPT ![s] = Idle]
  BY <1>1, <1>4 DEF Record, orphanIdentity
<1>7. CASE orphan' = orphan /\ sweep' = [sweep EXCEPT ![s] = Idle]
  <2>1. RecordIsDue' BY <1>2, <1>7 DEF IInv, RecordIsDue, Due, Launch, over, DispositionOf
  <2> QED BY Zenon, <1>2, <1>7, <2>1, IdleKeeps DEF IInv, Shape
<1>8. CASE orphan' = orphan \cup {event} /\ sweep' = [sweep EXCEPT ![s].at = "reclaim"]
  <2>1. event \in Event /\ event.identity = o.key /\ event.outcome = w.outcome
    BY DEF Event, Thing, Sweeping
  <2> HIDE DEF event
  <2>2. PICK v : v = [w EXCEPT !.at = "reclaim"] BY Zenon
  <2>3. v \in Sweeping /\ v.at = "reclaim" /\ v.left = w.left /\ v.outcome = w.outcome
    BY <2>2 DEF Sweeping
  <2>4. sweep' = [sweep EXCEPT ![s] = v] BY <1>1, <1>8, <2>2
  <2>5. OnRecord(o.key, w.outcome)' BY <1>8, <2>1 DEF OnRecord
  <2>6. SweepsAreSound' /\ sweep' \in [Sweepers -> Sweeping]
    BY Zenon, <1>2, <1>3, <1>4, <1>5, <1>8, <2>3, <2>4, <2>5, SweepKeeps
  <2>7. Due(event.identity, event.outcome) BY <1>3, <1>4, <2>1 DEF Attributed
  <2>8. \A e \in orphan' : Due(e.identity, e.outcome) BY <1>8, <2>7 DEF IInv, RecordIsDue
  <2>9. RecordIsDue' BY <1>2, <2>8 DEF RecordIsDue, Due, Launch, over, DispositionOf
  <2> QED BY <1>8, <2>1, <2>6, <2>9 DEF IInv, Shape
<1> QED BY <1>6, <1>7, <1>8

\* Reclaiming an object preserves it, and what is taken was due.
LEMMA ReclaimKeeps ==
    ASSUME IInv, NEW s \in Sweepers, Reclaim(s)
    PROVE  /\ SweepsAreSound' /\ sweep' \in [Sweepers -> Sweeping]
           /\ TakenWasDue' /\ objects' \subseteq objects
<1>1. PICK w \in Sweeping : w = sweep[s] BY DEF IInv, Shape
<1>2. w.at = "reclaim" /\ UNCHANGED <<run, orphan>> BY <1>1 DEF Reclaim
<1>3. w.left # <<>> /\ Due(Head(w.left).made, w.outcome) /\ OnRecord(Head(w.left).key, w.outcome)
  BY <1>1, <1>2 DEF IInv, SweepsAreSound, InHand
<1>4. PICK o \in Thing : o = Head(w.left) /\ Attributed(o) BY <1>1, <1>3, ListingParts
<1>5. \A x \in reclaimed : /\ Attributed(x.object)' /\ Due(x.object.made, x.outcome)'
                           /\ OnRecord(x.object.key, x.outcome)'
  BY <1>2 DEF IInv, TakenWasDue, Attributed, Due, Launch, over, DispositionOf, OnRecord
<1>6. CASE answers[o.conn] # "all"
  <2>1. sweep' = [sweep EXCEPT ![s] = Idle] /\ UNCHANGED <<objects, reclaimed>>
    BY <1>1, <1>4, <1>6 DEF Reclaim
  <2>2. TakenWasDue' BY <1>5, <2>1 DEF TakenWasDue
  <2> QED BY Zenon, <1>2, <2>1, <2>2, IdleKeeps
<1>7. CASE answers[o.conn] = "all"
  <2>1. /\ deleteOwned(o.conn, o.key, objects')
        /\ reclaimed' = reclaimed \cup {[object |-> x, outcome |-> w.outcome] : x \in objects \ objects'}
        /\ sweep' = [sweep EXCEPT ![s] = Next1(s)]
    BY <1>1, <1>4, <1>7 DEF Reclaim
  <2>2. objects' \subseteq objects /\ \A x \in objects \ objects' : x.key = o.key
    BY <2>1 DEF deleteOwned
  <2>3. \A x \in objects \ objects' :
            Attributed(x) /\ Due(x.made, w.outcome) /\ OnRecord(x.key, w.outcome)
    BY <1>3, <1>4, <2>2 DEF IInv, Attributed
  <2>4. \A x \in objects \ objects' :
            Attributed(x)' /\ Due(x.made, w.outcome)' /\ OnRecord(x.key, w.outcome)'
    BY <1>2, <2>3 DEF Attributed, Due, Launch, over, DispositionOf, OnRecord
  <2>5. TakenWasDue' BY <1>5, <2>1, <2>4 DEF TakenWasDue
  <2> QED BY Zenon, <1>1, <1>2, <1>3, <2>1, <2>2, <2>5, NextKeeps
<1> QED BY <1>6, <1>7

-----------------------------------------------------------------------------
(* Runs, late launches and providers leave the sweeps and their record alone. *)
LEMMA OthersKeep ==
    ASSUME IInv, Next, UNCHANGED <<orphan, sweep, reclaimed>>,
           objects' \subseteq Thing, IsFiniteSet(objects'), (\A o \in objects : Attributed(o))',
           ComingIsRecorded'
    PROVE  IInv'
<1>1. run' \in [Runs -> Streams] /\ LaunchingIsRecorded' BY StepGrows DEF IInv
<1>2. Shape' BY <1>1 DEF IInv, Shape
<1> QED BY <1>1, <1>2, RunsKeepSweeps DEF IInv

\* A step of a Run preserves the invariant.
LEMMA LifecycleKeeps == ASSUME IInv, Next, NEW r \in Runs, Lifecycle(r) PROVE IInv'
<1>1. UNCHANGED <<orphan, sweep, reclaimed>>
  BY Zenon DEF Lifecycle, RecordLaunchIntent, LaunchAccepted, LaunchIndeterminate, LaunchUnavailable,
         LaunchRejected, TerminalBeforeLaunch, RequestCleanup, releaseAndClose
<1>2. ComingIsRecorded'
  <2>1. coming' = coming \/ (run[r].stage = "launching" /\ coming' = coming \cup {Latest(r)})
    BY Zenon DEF Lifecycle, RecordLaunchIntent, LaunchAccepted, LaunchIndeterminate, LaunchUnavailable,
           LaunchRejected, TerminalBeforeLaunch, RequestCleanup, releaseAndClose
  <2>2. \A k \in coming' \ coming : k \in KeyShape /\ k.run \in Runs /\ Launch(k)
    BY <2>1, LatestIsLaunch DEF IInv
  <2> QED BY <2>2, ComingKeeps
<1>3. CASE LaunchAccepted(r)
  <2>1. CASE objects' = objects BY <1>1, <1>2, <2>1, ObjectsGo, OthersKeep
  <2>2. CASE \E kept \in Keeping : objects' = objects \cup {Object(Latest(r), ConnOf(Latest(r)), 1, kept)}
    <3>1. PICK x : \E kept \in Keeping : /\ x = Object(Latest(r), ConnOf(Latest(r)), 1, kept)
                                         /\ objects' = objects \cup {x}
      BY <2>2
    <3>2. PICK k \in KeyShape : k = Latest(r) /\ k.run \in Runs /\ Launch(k)
      BY <1>3, LatestIsLaunch DEF IInv, LaunchAccepted
    <3>3. x \in Thing /\ Attributed(x) BY <3>1, <3>2, MadeIsAttributed DEF IInv
    <3> QED BY <1>1, <1>2, <3>1, <3>3, ObjectsKeep, OthersKeep
  <2> QED BY <1>3, <2>1, <2>2 DEF LaunchAccepted
<1>4. CASE ~ LaunchAccepted(r)
  <2>1. objects' \subseteq objects
    BY Zenon, <1>4 DEF Lifecycle, RecordLaunchIntent, LaunchIndeterminate, LaunchUnavailable,
                LaunchRejected, TerminalBeforeLaunch, RequestCleanup, releaseAndClose, deleteOwned
  <2> QED BY <1>1, <1>2, <2>1, ObjectsGo, OthersKeep
<1> QED BY <1>3, <1>4

\* A launch that lands at the provider preserves the invariant.
LEMMA LandsKeeps == ASSUME IInv, Next, NEW k \in coming, Lands(k) PROVE IInv'
<1>1. UNCHANGED <<orphan, sweep, reclaimed>> /\ coming' \subseteq coming BY DEF Lands
<1>2. ComingIsRecorded' BY <1>1, ComingKeeps
<1>3. PICK x : \E kept \in Keeping : x = Object(k, ConnOf(k), 2, kept) /\ objects' = objects \cup {x}
  BY DEF Lands
<1>4. k \in KeyShape /\ k.run \in Runs /\ Launch(k) BY DEF IInv, ComingIsRecorded
<1>5. x \in Thing /\ Attributed(x) BY <1>3, <1>4, MadeIsAttributed DEF IInv
<1> QED BY <1>1, <1>2, <1>3, <1>5, ObjectsKeep, OthersKeep

(* The step of a sweep leaves the Runs alone. *)
LEMMA SweepStepKeeps == ASSUME IInv, Next, NEW s \in Sweepers, Sweep(s) PROVE IInv'
<1>1. UNCHANGED <<run, coming>>
  BY Zenon DEF Sweep, ListOwned, SweepEnds, Converge, Record, Reclaim
<1>2. ComingIsRecorded' BY <1>1, ComingKeeps
<1>3. run' \in [Runs -> Streams] /\ LaunchingIsRecorded' BY StepGrows DEF IInv
<1>4. ASSUME UNCHANGED orphan PROVE RecordIsDue' /\ orphan' \subseteq Event
  BY <1>1, <1>4 DEF IInv, Shape, RecordIsDue, Due, Launch, over, DispositionOf
<1>5. ASSUME UNCHANGED reclaimed, orphan \subseteq orphan' PROVE TakenWasDue'
  BY <1>1, <1>5 DEF IInv, TakenWasDue, Attributed, Due, Launch, over, DispositionOf, OnRecord
<1>6. ASSUME objects' \subseteq objects, orphan' \subseteq Event, sweep' \in [Sweepers -> Sweeping],
             SweepsAreSound', RecordIsDue', TakenWasDue'
      PROVE  IInv'
  <2>1. objects' \subseteq Thing /\ IsFiniteSet(objects') /\ (\A o \in objects : Attributed(o))'
    BY <1>6, ObjectsGo
  <2>2. Shape' BY <1>3, <1>6, <2>1 DEF Shape
  <2> QED BY <1>2, <1>3, <1>6, <2>1, <2>2 DEF IInv
<1>7. CASE ListOwned(s)
  <2>1. UNCHANGED <<objects, orphan, reclaimed>> BY <1>7 DEF ListOwned
  <2> QED BY <1>4, <1>5, <1>6, <1>7, <2>1, ListOwnedKeeps
<1>8. CASE SweepEnds(s)
  <2>1. UNCHANGED <<objects, orphan, reclaimed>> /\ sweep' = [sweep EXCEPT ![s] = Idle]
    BY <1>8 DEF SweepEnds
  <2> QED BY Zenon, <1>1, <1>4, <1>5, <1>6, <2>1, IdleKeeps
<1>9. CASE Converge(s)
  <2>1. UNCHANGED <<objects, orphan, reclaimed>> BY <1>9 DEF Converge
  <2> QED BY <1>4, <1>5, <1>6, <1>9, <2>1, ConvergeKeeps
<1>10. CASE Record(s)
  <2>1. UNCHANGED <<objects, reclaimed>> BY <1>10 DEF Record
  <2> QED BY <1>5, <1>6, <1>10, <2>1, RecordKeeps
<1>11. CASE Reclaim(s)
  <2>1. UNCHANGED orphan BY <1>11 DEF Reclaim
  <2> QED BY <1>4, <1>6, <1>11, <2>1, ReclaimKeeps
<1> QED BY <1>7, <1>8, <1>9, <1>10, <1>11 DEF Sweep

\* A crash of the controller preserves the invariant.
LEMMA CrashKeeps == ASSUME IInv, Next, Crash PROVE IInv'
<1>1. UNCHANGED <<run, coming, objects, orphan, reclaimed>> /\ sweep' = [s \in Sweepers |-> Idle]
  BY DEF Crash
<1>2. ComingIsRecorded' BY <1>1, ComingKeeps
<1>3. sweep' \in [Sweepers -> Sweeping] BY <1>1, IdleIsSweeping
<1>4. Shape' BY <1>1, <1>3 DEF IInv, Shape
<1>5. \A s \in Sweepers : sweep'[s].at = "idle" /\ sweep'[s].left = <<>> BY <1>1, IdleIsSweeping
<1>6. SweepsAreSound' BY <1>5 DEF SweepsAreSound, InHand
<1>7. LaunchingIsRecorded' BY StepGrows DEF IInv
<1>8. RecordIsDue' /\ TakenWasDue' /\ (\A o \in objects : Attributed(o))'
  BY <1>1 DEF IInv, RecordIsDue, TakenWasDue, Attributed, Due, Launch, over, DispositionOf, OnRecord
<1> QED BY <1>2, <1>4, <1>6, <1>7, <1>8 DEF IInv

\* Every step preserves the invariant.
LEMMA StepKeeps == IInv /\ [Next]_vars => IInv'
<1>1. ASSUME IInv, UNCHANGED vars PROVE IInv'
  <2>1. UNCHANGED <<run, coming, objects, orphan, sweep, reclaimed>> BY <1>1 DEF vars
  <2>2. Shape' BY <1>1, <2>1 DEF IInv, Shape
  <2>3. LaunchingIsRecorded' /\ ComingIsRecorded'
    BY <1>1, <2>1 DEF IInv, LaunchingIsRecorded, ComingIsRecorded, Launch
  <2>4. (\A o \in objects : Attributed(o))' BY <1>1, <2>1 DEF IInv, Attributed, Launch
  <2>5. RecordIsDue' /\ TakenWasDue'
    BY <1>1, <2>1
    DEF IInv, RecordIsDue, TakenWasDue, Attributed, Due, Launch, over, DispositionOf, OnRecord
  <2>6. SweepsAreSound'
    BY Zenon, <1>1, <2>1
    DEF IInv, SweepsAreSound, InHand, Attributed, Due, Launch, over, DispositionOf, OnRecord
  <2> QED BY <2>2, <2>3, <2>4, <2>5, <2>6 DEF IInv
<1>2. ASSUME IInv, Next PROVE IInv'
  <2>1. ASSUME NEW c \in Conns, Fails(c) \/ AnswersAgain(c) PROVE IInv'
    <3>1. UNCHANGED <<run, coming, objects, orphan, sweep, reclaimed>> BY <2>1 DEF Fails, AnswersAgain
    <3> QED BY <1>2, <3>1, ComingKeeps, ObjectsGo, OthersKeep
  <2> QED BY <1>2, <2>1, LifecycleKeeps, LandsKeeps, SweepStepKeeps, CrashKeeps DEF Next
<1> QED BY <1>1, <1>2

-----------------------------------------------------------------------------
(* The invariant holds throughout: what a sweep has in hand, recorded or removed
   is what the record of its Run asks for (janitor.go converge, record, reclaim). *)
THEOREM Invariance == Spec => []IInv
BY InitHolds, StepKeeps, PTL DEF Spec

(* No sweep takes the capacity of a Run that still holds live work, with any
   number of sweeps in flight (janitor.go:269-270). *)
THEOREM LiveWorkStaysSpared == Spec => []LiveWorkIsSpared
<1>1. IInv => LiveWorkIsSpared BY DEF IInv, TakenWasDue, Due, over, LiveWorkIsSpared, Ended
<1> QED BY <1>1, Invariance, PTL

(* Whatever a sweep removed, it removed as recorded before, and by the rule of
   the launch that made it (janitor.go:150-162, 186-193). *)
THEOREM RemovalStaysRecorded == Spec => []GoneAsRecorded
<1>1. IInv => GoneAsRecorded
  BY DEF IInv, TakenWasDue, Due, Attributed, OnRecord, orphanIdentity, GoneAsRecorded
<1> QED BY <1>1, Invariance, PTL
=============================================================================

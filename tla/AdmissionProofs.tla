--------------------------- MODULE AdmissionProofs ---------------------------
(***************************************************************************)
(* What TLAPS proves of Runs that wait: of Admission, for any Runs,        *)
(* families, widths, classes and moments, and of the content prepared for  *)
(* queued Runs (Prewarm), for any machines, content and passes.            *)
(*                                                                         *)
(* The run's own record and the admission queue are two reductions of one  *)
(* log, and the door decides from the one while others append to it.  IInv *)
(* says of each record what its wait may be, that the replay of the queue  *)
(* says the same of every Run, that the places taken of a family are among *)
(* those its width allows, and that what the door's holder is about to     *)
(* append still fits both when it lands.                                   *)
(***************************************************************************)
EXTENDS Admission, Prewarm, FiniteSetTheorems, TLAPS

RunFields ==
    {"state", "cancelled", "holds", "replaceable", "reclaimed", "deferral", "deferredAt",
     "queuedSince", "selfImposedWait"}

QueueFields == {"waiting", "began", "holding"}

(***************************************************************************)
(* A Run's wait as of moment t: its parts add up to no more than the whole *)
(* of it, and while the family's answer stands they add up to no more than *)
(* what had passed when that answer was given.                             *)
(***************************************************************************)
Dated(s, t) ==
    /\ s.selfImposedWait \in Nat
    /\ s.queuedSince = Never =>
          s.selfImposedWait = 0 /\ (s.state = "open" => s.deferral = NoDeferral)
    /\ s.queuedSince # Never =>
          /\ s.queuedSince \in Nat /\ s.deferredAt \in Nat
          /\ s.queuedSince <= s.deferredAt /\ s.deferredAt <= t
          /\ s.queuedSince + s.selfImposedWait <= t
          /\ SelfImposed(s.deferral) => s.queuedSince + s.selfImposedWait <= s.deferredAt

RunOK(s, t) ==
    /\ DOMAIN s = RunFields
    /\ s.state \in {"none", "open", "closed"} /\ s.holds \in BOOLEAN
    /\ s.holds => s.state = "open"
    /\ s.state = "none" => s.queuedSince = Never /\ s.deferral = NoDeferral
    /\ Dated(s, t)

\* The replay p says of Run r what its own record s says.
Told(s) == s.state = "open" /\ s.deferral # NoDeferral

Agrees(s, w, b) ==
    /\ b = IF s.state = "open" THEN s.queuedSince ELSE Never
    /\ w = IF Told(s) THEN [since |-> s.queuedSince, holdsNoQueue |-> HoldsNoQueue(s.deferral)]
           ELSE NotWaiting

\* The members of r's family in h.
Family(h, r) == {m \in h : GroupOf[m] = GroupOf[r]}

Fits(h) == \A r \in Runs : GroupOf[r] # None => Cardinality(Family(h, r)) <= MaxParallel

\* The family has a place for r.
Room(h, r) == GroupOf[r] # None => Cardinality(Family(h \ {r}, r)) < MaxParallel

QueueShape(q) ==
    /\ DOMAIN q = QueueFields /\ DOMAIN q.waiting = Runs /\ DOMAIN q.began = Runs
    /\ q.holding \subseteq Runs

Holding ==
    /\ Fits(queue.holding)
    /\ \A r \in Runs : GroupOf[r] # None /\ run[r].holds => r \in queue.holding

(***************************************************************************)
(* What the door's holder is about to append was decided at some moment t  *)
(* from a record that has not changed since, but for a cancel.             *)
(***************************************************************************)
At(type, t, selected, d) == [type |-> type, at |-> t, selected |-> selected, deferral |-> d]

Answered(r, t, e) ==
    \/ e = <<>>
    \/ e = <<At("booking_decided", t, TRUE, NoDeferral)>> /\ Room(queue.holding, r)
    \/ \E d \in Deferrals : d # NoDeferral /\ e = <<At("admission_deferred", t, FALSE, d)>>
    \/ \E d \in Deferrals : ~ SelfImposed(d) /\
          e = <<At("admission_refused", t, FALSE, d), At("closed", t, FALSE, NoDeferral)>>
    \/ e = <<At("booking_decided", t, FALSE, NoDeferral), At("closed", t, FALSE, NoDeferral)>>

DoorOK(r, t, e) ==
    /\ r \in Runs /\ run[r].state = "open" /\ ~ run[r].holds
    /\ Dated(run[r], t) /\ Answered(r, t, e)

IInv ==
    /\ now \in Nat /\ DOMAIN run = Runs /\ QueueShape(queue)
    /\ \A r \in Runs : RunOK(run[r], now)
    /\ \A r \in Runs : Agrees(run[r], queue.waiting[r], queue.began[r])
    /\ Holding
    /\ door # Free => \E t \in 0..now : DoorOK(door.run, t, door.events)

-----------------------------------------------------------------------------
(* The events of the door and of the others are dated now. *)
LEMMA EventFields ==
    /\ \A b : Decided(b) = At("booking_decided", now, b, NoDeferral)
    /\ \A d : Deferred(d) = At("admission_deferred", now, FALSE, d)
    /\ \A d : recordRefusal(d) = <<At("admission_refused", now, FALSE, d), At("closed", now, FALSE, NoDeferral)>>
    /\ \A type : Event(type) = At(type, now, FALSE, NoDeferral)
BY Zenon DEF Decided, Deferred, recordRefusal, Event, mustEvent, At

\* Run r's record becomes u, and the replay p.
Landed(r, u, p) == run' = [run EXCEPT ![r] = u] /\ queue' = p

(* An append of one event. *)
LEMMA RecordOne ==
    ASSUME NEW r, NEW e, Record(r, <<e>>)
    PROVE  Landed(r, applyStoredEvent(run[r], e), apply(queue, r, e))
<1>1. appendedTo(run[r], <<e>>) = applyStoredEvent(run[r], e) /\ replayed(queue, r, <<e>>) = apply(queue, r, e)
  BY DEF appendedTo, replayed
<1>2. Landed(r, appendedTo(run[r], <<e>>), replayed(queue, r, <<e>>))
  BY DEF Record, Landed
<1> QED BY Zenon, <1>1, <1>2

(* An append of two. *)
LEMMA RecordTwo ==
    ASSUME NEW r, NEW e, NEW f, Record(r, <<e, f>>)
    PROVE  Landed(r, applyStoredEvent(applyStoredEvent(run[r], e), f), apply(apply(queue, r, e), r, f))
<1>1. /\ appendedTo(run[r], <<e, f>>) = applyStoredEvent(applyStoredEvent(run[r], e), f)
      /\ replayed(queue, r, <<e, f>>) = apply(apply(queue, r, e), r, f)
  BY DEF appendedTo, replayed
<1>2. Landed(r, appendedTo(run[r], <<e, f>>), replayed(queue, r, <<e, f>>))
  BY DEF Record, Landed
<1> QED BY Zenon, <1>1, <1>2

-----------------------------------------------------------------------------
(***************************************************************************)
(* What an append makes of the Run's record and of its place in the queue. *)
(***************************************************************************)
\* The record t, and the wait w and beginning b the replay has for it.
Lands(t, w, b, at) == RunOK(t, at) /\ Agrees(t, w, b)

\* Both reductions as they were.
Kept(s, w, b, at) == Lands(s, w, b, at) /\ s.state = "open" /\ at \in Nat

(* A placement ends the wait and keeps when it began. *)
LEMMA PlacedLands ==
    ASSUME NEW s, NEW w, NEW b, NEW at, Kept(s, w, b, at), NEW t \in 0..at, Dated(s, t),
           NEW u, u = [s EXCEPT !.selfImposedWait = @ + selfImposedSince(s, t), !.deferral = NoDeferral,
                                !.holds = TRUE, !.replaceable = FALSE, !.reclaimed = FALSE]
    PROVE  Lands(u, NotWaiting, b, at) /\ u.state = "open"
<1>1. /\ DOMAIN u = RunFields /\ u.state = "open" /\ u.holds = TRUE /\ u.deferral = NoDeferral
      /\ u.queuedSince = s.queuedSince /\ u.deferredAt = s.deferredAt
      /\ u.selfImposedWait = s.selfImposedWait + selfImposedSince(s, t)
  BY DEF Kept, Lands, RunOK, RunFields
<1>2. ~ SelfImposed(NoDeferral)
  BY DEF SelfImposed, NoDeferral
<1>3. Dated(u, at)
  <2>1. CASE s.queuedSince = Never
    <3>1. selfImposedSince(s, t) = 0 /\ s.selfImposedWait = 0
      BY <2>1, <1>2 DEF Dated, selfImposedSince, Kept
    <3> QED BY <1>1, <2>1, <3>1 DEF Dated
  <2>2. CASE s.queuedSince # Never
    <3>1. /\ s.queuedSince \in Nat /\ s.deferredAt \in Nat /\ s.selfImposedWait \in Nat /\ t \in Nat /\ at \in Nat
          /\ s.queuedSince <= s.deferredAt /\ s.deferredAt <= t /\ t <= at
          /\ s.queuedSince + s.selfImposedWait <= t
          /\ SelfImposed(s.deferral) => s.queuedSince + s.selfImposedWait <= s.deferredAt
      BY <2>2 DEF Dated, Kept
    <3>2. /\ selfImposedSince(s, t) \in Nat
          /\ s.queuedSince + s.selfImposedWait + selfImposedSince(s, t) <= t
      BY <3>1 DEF selfImposedSince
    <3>3. u.selfImposedWait \in Nat /\ u.queuedSince + u.selfImposedWait <= at
      BY <1>1, <3>1, <3>2
    <3>4. u.deferredAt <= at
      BY <1>1, <3>1
    <3> QED BY <1>1, <1>2, <2>2, <3>1, <3>3, <3>4 DEF Dated
  <2> QED BY <2>1, <2>2
<1>4. RunOK(u, at)
  BY <1>1, <1>3 DEF RunOK
<1>5. Agrees(u, NotWaiting, b)
  BY <1>1 DEF Agrees, Told, Kept, Lands
<1> QED BY <1>1, <1>4, <1>5 DEF Lands

(* An answer that it has to wait: both reductions date the wait alike. *)
LEMMA DeferredLands ==
    ASSUME NEW s, NEW w, NEW b, NEW at, Kept(s, w, b, at), NEW t \in 0..at, Dated(s, t), ~ s.holds,
           NEW d, d # NoDeferral,
           NEW u, u = [s EXCEPT !.selfImposedWait = @ + selfImposedSince(s, t), !.deferral = d,
                                !.deferredAt = t, !.queuedSince = IF @ = Never THEN t ELSE @],
           NEW c, c = IF b = Never THEN t ELSE b
    PROVE  Lands(u, [since |-> c, holdsNoQueue |-> HoldsNoQueue(d)], c, at)
<1>1. /\ DOMAIN u = RunFields /\ u.state = "open" /\ u.holds = s.holds /\ u.deferral = d
      /\ u.queuedSince = (IF s.queuedSince = Never THEN t ELSE s.queuedSince) /\ u.deferredAt = t
      /\ u.selfImposedWait = s.selfImposedWait + selfImposedSince(s, t)
  BY DEF Kept, Lands, RunOK, RunFields
<1>2. ~ SelfImposed(NoDeferral)
  BY DEF SelfImposed, NoDeferral
<1>3. Dated(u, at) /\ u.queuedSince \in Nat
  <2>0. t \in Nat /\ at \in Nat /\ t <= at /\ t # Never
    BY DEF Kept, Never
  <2>1. CASE s.queuedSince = Never
    <3>1. selfImposedSince(s, t) = 0 /\ s.selfImposedWait = 0
      BY <2>1, <1>2 DEF Dated, selfImposedSince, Kept
    <3>2. u.queuedSince = t /\ u.deferredAt = t /\ u.selfImposedWait = 0
      BY <1>1, <2>1, <3>1
    <3> QED BY <2>0, <3>2 DEF Dated
  <2>2. CASE s.queuedSince # Never
    <3>1. /\ s.queuedSince \in Nat /\ s.deferredAt \in Nat /\ s.selfImposedWait \in Nat
          /\ s.queuedSince <= s.deferredAt /\ s.deferredAt <= t
          /\ s.queuedSince + s.selfImposedWait <= t
          /\ SelfImposed(s.deferral) => s.queuedSince + s.selfImposedWait <= s.deferredAt
      BY <2>2 DEF Dated, Kept
    <3>2. /\ selfImposedSince(s, t) \in Nat
          /\ s.queuedSince + s.selfImposedWait + selfImposedSince(s, t) <= t
      BY <2>0, <3>1 DEF selfImposedSince
    <3>3. u.selfImposedWait \in Nat /\ u.queuedSince + u.selfImposedWait <= t /\ u.queuedSince = s.queuedSince
      BY <1>1, <2>2, <3>1, <3>2
    <3>4. u.queuedSince <= u.deferredAt /\ u.queuedSince + u.selfImposedWait <= at
      BY <1>1, <2>0, <3>1, <3>3
    <3> QED BY <1>1, <2>0, <2>2, <3>1, <3>3, <3>4 DEF Dated
  <2> QED BY <2>1, <2>2
<1>4. RunOK(u, at)
  BY <1>1, <1>3 DEF RunOK, Kept, Lands
<1>5. b = s.queuedSince
  BY DEF Kept, Lands, Agrees
<1>6. Agrees(u, [since |-> c, holdsNoQueue |-> HoldsNoQueue(d)], c)
  BY <1>1, <1>5 DEF Agrees, Told
<1> QED BY <1>4, <1>6 DEF Lands

(* A Run that is closed leaves the queue, whatever was said of it last. *)
LEMMA ClosedLands ==
    ASSUME NEW s, NEW w, NEW b, NEW at, Kept(s, w, b, at), NEW u,
           DOMAIN u = RunFields, u.state = "closed", u.holds = FALSE,
           u.queuedSince = s.queuedSince, u.deferredAt = s.deferredAt,
           u.selfImposedWait = s.selfImposedWait,
           u.deferral = s.deferral \/ ~ SelfImposed(u.deferral)
    PROVE  Lands(u, NotWaiting, Never, at)
<1>1. Dated(u, at)
  BY DEF Kept, Lands, RunOK, Dated
<1>2. RunOK(u, at)
  BY Zenon, <1>1 DEF RunOK
<1>3. Agrees(u, NotWaiting, Never)
  BY DEF Agrees, Told
<1> QED BY <1>2, <1>3 DEF Lands

(* A Run whose wait nothing was said about keeps its place in the queue. *)
LEMMA SameLands ==
    ASSUME NEW s, NEW w, NEW b, NEW at, Kept(s, w, b, at), NEW u,
           DOMAIN u = RunFields, u.state = s.state, u.holds \in BOOLEAN,
           u.queuedSince = s.queuedSince, u.deferredAt = s.deferredAt,
           u.selfImposedWait = s.selfImposedWait, u.deferral = s.deferral
    PROVE  Lands(u, w, b, at)
<1>1. Dated(u, at)
  BY DEF Kept, Lands, RunOK, Dated
<1>2. RunOK(u, at)
  BY <1>1 DEF RunOK, Kept, Lands
<1>3. Agrees(u, w, b)
  BY DEF Agrees, Told, Kept, Lands
<1> QED BY <1>2, <1>3 DEF Lands

-----------------------------------------------------------------------------
(* A family is a finite set. *)
LEMMA FamilyFinite ==
    ASSUME NEW h \in SUBSET Runs, NEW r
    PROVE  IsFiniteSet(Family(h, r)) /\ Cardinality(Family(h, r)) \in Nat
<1>1. Family(h, r) \in SUBSET Runs
  BY DEF Family
<1>2. IsFiniteSet(Family(h, r))
  BY <1>1, RunsAssumption, FS_Subset
<1> QED BY <1>2, FS_CardinalityType

(* Giving capacity back makes no family wider. *)
LEMMA FitsWithout ==
    ASSUME NEW h \in SUBSET Runs, NEW r, Fits(h)
    PROVE  Fits(h \ {r})
<1> SUFFICES ASSUME NEW x \in Runs, GroupOf[x] # None
             PROVE  Cardinality(Family(h \ {r}, x)) <= MaxParallel
  BY DEF Fits
<1>1. Family(h \ {r}, x) \subseteq Family(h, x) /\ h \ {r} \in SUBSET Runs
  BY DEF Family
<1>2. Cardinality(Family(h \ {r}, x)) <= Cardinality(Family(h, x))
  BY Zenon, <1>1, FamilyFinite, FS_Subset
<1>3. /\ Cardinality(Family(h, x)) <= MaxParallel /\ Cardinality(Family(h, x)) \in Nat
      /\ Cardinality(Family(h \ {r}, x)) \in Nat /\ MaxParallel \in Nat
  BY <1>1, FamilyFinite, WidthAssumption DEF Fits
<1> QED BY <1>2, <1>3

(* A family that has a place for a Run is no wider than declared with it. *)
LEMMA FitsWith ==
    ASSUME NEW h \in SUBSET Runs, NEW r \in Runs, Fits(h), GroupOf[r] # None, Room(h, r)
    PROVE  Fits(h \cup {r})
<1> SUFFICES ASSUME NEW x \in Runs, GroupOf[x] # None
             PROVE  Cardinality(Family(h \cup {r}, x)) <= MaxParallel
  BY DEF Fits
<1>1. CASE GroupOf[x] = GroupOf[r]
  <2> DEFINE f == Family(h \ {r}, r)
  <2>1. Family(h \cup {r}, x) = f \cup {r} /\ r \notin f
    BY <1>1 DEF Family
  <2>2. IsFiniteSet(f) /\ Cardinality(f) \in Nat /\ Cardinality(f) < MaxParallel
    <3>1. h \ {r} \in SUBSET Runs
      OBVIOUS
    <3> QED BY <3>1, FamilyFinite DEF Room
  <2>3. Cardinality(f \cup {r}) = Cardinality(f) + 1
    BY Zenon, <2>1, <2>2, FS_AddElement
  <2> HIDE DEF f
  <2> QED BY <2>1, <2>2, <2>3, WidthAssumption
<1>2. CASE GroupOf[x] # GroupOf[r]
  <2>1. Family(h \cup {r}, x) = Family(h, x)
    BY <1>2 DEF Family
  <2> QED BY <2>1 DEF Fits
<1> QED BY <1>1, <1>2

(* Giving capacity back takes nobody's place away. *)
LEMMA RoomWithout ==
    ASSUME NEW h \in SUBSET Runs, NEW r, NEW x, Room(h, x)
    PROVE  Room(h \ {r}, x)
<1> SUFFICES ASSUME GroupOf[x] # None
             PROVE  Cardinality(Family((h \ {r}) \ {x}, x)) < MaxParallel
  BY DEF Room
<1> DEFINE f == Family((h \ {r}) \ {x}, x)  g == Family(h \ {x}, x)
<1>1. f \subseteq g /\ (h \ {r}) \ {x} \in SUBSET Runs /\ h \ {x} \in SUBSET Runs
  BY DEF Family
<1>2. IsFiniteSet(g) /\ Cardinality(g) \in Nat /\ Cardinality(f) \in Nat
  BY <1>1, FamilyFinite
<1>3. Cardinality(f) <= Cardinality(g)
  BY Zenon, <1>1, <1>2, FS_Subset
<1>4. Cardinality(g) < MaxParallel
  BY DEF Room
<1> HIDE DEF f, g
<1>5. Cardinality(f) < MaxParallel
  BY <1>2, <1>3, <1>4, WidthAssumption
<1> QED BY <1>5 DEF f

-----------------------------------------------------------------------------
(***************************************************************************)
(* An append to Run r, as both reductions see it.                          *)
(***************************************************************************)
\* The replay p tells of nobody but r anything new.
Aside(r, p) ==
    \A x \in Runs : x # r => p.waiting[x] = queue.waiting[x] /\ p.began[x] = queue.began[x]

\* The capacity that r takes or gives back.
Takes(r, u, h) ==
    \/ h \in {queue.holding, queue.holding \ {r}} /\ (u.holds => h = queue.holding /\ run[r].holds)
    \/ h = queue.holding /\ GroupOf[r] = None
    \/ h = queue.holding \cup {r} /\ GroupOf[r] # None /\ Room(queue.holding, r)

Moved(r, u, p) ==
    /\ QueueShape(p) /\ Aside(r, p) /\ Takes(r, u, p.holding)
    /\ Lands(u, p.waiting[r], p.began[r], now)

(* An append that lands keeps what is known of every Run. *)
LEMMA MovedKeeps ==
    ASSUME IInv, NEW r \in Runs, NEW u, NEW p, Moved(r, u, p),
           Landed(r, u, p), now' = now,
           door' # Free => \E t \in 0..now : DoorOK(door.run, t, door.events)' /\ door' = door
    PROVE  IInv'
<1>1. DOMAIN run' = Runs /\ run'[r] = u /\ \A x \in Runs : x # r => run'[x] = run[x]
  BY DEF IInv, Landed
<1>2. QueueShape(queue)' /\ now' \in Nat
  BY DEF Moved, IInv, QueueShape, Landed
<1>3. ASSUME NEW x \in Runs
      PROVE  RunOK(run'[x], now) /\ Agrees(run'[x], queue'.waiting[x], queue'.began[x])
  <2>1. CASE x = r
    BY <1>1, <2>1 DEF Moved, Lands, Landed
  <2>2. CASE x # r
    BY <1>1, <2>2 DEF Moved, Aside, IInv, Landed
  <2> QED BY <2>1, <2>2
<1>4. Holding'
  <2>1. /\ Fits(queue.holding) /\ queue.holding \in SUBSET Runs
        /\ \A x \in Runs : GroupOf[x] # None /\ run[x].holds => x \in queue.holding
    BY DEF IInv, Holding, QueueShape
  <2>2. Fits(queue'.holding)
    BY Zenon, <2>1, FitsWithout, FitsWith DEF Moved, Takes, Landed
  <2>3. ASSUME NEW x \in Runs, GroupOf[x] # None, run'[x].holds PROVE x \in queue'.holding
    <3>1. CASE x = r
      BY <1>1, <2>1, <2>3, <3>1 DEF Moved, Takes, Landed
    <3>2. CASE x # r
      BY <1>1, <2>1, <2>3, <3>2 DEF Moved, Takes, Landed
    <3> QED BY <3>1, <3>2
  <2>4. Fits(queue.holding)'
    BY <2>2 DEF Fits, Family
  <2> QED BY <2>3, <2>4 DEF Holding
<1>5. door' # Free => \E t \in 0..now' : DoorOK(door.run, t, door.events)'
  OBVIOUS
<1>6. \A x \in Runs : RunOK(run[x], now)' /\ Agrees(run[x], queue.waiting[x], queue.began[x])'
  BY <1>3 DEF RunOK, Dated, Agrees
<1> QED BY Zenon, <1>1, <1>2, <1>4, <1>5, <1>6 DEF IInv

\* The records s and u tell the same of the Run's wait.
SameWait(s, u) ==
    /\ u.state = s.state /\ u.holds = s.holds /\ u.queuedSince = s.queuedSince
    /\ u.deferredAt = s.deferredAt /\ u.selfImposedWait = s.selfImposedWait
    /\ u.deferral = s.deferral

\* An append of somebody else's, which takes no capacity.
Away(r, u, p) == Moved(r, u, p) /\ p.holding \in {queue.holding, queue.holding \ {r}}

(* Whoever is at the door keeps its answer while others append elsewhere, or a      *)
(* cancel is appended to its own stream: nothing but the door adds to what families *)
(* hold.                                                                            *)
LEMMA MovedAside ==
    ASSUME IInv, NEW r \in Runs, NEW u, NEW p, Away(r, u, p),
           Landed(r, u, p), UNCHANGED <<now, door>>,
           door # Free /\ door.run = r => SameWait(run[r], u)
    PROVE  IInv'
<1>1. DOMAIN run' = Runs /\ run'[r] = u /\ \A x \in Runs : x # r => run'[x] = run[x]
  BY DEF IInv, Landed
<1>2. ASSUME door # Free PROVE \E t \in 0..now : DoorOK(door.run, t, door.events)' /\ door' = door
  <2>1. PICK t \in 0..now : DoorOK(door.run, t, door.events)
    BY <1>2 DEF IInv
  <2>2. /\ run'[door.run].state = "open" /\ ~ run'[door.run].holds
        /\ Dated(run'[door.run], t) /\ door.run \in Runs
    <3>1. CASE door.run = r
      BY <1>1, <1>2, <2>1, <3>1 DEF DoorOK, SameWait, Dated, SelfImposed
    <3>2. CASE door.run # r
      BY <1>1, <2>1, <3>2 DEF DoorOK
    <3> QED BY <3>1, <3>2
  <2>3. Room(queue.holding, door.run) => Room(queue'.holding, door.run)
    <3>1. queue.holding \in SUBSET Runs /\ queue'.holding \in {queue.holding, queue.holding \ {r}}
      BY DEF IInv, QueueShape, Away, Landed
    <3>2. queue'.holding = queue.holding \/ queue'.holding = queue.holding \ {r}
      BY <3>1
    <3> QED BY <3>1, <3>2, RoomWithout
  <2>4. Answered(door.run, t, door.events)'
    <3>1. Answered(door.run, t, door.events) /\ door' = door /\ \A x : Room(queue'.holding, x) <=> Room(queue.holding, x)'
      BY <2>1 DEF DoorOK, Room, Family, Landed
    <3> QED BY Zenon, <2>3, <3>1 DEF Answered
  <2>5. DoorOK(door.run, t, door.events)'
    BY <2>2, <2>4 DEF DoorOK, Dated
  <2> QED BY <2>5
<1>3. door' # Free => \E t \in 0..now : DoorOK(door.run, t, door.events)' /\ door' = door
  BY <1>2
<1> QED BY Zenon, <1>3, MovedKeeps DEF Away

(* The Run r, open or not, as the invariant has it. *)
LEMMA AsKept ==
    ASSUME IInv, NEW r \in Runs
    PROVE  /\ Lands(run[r], queue.waiting[r], queue.began[r], now) /\ QueueShape(queue)
           /\ run[r].state = "open" => Kept(run[r], queue.waiting[r], queue.began[r], now)
           /\ DOMAIN run[r] = RunFields /\ Aside(r, queue)
BY DEF IInv, Lands, Kept, RunOK, Aside

(* Giving capacity back, in the replay. *)
LEMMA LeftQueue ==
    ASSUME NEW q, QueueShape(q), NEW r \in Runs, NEW p, p = [q EXCEPT !.holding = @ \ {r}]
    PROVE  /\ QueueShape(p) /\ p.holding = q.holding \ {r}
           /\ p.waiting = q.waiting /\ p.began = q.began
BY DEF QueueShape, QueueFields

\* What was appended before the closing left the record v and the replay q.
Closable(r, v, q) ==
    /\ DOMAIN v = RunFields /\ v.queuedSince = run[r].queuedSince
    /\ v.deferredAt = run[r].deferredAt /\ v.selfImposedWait = run[r].selfImposedWait
    /\ v.deferral = run[r].deferral \/ ~ SelfImposed(v.deferral)
    /\ QueueShape(q) /\ Aside(r, q)
    /\ q.holding = queue.holding \/ q.holding = queue.holding \ {r}

(* The closing ends the wait and gives back whatever the Run holds. *)
LEMMA ClosedMoves ==
    ASSUME IInv, NEW r \in Runs, run[r].state = "open", NEW v, NEW q, Closable(r, v, q),
           NEW t, NEW d
    PROVE  Away(r, applyStoredEvent(v, At("closed", t, FALSE, d)), apply(q, r, At("closed", t, FALSE, d)))
<1> DEFINE u == applyStoredEvent(v, At("closed", t, FALSE, d))
           p == apply(q, r, At("closed", t, FALSE, d))
<1>1. u = [v EXCEPT !.state = "closed", !.holds = FALSE]
  BY DEF applyStoredEvent, At
<1>2. p = [[q EXCEPT !.holding = @ \ {r}] EXCEPT !.waiting[r] = NotWaiting, !.began[r] = Never]
  BY DEF apply, At, GivesBack, BeganAt
<1> HIDE DEF u, p
<1>3. /\ DOMAIN u = RunFields /\ u.state = "closed" /\ u.holds = FALSE
      /\ u.queuedSince = v.queuedSince /\ u.deferredAt = v.deferredAt
      /\ u.selfImposedWait = v.selfImposedWait /\ u.deferral = v.deferral
  BY <1>1 DEF RunFields, Closable
<1>4. Lands(u, NotWaiting, Never, now)
  BY Zenon, <1>3, AsKept, ClosedLands DEF Closable
<1>5. /\ QueueShape(p) /\ p.holding = q.holding \ {r}
      /\ p.waiting[r] = NotWaiting /\ p.began[r] = Never
      /\ \A x \in Runs : x # r => p.waiting[x] = q.waiting[x] /\ p.began[x] = q.began[x]
  BY <1>2 DEF QueueShape, QueueFields, Closable
<1>6. p.holding = queue.holding \ {r}
  BY <1>5 DEF Closable
<1>7. Aside(r, p)
  BY <1>5 DEF Aside, Closable
<1>8. Takes(r, u, p.holding)
  BY <1>3, <1>6 DEF Takes
<1>9. Away(r, u, p)
  BY <1>4, <1>5, <1>6, <1>7, <1>8 DEF Moved, Away
<1> QED BY Zenon, <1>9 DEF u, p

-----------------------------------------------------------------------------
(***************************************************************************)
(* What others append.                                                     *)
(***************************************************************************)
(* A launch that fails, a reclaim and a cancel leave the wait as it was.   *)
LEMMA SameMoves ==
    ASSUME IInv, NEW r \in Runs, run[r].state = "open", NEW u, DOMAIN u = RunFields,
           u.state = "open", u.holds \in BOOLEAN, u.holds => run[r].holds,
           u.queuedSince = run[r].queuedSince, u.deferredAt = run[r].deferredAt,
           u.selfImposedWait = run[r].selfImposedWait, u.deferral = run[r].deferral,
           NEW p, QueueShape(p), p.waiting = queue.waiting, p.began = queue.began,
           \/ p.holding = queue.holding
           \/ p.holding = queue.holding \ {r} /\ ~ u.holds
    PROVE  Away(r, u, p)
<1>1. Lands(u, queue.waiting[r], queue.began[r], now)
  <2>1. u.state = run[r].state /\ Kept(run[r], queue.waiting[r], queue.began[r], now)
    BY AsKept
  <2> QED BY Zenon, <2>1, SameLands
<1>2. Aside(r, p) /\ Takes(r, u, p.holding)
  BY DEF Aside, Takes
<1> QED BY <1>1, <1>2 DEF Moved, Away

(* A cancel marks the record and changes nothing of the queue. *)
LEMMA CancelRunOK ==
    ASSUME IInv, NEW r \in Runs, CancelRun(r)
    PROVE  IInv'
<1>1. /\ run[r].state = "open" /\ UNCHANGED <<now, door>>
      /\ Record(r, <<At("cancel_requested", now, FALSE, NoDeferral)>>)
  BY Zenon, EventFields DEF CancelRun
<1> DEFINE u == applyStoredEvent(run[r], At("cancel_requested", now, FALSE, NoDeferral))
           p == apply(queue, r, At("cancel_requested", now, FALSE, NoDeferral))
<1>2. Landed(r, u, p)
  BY Zenon, <1>1, RecordOne, RecordTwo
<1>3. u = [run[r] EXCEPT !.cancelled = TRUE]
  BY DEF applyStoredEvent, At
<1>4. p = queue
  BY DEF apply, At, GivesBack, BeganAt
<1> HIDE DEF u, p
<1>5. DOMAIN u = RunFields /\ SameWait(run[r], u)
  BY <1>3, AsKept DEF SameWait, RunFields
<1>6. run[r].holds \in BOOLEAN /\ QueueShape(p)
  BY <1>4 DEF IInv, RunOK
<1>7. Away(r, u, p)
  BY <1>1, <1>4, <1>5, <1>6, SameMoves DEF SameWait
<1> QED BY Zenon, <1>1, <1>2, <1>4, <1>5, <1>7, MovedAside

(* A reclaim gives the Booking back; the replay does not read it, and the place of the
   family stays taken. *)
LEMMA reclaimCapacityOK ==
    ASSUME IInv, NEW r \in Runs, reclaimCapacity(r)
    PROVE  IInv'
<1>1. /\ run[r].state = "open" /\ run[r].holds /\ UNCHANGED <<now, door>>
      /\ Record(r, <<At("capacity_reclaimed", now, FALSE, NoDeferral)>>)
  BY Zenon, EventFields DEF reclaimCapacity
<1> DEFINE u == applyStoredEvent(run[r], At("capacity_reclaimed", now, FALSE, NoDeferral))
           p == apply(queue, r, At("capacity_reclaimed", now, FALSE, NoDeferral))
<1>2. Landed(r, u, p)
  BY Zenon, <1>1, RecordOne, RecordTwo
<1>3. u = [run[r] EXCEPT !.holds = FALSE, !.replaceable = TRUE, !.reclaimed = TRUE]
  BY DEF applyStoredEvent, At
<1>4. p = queue /\ QueueShape(p)
  BY DEF apply, At, GivesBack, BeganAt, IInv
<1> HIDE DEF u, p
<1>5. /\ DOMAIN u = RunFields /\ u.state = "open" /\ u.holds = FALSE
      /\ u.queuedSince = run[r].queuedSince /\ u.deferredAt = run[r].deferredAt
      /\ u.selfImposedWait = run[r].selfImposedWait /\ u.deferral = run[r].deferral
  BY <1>1, <1>3, AsKept DEF RunFields
<1>6. Away(r, u, p)
  BY Zenon, <1>1, <1>4, <1>5, SameMoves
<1>7. door # Free => door.run # r
  BY <1>1 DEF IInv, DoorOK
<1> QED BY Zenon, <1>1, <1>2, <1>4, <1>6, <1>7, MovedAside

(* A launch that fails gives the place back. *)
LEMMA LaunchFailsOK ==
    ASSUME IInv, NEW r \in Runs, LaunchFails(r)
    PROVE  IInv'
<1> DEFINE e == At("launch_failed", now, FALSE, NoDeferral)
           c == At("closed", now, FALSE, NoDeferral)
           u == applyStoredEvent(run[r], e)
           p == apply(queue, r, e)
<1>1. /\ run[r].state = "open" /\ run[r].holds /\ UNCHANGED <<now, door>>
      /\ Record(r, <<e>>) \/ Record(r, <<e, c>>)
  BY Zenon, EventFields DEF LaunchFails
<1>2. u = [run[r] EXCEPT !.holds = FALSE, !.replaceable = TRUE]
  BY DEF applyStoredEvent, At
<1>3. p = [queue EXCEPT !.holding = @ \ {r}]
  BY DEF apply, At, GivesBack, BeganAt
<1>4. \/ Landed(r, u, p)
      \/ Landed(r, applyStoredEvent(u, c), apply(p, r, c))
  <2>1. CASE Record(r, <<e>>)
    BY Zenon, <2>1, RecordOne
  <2>2. CASE Record(r, <<e, c>>)
    BY Zenon, <2>2, RecordTwo
  <2> QED BY Zenon, <1>1, <2>1, <2>2
<1> HIDE DEF u, p
<1>5. /\ DOMAIN u = RunFields /\ u.state = "open" /\ u.holds = FALSE
      /\ u.queuedSince = run[r].queuedSince /\ u.deferredAt = run[r].deferredAt
      /\ u.selfImposedWait = run[r].selfImposedWait /\ u.deferral = run[r].deferral
  BY <1>1, <1>2, AsKept DEF RunFields
<1>6. /\ QueueShape(p) /\ p.holding = queue.holding \ {r}
      /\ p.waiting = queue.waiting /\ p.began = queue.began
  BY <1>3, LeftQueue DEF IInv
<1>7. door # Free => door.run # r
  BY <1>1 DEF IInv, DoorOK
<1>8. CASE Landed(r, u, p)
  <2>1. Away(r, u, p)
    BY Zenon, <1>1, <1>5, <1>6, SameMoves
  <2> QED BY Zenon, <1>1, <1>6, <1>7, <1>8, <2>1, MovedAside
<1>9. CASE Landed(r, applyStoredEvent(u, c), apply(p, r, c))
  <2>1. Closable(r, u, p)
    BY <1>5, <1>6 DEF Closable, Aside
  <2>2. Away(r, applyStoredEvent(u, c), apply(p, r, c))
    BY Zenon, <1>1, <2>1, ClosedMoves
  <2> QED BY Zenon, <1>1, <1>7, <1>9, <2>2, MovedAside
<1> QED BY Zenon, <1>4, <1>8, <1>9

(* A Run that closes leaves the queue and its family. *)
LEMMA CloseRunOK ==
    ASSUME IInv, NEW r \in Runs, CloseRun(r)
    PROVE  IInv'
<1> DEFINE c == At("closed", now, FALSE, NoDeferral)
<1>1. /\ run[r].state = "open" /\ door.run # r /\ UNCHANGED <<now, door>>
      /\ Record(r, <<c>>)
  BY Zenon, EventFields DEF CloseRun
<1>2. Landed(r, applyStoredEvent(run[r], c), apply(queue, r, c))
  BY Zenon, <1>1, RecordOne, RecordTwo
<1>3. DOMAIN run[r] = RunFields /\ QueueShape(queue) /\ Aside(r, queue)
  BY AsKept
<1>4. Away(r, applyStoredEvent(run[r], c), apply(queue, r, c))
  <2>1. Closable(r, run[r], queue)
    BY <1>3 DEF Closable
  <2> QED BY Zenon, <1>1, <2>1, ClosedMoves
<1> QED BY Zenon, <1>1, <1>2, <1>4, MovedAside

(* A Run is born waiting for its first answer. *)
LEMMA CreateRunOK ==
    ASSUME IInv, NEW r \in Runs, CreateRun(r)
    PROVE  IInv'
<1>1. PICK u : u = [run[r] EXCEPT !.state = "open"]
  BY Zenon
<1>2. /\ run[r].state = "none" /\ Landed(r, u, queue)
      /\ UNCHANGED <<now, door>>
  BY <1>1 DEF CreateRun, Landed
<1>3. /\ RunOK(run[r], now) /\ Agrees(run[r], queue.waiting[r], queue.began[r])
      /\ QueueShape(queue) /\ Aside(r, queue)
  BY DEF IInv, Aside
<1>4. /\ DOMAIN u = RunFields /\ u.state = "open" /\ u.holds = run[r].holds
      /\ u.queuedSince = run[r].queuedSince /\ u.deferredAt = run[r].deferredAt
      /\ u.selfImposedWait = run[r].selfImposedWait /\ u.deferral = run[r].deferral
  BY <1>1, <1>3 DEF RunOK, RunFields
<1>5. run[r].queuedSince = Never /\ run[r].deferral = NoDeferral /\ run[r].holds = FALSE
  BY <1>2, <1>3 DEF RunOK
<1>6. Dated(u, now)
  BY <1>3, <1>4, <1>5 DEF RunOK, Dated
<1>7. Lands(u, queue.waiting[r], queue.began[r], now)
  BY <1>2, <1>3, <1>4, <1>5, <1>6 DEF Lands, RunOK, Agrees, Told
<1>8. Away(r, u, queue)
  BY <1>3, <1>4, <1>5, <1>7 DEF Moved, Takes, Away
<1>9. door # Free => door.run # r
  BY <1>2 DEF IInv, DoorOK
<1> QED BY Zenon, <1>2, <1>8, <1>9, MovedAside

-----------------------------------------------------------------------------
(***************************************************************************)
(* The door.                                                               *)
(***************************************************************************)
(* The append of a placement takes capacity the family has a place for. *)
LEMMA PlacedMoves ==
    ASSUME IInv, NEW r \in Runs, NEW t \in 0..now, run[r].state = "open", Dated(run[r], t),
           Room(queue.holding, r), NEW d
    PROVE  Moved(r, applyStoredEvent(run[r], At("booking_decided", t, TRUE, d)),
                 apply(queue, r, At("booking_decided", t, TRUE, d)))
<1> DEFINE u == applyStoredEvent(run[r], At("booking_decided", t, TRUE, d))
           p == apply(queue, r, At("booking_decided", t, TRUE, d))
<1>1. u = [run[r] EXCEPT !.selfImposedWait = @ + selfImposedSince(run[r], t), !.deferral = NoDeferral,
                         !.holds = TRUE, !.replaceable = FALSE, !.reclaimed = FALSE]
  BY DEF applyStoredEvent, At
<1>2. p = [queue EXCEPT !.waiting[r] = NotWaiting,
                        !.holding = IF GroupOf[r] = None THEN @ ELSE @ \cup {r}]
  BY DEF apply, At, GivesBack, BeganAt
<1> HIDE DEF u, p
<1>3. Lands(u, NotWaiting, queue.began[r], now)
  <2>1. Kept(run[r], queue.waiting[r], queue.began[r], now)
    BY AsKept
  <2> QED BY Zenon, <1>1, <2>1, PlacedLands
<1>4. QueueShape(queue)
  BY AsKept
<1>5. /\ QueueShape(p) /\ p.waiting[r] = NotWaiting /\ p.began = queue.began
      /\ p.holding = IF GroupOf[r] = None THEN queue.holding ELSE queue.holding \cup {r}
      /\ \A x \in Runs : x # r => p.waiting[x] = queue.waiting[x]
  BY <1>2, <1>4 DEF QueueShape, QueueFields
<1>6. Aside(r, p)
  BY <1>5 DEF Aside
<1>7. Takes(r, u, p.holding)
  BY <1>5 DEF Takes
<1>8. Moved(r, u, p)
  BY <1>3, <1>5, <1>6, <1>7 DEF Moved
<1> QED BY Zenon, <1>8 DEF u, p

(* The append of an answer begins the wait, or goes on with it. *)
LEMMA DeferredMoves ==
    ASSUME IInv, NEW r \in Runs, NEW t \in 0..now, run[r].state = "open", Dated(run[r], t),
           ~ run[r].holds, NEW d, d # NoDeferral
    PROVE  Moved(r, applyStoredEvent(run[r], At("admission_deferred", t, FALSE, d)),
                 apply(queue, r, At("admission_deferred", t, FALSE, d)))
<1> DEFINE u == applyStoredEvent(run[r], At("admission_deferred", t, FALSE, d))
           p == apply(queue, r, At("admission_deferred", t, FALSE, d))
<1>1. u = [run[r] EXCEPT !.selfImposedWait = @ + selfImposedSince(run[r], t), !.deferral = d,
                         !.deferredAt = t, !.queuedSince = IF @ = Never THEN t ELSE @]
  BY DEF applyStoredEvent, At
<1>2. PICK c : c = IF queue.began[r] = Never THEN t ELSE queue.began[r]
  BY Zenon
<1>3. p = [queue EXCEPT !.began[r] = c, !.waiting[r] = [since |-> c, holdsNoQueue |-> HoldsNoQueue(d)]]
  BY <1>2 DEF apply, At, GivesBack, BeganAt
<1> HIDE DEF u, p
<1>4. Lands(u, [since |-> c, holdsNoQueue |-> HoldsNoQueue(d)], c, now)
  <2>1. Kept(run[r], queue.waiting[r], queue.began[r], now)
    BY AsKept
  <2> QED BY Zenon, <1>1, <1>2, <2>1, DeferredLands
<1>5. QueueShape(queue)
  BY AsKept
<1>6. /\ QueueShape(p) /\ p.waiting[r] = [since |-> c, holdsNoQueue |-> HoldsNoQueue(d)]
      /\ p.began[r] = c /\ p.holding = queue.holding
      /\ \A x \in Runs : x # r => p.waiting[x] = queue.waiting[x] /\ p.began[x] = queue.began[x]
  BY <1>3, <1>5 DEF QueueShape, QueueFields
<1>7. u.holds = FALSE
  <2>1. run[r].holds = FALSE /\ DOMAIN run[r] = RunFields
    BY DEF IInv, RunOK
  <2> QED BY <1>1, <2>1 DEF RunFields
<1>8. Aside(r, p)
  BY <1>6 DEF Aside
<1>9. Takes(r, u, p.holding)
  BY <1>6, <1>7 DEF Takes
<1>10. Moved(r, u, p)
  BY <1>4, <1>6, <1>8, <1>9 DEF Moved
<1> QED BY Zenon, <1>10 DEF u, p

(* The appends that close the Run, after a refusal or after a replacement that *)
(* found no machine.                                                           *)
LEMMA RefusedMoves ==
    ASSUME IInv, NEW r \in Runs, NEW t, run[r].state = "open", NEW d, ~ SelfImposed(d)
    PROVE  Closable(r, applyStoredEvent(run[r], At("admission_refused", t, FALSE, d)),
                    apply(queue, r, At("admission_refused", t, FALSE, d)))
<1> DEFINE u == applyStoredEvent(run[r], At("admission_refused", t, FALSE, d))
           p == apply(queue, r, At("admission_refused", t, FALSE, d))
<1>1. u = [run[r] EXCEPT !.deferral = d]
  BY DEF applyStoredEvent, At
<1>2. p = [[queue EXCEPT !.holding = @ \ {r}] EXCEPT !.waiting[r] = NotWaiting, !.began[r] = Never]
  BY DEF apply, At, GivesBack, BeganAt
<1> HIDE DEF u, p
<1>3. QueueShape(queue) /\ DOMAIN run[r] = RunFields
  BY AsKept
<1>4. /\ DOMAIN u = RunFields /\ u.queuedSince = run[r].queuedSince /\ u.deferral = d
      /\ u.deferredAt = run[r].deferredAt /\ u.selfImposedWait = run[r].selfImposedWait
  BY <1>1, <1>3 DEF RunFields
<1>5. /\ QueueShape(p) /\ p.holding = queue.holding \ {r}
      /\ \A x \in Runs : x # r => p.waiting[x] = queue.waiting[x] /\ p.began[x] = queue.began[x]
  BY <1>2, <1>3 DEF QueueShape, QueueFields
<1>6. Closable(r, u, p)
  BY <1>4, <1>5 DEF Closable, Aside
<1> QED BY Zenon, <1>6 DEF u, p

(* A decision that selects no machine leaves the record as it is, and the Run may close. *)
LEMMA UnplacedMoves ==
    ASSUME IInv, NEW r \in Runs, NEW t, run[r].state = "open", NEW d
    PROVE  Closable(r, applyStoredEvent(run[r], At("booking_decided", t, FALSE, d)),
                    apply(queue, r, At("booking_decided", t, FALSE, d)))
<1>1. /\ applyStoredEvent(run[r], At("booking_decided", t, FALSE, d)) = run[r]
      /\ apply(queue, r, At("booking_decided", t, FALSE, d)) = queue
  BY DEF applyStoredEvent, At, apply, GivesBack, BeganAt
<1>2. Closable(r, run[r], queue)
  BY AsKept DEF Closable
<1> QED BY Zenon, <1>1, <1>2

(* The append of what the door decided. *)
LEMMA CommitOK ==
    ASSUME IInv, Commit
    PROVE  IInv'
<1>1. PICK t \in 0..now : DoorOK(door.run, t, door.events)
  BY DEF IInv, Commit
<1>2. PICK r, e : r = door.run /\ e = door.events
  BY Zenon
<1>3. Record(r, e) /\ door' = Free /\ now' = now
  BY <1>2 DEF Commit
<1>4. r \in Runs /\ run[r].state = "open" /\ ~ run[r].holds /\ Dated(run[r], t) /\ Answered(r, t, e)
  BY <1>1, <1>2 DEF DoorOK
<1>5. ASSUME NEW u, NEW p, Moved(r, u, p), Landed(r, u, p)
      PROVE  IInv'
  BY Zenon, <1>3, <1>4, <1>5, MovedKeeps
<1> DEFINE c == At("closed", t, FALSE, NoDeferral)
<1>6. CASE e = <<>>
  <2>1. Landed(r, run[r], queue)
    BY <1>3, <1>6 DEF Record, appendedTo, replayed, Landed
  <2>2. Moved(r, run[r], queue)
    <3>1. Lands(run[r], queue.waiting[r], queue.began[r], now) /\ QueueShape(queue) /\ Aside(r, queue)
      BY <1>4, AsKept
    <3> QED BY <1>4, <3>1 DEF Moved, Takes
  <2> QED BY Zenon, <1>5, <2>1, <2>2
<1>7. CASE e = <<At("booking_decided", t, TRUE, NoDeferral)>> /\ Room(queue.holding, r)
  BY Zenon, <1>3, <1>4, <1>5, <1>7, RecordOne, PlacedMoves
<1>8. ASSUME NEW d \in Deferrals, d # NoDeferral, e = <<At("admission_deferred", t, FALSE, d)>>
      PROVE  IInv'
  BY Zenon, <1>3, <1>4, <1>5, <1>8, RecordOne, DeferredMoves
<1>9. ASSUME NEW d \in Deferrals, ~ SelfImposed(d), e = <<At("admission_refused", t, FALSE, d), c>>
      PROVE  IInv'
  <2>1. PICK v, q : /\ v = applyStoredEvent(run[r], At("admission_refused", t, FALSE, d))
                    /\ q = apply(queue, r, At("admission_refused", t, FALSE, d))
    BY Zenon
  <2>2. Landed(r, applyStoredEvent(v, c), apply(q, r, c))
    <3>1. Record(r, <<At("admission_refused", t, FALSE, d), c>>)
      BY Zenon, <1>3, <1>9
    <3>2. Landed(r, applyStoredEvent(applyStoredEvent(run[r], At("admission_refused", t, FALSE, d)), c),
                 apply(apply(queue, r, At("admission_refused", t, FALSE, d)), r, c))
      BY Zenon, <3>1, RecordTwo
    <3> QED BY Zenon, <2>1, <3>2
  <2>3. Closable(r, v, q)
    BY Zenon, <1>4, <1>9, <2>1, RefusedMoves
  <2>4. Moved(r, applyStoredEvent(v, c), apply(q, r, c))
    BY Zenon, <1>4, <2>3, ClosedMoves DEF Away
  <2> QED BY Zenon, <1>5, <2>2, <2>4
<1>10. CASE e = <<At("booking_decided", t, FALSE, NoDeferral), c>>
  <2>1. PICK v, q : /\ v = applyStoredEvent(run[r], At("booking_decided", t, FALSE, NoDeferral))
                    /\ q = apply(queue, r, At("booking_decided", t, FALSE, NoDeferral))
    BY Zenon
  <2>2. Landed(r, applyStoredEvent(v, c), apply(q, r, c))
    <3>1. Record(r, <<At("booking_decided", t, FALSE, NoDeferral), c>>)
      BY Zenon, <1>3, <1>10
    <3>2. Landed(r, applyStoredEvent(applyStoredEvent(run[r], At("booking_decided", t, FALSE, NoDeferral)), c),
                 apply(apply(queue, r, At("booking_decided", t, FALSE, NoDeferral)), r, c))
      BY Zenon, <3>1, RecordTwo
    <3> QED BY Zenon, <2>1, <3>2
  <2>3. Closable(r, v, q)
    BY Zenon, <1>4, <2>1, UnplacedMoves
  <2>4. Moved(r, applyStoredEvent(v, c), apply(q, r, c))
    BY Zenon, <1>4, <2>3, ClosedMoves DEF Away
  <2> QED BY Zenon, <1>5, <2>2, <2>4
<1> QED BY Zenon, <1>4, <1>6, <1>7, <1>8, <1>9, <1>10 DEF Answered

(* The door's holder gives up what it was about to append. *)
LEMMA AbandonOK ==
    ASSUME IInv, Abandon
    PROVE  IInv'
BY DEF Abandon, IInv, QueueShape, RunOK, Dated, Agrees, Told, Holding, Fits, Family, SelfImposed, HoldsNoQueue

(* The clock: what was decided stays decided when it was. *)
LEMMA TickOK ==
    ASSUME IInv, NEW d \in Durations, Tick(d)
    PROVE  IInv'
<1>1. /\ now \in Nat /\ d \in Nat /\ now' \in Nat /\ now <= now'
      /\ run' = run /\ queue' = queue /\ door' = door
  BY RunsAssumption DEF IInv, Tick
<1>2. ASSUME NEW s, Dated(s, now) PROVE Dated(s, now')
  BY <1>1, <1>2 DEF Dated
<1>3. \A x \in Runs : RunOK(run[x], now)'
  BY <1>1, <1>2 DEF IInv, RunOK
<1>4. \A x \in Runs : Agrees(run[x], queue.waiting[x], queue.began[x])'
  BY <1>1 DEF IInv
<1>5. QueueShape(queue)' /\ DOMAIN run' = Runs
  BY <1>1 DEF IInv, QueueShape
<1>6. Holding'
  BY <1>1 DEF IInv, Holding, Fits, Family
<1>7. ASSUME door' # Free PROVE \E t \in 0..now' : DoorOK(door.run, t, door.events)'
  <2>1. PICK t \in 0..now : DoorOK(door.run, t, door.events)
    BY <1>1, <1>7 DEF IInv
  <2>2. t \in 0..now'
    BY <1>1
  <2>3. DoorOK(door.run, t, door.events)'
    BY Zenon, <1>1, <2>1 DEF DoorOK, Answered, Room, Family, Dated
  <2> QED BY <2>2, <2>3
<1> QED BY Zenon, <1>1, <1>3, <1>4, <1>5, <1>6, <1>7 DEF IInv

-----------------------------------------------------------------------------
(* Whoever answers at the door answers from the record and the queue of now. *)
LEMMA AnswerOK ==
    ASSUME IInv, NEW r \in Runs, NeedsAdmission(r), NEW e, Answer(r, e), Answered(r, now, e)
    PROVE  IInv'
<1>1. /\ door' = [run |-> r, events |-> e] /\ now' = now /\ run' = run /\ queue' = queue
  BY DEF Answer
<1>2. door'.run = r /\ door'.events = e
  BY <1>1
<1>3. /\ \A x \in Runs : RunOK(run[x], now)'
      /\ \A x \in Runs : Agrees(run[x], queue.waiting[x], queue.began[x])'
      /\ QueueShape(queue)' /\ DOMAIN run' = Runs /\ now' \in Nat
  BY <1>1 DEF IInv, QueueShape, RunOK, Dated
<1>4. Holding'
  BY <1>1 DEF IInv, Holding, Fits, Family
<1>5. run[r].state = "open" /\ ~ run[r].holds /\ Dated(run[r], now)
  BY DEF NeedsAdmission, IInv, RunOK
<1>6. now \in 0..now'
  BY <1>1, <1>3
<1>7. Answered(door.run, now, door.events)'
  <2>1. Answered(r, now, e)'
    BY Zenon, <1>1 DEF Answered, Room, Family
  <2> QED BY Zenon, <1>1, <1>2, <2>1
<1>8. DoorOK(door.run, now, door.events)'
  BY <1>1, <1>2, <1>5, <1>7 DEF DoorOK, Dated
<1> QED BY Zenon, <1>1, <1>3, <1>4, <1>6, <1>8 DEF IInv

(* A wait that is recorded has a reason, and a refusal's is never the family. *)
LEMMA deferOrRefuseOK ==
    ASSUME NEW r \in Runs, NEW reason \in FleetAnswers \cup {"group_at_parallelism", "behind_higher_priority"},
           NEW behind \in SUBSET Runs, NEW wait
    PROVE  Answered(r, now, deferOrRefuse(r, Deferral(reason, behind), wait))
<1> DEFINE d == Deferral(reason, behind)
<1>1. d \in Deferrals /\ d # NoDeferral
  BY DEF Deferral, Deferrals, NoDeferral, FleetAnswers
<1>2. /\ [d EXCEPT !.reason = "bound_already_broken"] \in Deferrals
      /\ ~ SelfImposed([d EXCEPT !.reason = "bound_already_broken"])
  BY DEF Deferral, Deferrals, SelfImposed
<1> HIDE DEF d
<1>3. \/ deferOrRefuse(r, d, wait) = recordRefusal([d EXCEPT !.reason = "bound_already_broken"])
      \/ deferOrRefuse(r, d, wait) = <<>>
      \/ deferOrRefuse(r, d, wait) = <<Deferred(d)>>
  BY Zenon DEF deferOrRefuse, recordDeferral
<1>4. Answered(r, now, deferOrRefuse(r, d, wait))
  <2>1. CASE deferOrRefuse(r, d, wait) = recordRefusal([d EXCEPT !.reason = "bound_already_broken"])
    BY Zenon, <1>2, <2>1, EventFields DEF Answered
  <2>2. CASE deferOrRefuse(r, d, wait) = <<>>
    BY Zenon, <2>2 DEF Answered
  <2>3. CASE deferOrRefuse(r, d, wait) = <<Deferred(d)>>
    BY Zenon, <1>1, <2>3, EventFields DEF Answered
  <2> QED BY Zenon, <1>3, <2>1, <2>2, <2>3
<1> QED BY Zenon, <1>4 DEF d

(* The queue holds the Run back: a deferral or a refusal is what will be appended. *)
LEMMA AdmitHeldBackOK ==
    ASSUME IInv, NEW r \in Runs, AdmitHeldBack(r)
    PROVE  IInv'
<1>1. familyHolding(r) \in SUBSET Runs /\ ahead(r) \in SUBSET Runs
  BY DEF familyHolding, ahead, IInv, QueueShape
<1>2. PICK e : Answer(r, e) /\ Answered(r, now, e)
  <2>1. CASE Answer(r, deferOrRefuse(r, Deferral("group_at_parallelism", familyHolding(r)), -1))
    BY Zenon, <1>1, <2>1, deferOrRefuseOK
  <2>2. CASE Answer(r, deferOrRefuse(r, Deferral("behind_higher_priority", ahead(r)), -1))
    BY Zenon, <1>1, <2>2, deferOrRefuseOK
  <2>3. CASE Answer(r, recordRefusal(Deferral("bound_already_broken", {})))
    <3>1. Deferral("bound_already_broken", {}) \in Deferrals /\ ~ SelfImposed(Deferral("bound_already_broken", {}))
      BY DEF Deferral, Deferrals, SelfImposed
    <3>2. Answered(r, now, recordRefusal(Deferral("bound_already_broken", {})))
      BY Zenon, <3>1, EventFields DEF Answered
    <3> QED BY Zenon, <2>3, <3>2
  <2> QED BY Zenon, <2>1, <2>2, <2>3 DEF AdmitHeldBack
<1>3. NeedsAdmission(r)
  BY DEF AdmitHeldBack
<1> QED BY Zenon, <1>2, <1>3, AnswerOK

(* A Run that reaches Placement has a place in its family. *)
LEMMA stepPlaceOK ==
    ASSUME IInv, NEW r \in Runs, stepPlace(r)
    PROVE  IInv'
<1>1. NeedsAdmission(r) /\ familyHolding(r) = {} /\ Answer(r, <<Decided(TRUE)>>)
  BY DEF stepPlace, ReachesPlacement
<1>2. Room(queue.holding, r)
  <2> SUFFICES ASSUME GroupOf[r] # None
               PROVE  Cardinality(Family(queue.holding \ {r}, r)) < MaxParallel
    BY DEF Room
  <2> DEFINE f == Family(queue.holding \ {r}, r)
  <2>1. Cardinality(f) \in Nat
    BY FamilyFinite DEF IInv, QueueShape
  <2>2. Cardinality(f) >= MaxParallel => f = {}
    BY <1>1 DEF familyHolding, Family
  <2>3. f = {} => Cardinality(f) = 0
    BY FS_EmptySet
  <2> HIDE DEF f
  <2>4. Cardinality(f) < MaxParallel
    BY <2>1, <2>2, <2>3, WidthAssumption
  <2> QED BY <2>4 DEF f
<1>3. Answered(r, now, <<Decided(TRUE)>>)
  BY Zenon, <1>2, EventFields DEF Answered
<1> QED BY Zenon, <1>1, <1>3, AnswerOK

(* No machine takes the Run: a deferral or a closing decision is what will be appended. *)
LEMMA stepPlaceNowhereOK ==
    ASSUME IInv, NEW r \in Runs, NEW fleet \in Fleet, NEW wait, stepPlaceNowhere(r, fleet, wait)
    PROVE  IInv'
<1>1. /\ NeedsAdmission(r)
      /\ \/ Answer(r, <<Decided(FALSE), Event("closed")>>)
         \/ Answer(r, deferOrRefuse(r, Deferral(fleet, {}), wait))
  BY Zenon DEF stepPlaceNowhere, ReachesPlacement
<1>2. Answered(r, now, <<Decided(FALSE), Event("closed")>>)
  BY Zenon, EventFields DEF Answered
<1>3. Answered(r, now, deferOrRefuse(r, Deferral(fleet, {}), wait))
  <2>1. fleet \in FleetAnswers /\ {} \in SUBSET Runs
    BY FleetAssumption DEF FleetAnswers
  <2> QED BY Zenon, <2>1, deferOrRefuseOK
<1> QED BY Zenon, <1>1, <1>2, <1>3, AnswerOK

-----------------------------------------------------------------------------
(* The first state. *)
LEMMA InitOK == Init => IInv
<1> SUFFICES ASSUME Init PROVE IInv
  OBVIOUS
<1>1. now \in Nat /\ DOMAIN run = Runs /\ QueueShape(queue) /\ door = Free /\ queue.holding = {}
  BY DEF Init, QueueShape, EmptyQueue, QueueFields
<1>2. ASSUME NEW r \in Runs PROVE RunOK(run[r], now) /\ Agrees(run[r], queue.waiting[r], queue.began[r])
  <2>1. run[r] = NewRun /\ queue.waiting[r] = NotWaiting /\ queue.began[r] = Never
    BY DEF Init, EmptyQueue
  <2>2. RunOK(NewRun, now)
    BY DEF NewRun, RunOK, RunFields, Dated, Never
  <2>3. Agrees(NewRun, NotWaiting, Never)
    BY DEF NewRun, Agrees, Told
  <2> QED BY <2>1, <2>2, <2>3
<1>3. Holding
  <2>1. \A r \in Runs : Family(queue.holding, r) = {} /\ ~ run[r].holds
    BY <1>1 DEF Family, Init, NewRun
  <2>2. Fits(queue.holding)
    BY <2>1, FS_EmptySet, WidthAssumption DEF Fits
  <2> QED BY <2>1, <2>2 DEF Holding
<1> QED BY <1>1, <1>2, <1>3 DEF IInv

(* Every step keeps the invariant. *)
LEMMA Inductive == IInv /\ [Next]_vars => IInv'
<1> SUFFICES ASSUME IInv, [Next]_vars PROVE IInv'
  OBVIOUS
<1>1. CASE UNCHANGED vars
  <2>1. /\ now' = now /\ run' = run /\ queue' = queue /\ door' = door
    BY <1>1 DEF vars
  <2>2. Holding'
    BY <2>1 DEF IInv, Holding, Fits, Family
  <2>3. door' # Free => \E t \in 0..now' : DoorOK(door.run, t, door.events)'
    BY Zenon, <2>1 DEF IInv, DoorOK, Answered, Room, Family, Dated
  <2>4. /\ \A x \in Runs : RunOK(run[x], now)' /\ Agrees(run[x], queue.waiting[x], queue.began[x])'
        /\ QueueShape(queue)' /\ DOMAIN run' = Runs /\ now' \in Nat
    BY <2>1 DEF IInv, QueueShape, RunOK, Dated
  <2> QED BY Zenon, <2>2, <2>3, <2>4 DEF IInv
<1>2. CASE Next
  <2>1. ASSUME NEW r \in Runs,
               \/ AdmitHeldBack(r) \/ stepPlace(r)
               \/ \E fleet \in Fleet, wait \in Waits \cup {-1} : stepPlaceNowhere(r, fleet, wait)
               \/ CreateRun(r) \/ CancelRun(r) \/ LaunchFails(r) \/ reclaimCapacity(r) \/ CloseRun(r)
        PROVE  IInv'
    BY Zenon, <2>1, AdmitHeldBackOK, stepPlaceOK, stepPlaceNowhereOK, CreateRunOK, CancelRunOK,
       LaunchFailsOK, reclaimCapacityOK, CloseRunOK
  <2>2. CASE Commit
    BY Zenon, <2>2, CommitOK
  <2>3. CASE Abandon
    BY Zenon, <2>3, AbandonOK
  <2>4. ASSUME NEW d \in Durations, Tick(d) PROVE IInv'
    BY Zenon, <2>4, TickOK
  <2> QED BY Zenon, <1>2, <2>1, <2>2, <2>3, <2>4 DEF Next
<1> QED BY <1>1, <1>2

(* The invariant holds of every state the Spec reaches. *)
LEMMA Invariance == Spec => []IInv
BY InitOK, Inductive, PTL DEF Spec

-----------------------------------------------------------------------------
(***************************************************************************)
(* What the invariant says.                                                *)
(***************************************************************************)
(* No family holds more capacity than its width: the replay counts every   *)
(* member that holds some, and the door adds to that count only while it   *)
(* has the lock (stepAdmit, familyHolding).                                *)
THEOREM FamiliesFit == Spec => []FamilyWithinWidth
<1>1. IInv => FamilyWithinWidth
  <2> SUFFICES ASSUME IInv, NEW r \in Runs, GroupOf[r] # None
               PROVE  Cardinality({m \in Runs : GroupOf[m] = GroupOf[r] /\ run[m].holds}) <= MaxParallel
    BY DEF FamilyWithinWidth
  <2> DEFINE k == {m \in Runs : GroupOf[m] = GroupOf[r] /\ run[m].holds}
             f == Family(queue.holding, r)
  <2>1. IsFiniteSet(f) /\ Cardinality(f) \in Nat /\ Cardinality(f) <= MaxParallel
    BY FamilyFinite DEF IInv, QueueShape, Holding, Fits
  <2>2. k \subseteq f
    BY DEF Family, IInv, Holding
  <2> HIDE DEF k, f
  <2>3. Cardinality(k) <= Cardinality(f) /\ Cardinality(k) \in Nat
    BY <2>1, <2>2, FS_Subset, FS_CardinalityType
  <2>4. Cardinality(k) <= MaxParallel
    BY <2>1, <2>3, WidthAssumption
  <2> QED BY <2>4 DEF k
<1> QED BY Invariance, <1>1, PTL

(* A Run is told to wait exactly while the replay has it waiting, and both *)
(* date the wait alike (queueReplay.apply, applyStoredEvent).              *)
LEMMA Together == IInv => QueueAgreesWithRuns
<1> SUFFICES ASSUME IInv, NEW r \in Runs
             PROVE  /\ Waiting(r) <=> Told(run[r])
                    /\ Told(run[r]) => queue.waiting[r] = [since |-> run[r].queuedSince,
                                                           holdsNoQueue |-> HoldsNoQueue(run[r].deferral)]
  BY Zenon DEF QueueAgreesWithRuns, Told
<1>1. Agrees(run[r], queue.waiting[r], queue.began[r]) /\ Dated(run[r], now)
  BY DEF IInv, RunOK
<1>2. CASE Told(run[r])
  <2>1. queue.waiting[r] = [since |-> run[r].queuedSince, holdsNoQueue |-> HoldsNoQueue(run[r].deferral)]
    BY Zenon, <1>1, <1>2 DEF Agrees
  <2>2. run[r].queuedSince # Never
    BY <1>1, <1>2 DEF Dated, Told
  <2>3. queue.waiting[r].since = run[r].queuedSince
    BY <2>1
  <2>4. Waiting(r)
    BY <2>2, <2>3 DEF Waiting, NotWaiting
  <2> QED BY <1>2, <2>1, <2>4
<1>3. CASE ~ Told(run[r])
  BY <1>1, <1>3 DEF Agrees, Waiting
<1> QED BY <1>2, <1>3

(* The two reductions of the log never disagree about who is waiting, since *)
(* when, and whether others wait behind it.                                 *)
THEOREM ReductionsAgree == Spec => []QueueAgreesWithRuns
BY Invariance, Together, PTL

(* No Run is charged for less than nothing: what its own family held up is  *)
(* part of its wait (runState.wait, selfImposedSince).                      *)
THEOREM OwnPartOfWait == Spec => []SelfImposedWithinWait
<1>1. IInv => SelfImposedWithinWait
  <2> SUFFICES ASSUME IInv, NEW r \in Runs
               PROVE  SelfImposedSeconds(run[r], now) <= WaitSeconds(run[r], now)
    BY DEF SelfImposedWithinWait
  <2>1. Dated(run[r], now) /\ now \in Nat
    BY DEF IInv, RunOK
  <2>2. CASE run[r].queuedSince = Never
    BY <2>2 DEF SelfImposedSeconds, WaitSeconds
  <2>3. CASE run[r].queuedSince # Never
    BY <2>1, <2>3 DEF SelfImposedSeconds, WaitSeconds, selfImposedSince, Dated
  <2> QED BY <2>2, <2>3
<1> QED BY Invariance, <1>1, PTL

-----------------------------------------------------------------------------
(***************************************************************************)
(* Order.  Only stepPlace gives a machine, and only to a Run nobody is     *)
(* ahead of.                                                               *)
(***************************************************************************)
(* What a Run that is held back is told is not a placement. *)
LEMMA HeldBackIsNotPlaced ==
    ASSUME NEW r, NEW d, NEW wait
    PROVE  /\ deferOrRefuse(r, d, wait) # <<Decided(TRUE)>> /\ recordRefusal(d) # <<Decided(TRUE)>>
           /\ <<Decided(FALSE), Event("closed")>> # <<Decided(TRUE)>>
<1>1. \A a, b, c : <<a, b>> # <<c>>
  <2>1. \A a, b, c : Len(<<a, b>>) = 2 /\ Len(<<c>>) = 1
    OBVIOUS
  <2> QED BY <2>1
<1>2. \A a : <<>> # <<a>>
  OBVIOUS
<1>3. <<Deferred(d)>> # <<Decided(TRUE)>>
  <2>1. Deferred(d).type = "admission_deferred" /\ Decided(TRUE).type = "booking_decided"
    BY DEF Deferred, Decided, mustEvent
  <2>2. Deferred(d) # Decided(TRUE)
    BY Zenon, <2>1
  <2> QED BY <2>2
<1>4. \A b : recordRefusal(b) # <<Decided(TRUE)>>
  BY Zenon, <1>1 DEF recordRefusal
<1>5. recordDeferral(r, d) # <<Decided(TRUE)>>
  BY Zenon, <1>2, <1>3 DEF recordDeferral
<1> QED BY Zenon, <1>1, <1>4, <1>5 DEF deferOrRefuse

(* A machine is given in the step stepPlace, and past nobody who is ahead. *)
LEMMA DecidesMeans ==
    ASSUME IInv, Next, NEW r \in Runs, Decides(r)
    PROVE  ahead(r) = {}
<1>1. door = Free /\ door'.run = r /\ door'.events = <<Decided(TRUE)>>
  BY DEF Decides
<1>2. door' # Free
  BY <1>1, RunsAssumption DEF Free
<1>3. ASSUME NEW x \in Runs, NEW e, Answer(x, e) PROVE x = r /\ e = <<Decided(TRUE)>>
  <2>1. door' = [run |-> x, events |-> e]
    BY <1>3 DEF Answer
  <2>2. door'.run = x /\ door'.events = e
    BY <2>1
  <2> QED BY Zenon, <1>1, <2>2
<1>4. ASSUME NEW x \in Runs, AdmitHeldBack(x) PROVE FALSE
  BY Zenon, <1>3, <1>4, HeldBackIsNotPlaced DEF AdmitHeldBack
<1>5. ASSUME NEW x \in Runs, NEW fleet, NEW wait, stepPlaceNowhere(x, fleet, wait) PROVE FALSE
  BY Zenon, <1>3, <1>5, HeldBackIsNotPlaced DEF stepPlaceNowhere
<1>6. ASSUME NEW x \in Runs, stepPlace(x) PROVE ahead(r) = {}
  BY Zenon, <1>3, <1>6 DEF stepPlace, ReachesPlacement
<1>7. ASSUME NEW x \in Runs,
             CreateRun(x) \/ CancelRun(x) \/ LaunchFails(x) \/ reclaimCapacity(x) \/ CloseRun(x)
      PROVE  FALSE
  <2>1. door' = door
    BY Zenon, <1>7 DEF CreateRun, CancelRun, LaunchFails, reclaimCapacity, CloseRun
  <2> QED BY <1>1, <1>2, <2>1
<1>8. ~ Commit /\ ~ Abandon
  BY <1>1 DEF Commit, Abandon
<1>9. ASSUME NEW d \in Durations, Tick(d) PROVE FALSE
  BY <1>1, <1>2, <1>9 DEF Tick
<1> QED BY Zenon, <1>4, <1>5, <1>6, <1>7, <1>8, <1>9 DEF Next

\* What a class is worth without a wait, what a moment of waiting adds, and its
\* maximum queue delay.
Worths == {<<2400, 48, 1>>, <<1680, 496, 3>>, <<1200, 408, 6>>, <<480, 324, 12>>, <<0, 202, 24>>}

Worth(r, k) ==
    /\ Scale * AdmissionOf(r).priority = k[1]
    /\ Aging(AdmissionOf(r)) = k[2]
    /\ AdmissionOf(r).maxQueueDelay = k[3]

(* The class table. *)
LEMMA ClassTable ==
    ASSUME NEW r \in Runs
    PROVE  \E k \in Worths : Worth(r, k)
<1>1. ClassOf[r] \in ServiceClasses
  BY ClassAssumption
<1>2. /\ 24 \div 1 = 24 /\ 24 \div 3 = 8 /\ 24 \div 6 = 4 /\ 24 \div 12 = 2 /\ 24 \div 24 = 1
  OBVIOUS
<1>3. CASE ClassOf[r] = "interactive"
  <2>1. AdmissionOf(r) = Policy(100, 1, 2, FALSE)
    BY <1>1, <1>3 DEF AdmissionOf, ClassPolicy, ServiceClasses, TopClassPriority
  <2>2. /\ Scale * AdmissionOf(r).priority = 2400 /\ Aging(AdmissionOf(r)) = 48
        /\ AdmissionOf(r).maxQueueDelay = 1
    BY <1>2, <2>1 DEF Policy, Aging, Scale, TopClassPriority
  <2> QED BY <2>2 DEF Worths, Worth
<1>4. CASE ClassOf[r] = "experimental"
  <2>1. AdmissionOf(r) = Policy(70, 3, 12, FALSE)
    BY <1>1, <1>4 DEF AdmissionOf, ClassPolicy, ServiceClasses
  <2>2. /\ Scale * AdmissionOf(r).priority = 1680 /\ Aging(AdmissionOf(r)) = 496
        /\ AdmissionOf(r).maxQueueDelay = 3
    BY <1>2, <2>1 DEF Policy, Aging, Scale, TopClassPriority
  <2> QED BY <2>2 DEF Worths, Worth
<1>5. CASE ClassOf[r] = "standard"
  <2>1. AdmissionOf(r) = Policy(50, 6, 48, FALSE)
    BY <1>1, <1>5 DEF AdmissionOf, ClassPolicy, ServiceClasses
  <2>2. /\ Scale * AdmissionOf(r).priority = 1200 /\ Aging(AdmissionOf(r)) = 408
        /\ AdmissionOf(r).maxQueueDelay = 6
    BY <1>2, <2>1 DEF Policy, Aging, Scale, TopClassPriority
  <2> QED BY <2>2 DEF Worths, Worth
<1>6. CASE ClassOf[r] = "batch"
  <2>1. AdmissionOf(r) = Policy(20, 12, 288, FALSE)
    BY <1>1, <1>6 DEF AdmissionOf, ClassPolicy, ServiceClasses
  <2>2. /\ Scale * AdmissionOf(r).priority = 480 /\ Aging(AdmissionOf(r)) = 324
        /\ AdmissionOf(r).maxQueueDelay = 12
    BY <1>2, <2>1 DEF Policy, Aging, Scale, TopClassPriority
  <2> QED BY <2>2 DEF Worths, Worth
<1>7. CASE ClassOf[r] = "opportunistic"
  <2>1. AdmissionOf(r) = Policy(0, 24, 0, TRUE)
    BY <1>1, <1>7 DEF AdmissionOf, ClassPolicy, ServiceClasses
  <2>2. /\ Scale * AdmissionOf(r).priority = 0 /\ Aging(AdmissionOf(r)) = 202
        /\ AdmissionOf(r).maxQueueDelay = 24
    BY <1>2, <2>1 DEF Policy, Aging, Scale, TopClassPriority
  <2> QED BY <2>2 DEF Worths, Worth
<1>8. ClassOf[r] \in {"interactive", "experimental", "standard", "batch", "opportunistic"}
  BY Zenon, <1>1 DEF ServiceClasses
<1> QED BY <1>3, <1>4, <1>5, <1>6, <1>7, <1>8

(* Within a class a longer wait is worth more. *)
LEMMA Rising ==
    ASSUME NEW r \in Runs, NEW m \in Nat, NEW n \in Nat, m < n
    PROVE  EffectivePriority(AdmissionOf(r), m) < EffectivePriority(AdmissionOf(r), n)
<1>1. PICK k \in Worths : Worth(r, k)
  BY Zenon, ClassTable
<1>2. /\ EffectivePriority(AdmissionOf(r), m) = k[1] + (IF m <= 0 THEN 0 ELSE k[2] * m)
      /\ EffectivePriority(AdmissionOf(r), n) = k[1] + (IF n <= 0 THEN 0 ELSE k[2] * n)
  BY <1>1 DEF EffectivePriority, Worth
<1> QED BY <1>2 DEF Worths

(* Half the maximum queue delay is worth more than any class without a wait. *)
LEMMA Aged ==
    ASSUME NEW r \in Runs, NEW o \in Runs, NEW n \in Nat, 2 * n >= AdmissionOf(o).maxQueueDelay
    PROVE  EffectivePriority(AdmissionOf(r), 0) < EffectivePriority(AdmissionOf(o), n)
<1>1. PICK k \in Worths : Worth(o, k)
  BY Zenon, ClassTable
<1>2. PICK j \in Worths : Worth(r, j)
  BY Zenon, ClassTable
<1>3. EffectivePriority(AdmissionOf(o), n) = k[1] + (IF n <= 0 THEN 0 ELSE k[2] * n)
  BY <1>1 DEF EffectivePriority, Worth
<1>4. EffectivePriority(AdmissionOf(r), 0) = j[1]
  BY <1>2 DEF EffectivePriority, Worth, Worths
<1>5. j[1] <= 2400 /\ 2400 < k[1] + (IF n <= 0 THEN 0 ELSE k[2] * n) /\ j[1] \in Int
  BY <1>1 DEF Worths, Worth
<1> QED BY <1>1, <1>3, <1>4, <1>5 DEF Worths

(* What a Run that holds the queue is worth there: its own record's wait. *)
LEMMA HoldsQueueMeans ==
    ASSUME IInv, NEW o \in Runs, HoldsQueue(o)
    PROVE  /\ Waiting(o) /\ ~ queue.waiting[o].holdsNoQueue
           /\ now - queue.waiting[o].since = WaitSeconds(run[o], now)
           /\ WaitSeconds(run[o], now) \in Nat /\ run[o].queuedSince # Never
<1>1. Told(run[o]) /\ ~ HoldsNoQueue(run[o].deferral)
  BY DEF HoldsQueue, Told
<1>2. /\ Waiting(o)
      /\ queue.waiting[o] = [since |-> run[o].queuedSince, holdsNoQueue |-> HoldsNoQueue(run[o].deferral)]
  BY Zenon, <1>1, Together DEF QueueAgreesWithRuns, Told
<1>3. queue.waiting[o].since = run[o].queuedSince /\ queue.waiting[o].holdsNoQueue = HoldsNoQueue(run[o].deferral)
  BY <1>2
<1>4. Dated(run[o], now) /\ now \in Nat
  BY DEF IInv, RunOK
<1>5. run[o].queuedSince # Never
  BY <1>1, <1>4 DEF Dated, Told
<1>6. now - queue.waiting[o].since = WaitSeconds(run[o], now) /\ WaitSeconds(run[o], now) \in Nat
  BY <1>3, <1>4, <1>5 DEF WaitSeconds, Dated
<1> QED BY <1>1, <1>2, <1>3, <1>5, <1>6

(* A Run's wait, by its own record. *)
LEMMA WaitIsNat ==
    ASSUME IInv, NEW r \in Runs
    PROVE  WaitSeconds(run[r], now) \in Nat
BY DEF IInv, RunOK, WaitSeconds, Dated

(* First come, first served within a class: the replay keeps the moment a wait  *)
(* began through placements and failed launches, and a longer wait of the same  *)
(* class is worth more (ahead, EffectivePriority, queueReplay.began).           *)
THEOREM ServedInOrder == Spec => SameClassInOrder
<1> DEFINE Order ==
      \A r \in Runs, o \in Runs :
          Decides(r) /\ HoldsQueue(o) /\ ClassOf[o] = ClassOf[r] /\ ~ AdmissionOf(r).backfill
          => WaitSeconds(run[o], now) <= WaitSeconds(run[r], now)
<1>1. IInv /\ [Next]_vars => [Order]_vars
  <2> SUFFICES ASSUME IInv, Next, NEW r \in Runs, NEW o \in Runs, Decides(r), HoldsQueue(o),
                      ClassOf[o] = ClassOf[r], ~ AdmissionOf(r).backfill,
                      ~ (WaitSeconds(run[o], now) <= WaitSeconds(run[r], now))
               PROVE  FALSE
    BY Zenon
  <2>1. WaitSeconds(run[r], now) \in Nat /\ WaitSeconds(run[o], now) \in Nat
    BY WaitIsNat
  <2>2. WaitSeconds(run[r], now) < WaitSeconds(run[o], now) /\ o # r
    BY <2>1
  <2>3. EffectivePriority(AdmissionOf(r), WaitSeconds(run[r], now)) <
            EffectivePriority(AdmissionOf(r), WaitSeconds(run[o], now))
    BY <2>1, <2>2, Rising
  <2>4. QueuedPriority(o) > Priority(r)
    <3>1. AdmissionOf(o) = AdmissionOf(r) /\ now - queue.waiting[o].since = WaitSeconds(run[o], now)
      BY HoldsQueueMeans DEF AdmissionOf
    <3> QED BY <2>3, <3>1 DEF QueuedPriority, Priority
  <2>5. o \in ahead(r)
    BY <2>2, <2>4, HoldsQueueMeans DEF ahead
  <2> QED BY <2>5, DecidesMeans
<1> QED BY Invariance, <1>1, PTL DEF Spec, SameClassInOrder

(* Aging outranks arrivals of every class: a Run that never waited gets no      *)
(* machine past one that has waited half its bound (AgingPerSecond, ahead).     *)
THEOREM AgingOutranks == Spec => AgedOutranksArrivals
<1> DEFINE Ranked ==
      \A r \in Runs, o \in Runs :
          Decides(r) /\ run[r].queuedSince = Never /\ HoldsQueue(o) =>
              IF AdmissionOf(r).backfill
              THEN ~ Starved(AdmissionOf(o), WaitSeconds(run[o], now))
              ELSE 2 * WaitSeconds(run[o], now) < AdmissionOf(o).maxQueueDelay
<1>1. IInv /\ [Next]_vars => [Ranked]_vars
  <2> SUFFICES ASSUME IInv, Next, NEW r \in Runs, NEW o \in Runs, Decides(r),
                      run[r].queuedSince = Never, HoldsQueue(o)
               PROVE  IF AdmissionOf(r).backfill
                      THEN ~ Starved(AdmissionOf(o), WaitSeconds(run[o], now))
                      ELSE 2 * WaitSeconds(run[o], now) < AdmissionOf(o).maxQueueDelay
    BY Zenon
  <2> DEFINE w == WaitSeconds(run[o], now)
  <2>1. /\ Waiting(o) /\ ~ queue.waiting[o].holdsNoQueue /\ w \in Nat /\ o # r
        /\ now - queue.waiting[o].since = w
    BY HoldsQueueMeans
  <2>2. WaitSeconds(run[r], now) = 0
    BY DEF WaitSeconds
  <2>3. AdmissionOf(o).maxQueueDelay \in Nat
    BY ClassTable DEF Worths, Worth
  <2> HIDE DEF w
  <2>4. ASSUME 2 * w >= AdmissionOf(o).maxQueueDelay PROVE QueuedPriority(o) > Priority(r)
    <3>1. EffectivePriority(AdmissionOf(r), 0) < EffectivePriority(AdmissionOf(o), w)
      BY <2>1, <2>4, Aged
    <3> QED BY <2>1, <2>2, <3>1 DEF QueuedPriority, Priority
  <2>5. ahead(r) = {}
    BY DecidesMeans
  <2>6. CASE AdmissionOf(r).backfill
    <3>1. ~ Starved(AdmissionOf(o), w)
      <4> SUFFICES ASSUME Starved(AdmissionOf(o), w) PROVE FALSE
        OBVIOUS
      <4>1. 2 * w >= AdmissionOf(o).maxQueueDelay
        BY <2>1, <2>3 DEF Starved
      <4>2. o \in ahead(r)
        BY <2>1, <2>4, <4>1 DEF ahead
      <4> QED BY <2>5, <4>2
    <3> QED BY <2>6, <3>1 DEF w
  <2>7. CASE ~ AdmissionOf(r).backfill
    <3>1. 2 * w < AdmissionOf(o).maxQueueDelay
      <4> SUFFICES ASSUME ~ (2 * w < AdmissionOf(o).maxQueueDelay) PROVE FALSE
        OBVIOUS
      <4>1. 2 * w >= AdmissionOf(o).maxQueueDelay
        BY <2>1, <2>3
      <4>2. o \in ahead(r)
        BY <2>1, <2>4, <2>7, <4>1 DEF ahead
      <4> QED BY <2>5, <4>2
    <3> QED BY <2>7, <3>1 DEF w
  <2> QED BY <2>6, <2>7
<1> QED BY Invariance, <1>1, PTL DEF Spec, AgedOutranksArrivals

(***************************************************************************)
(* Preparing content ahead of queued Runs (Prewarm).                       *)
(***************************************************************************)
PassRecords ==
    [stage : {"idle", "desired", "stating", "began"}, wanted : SUBSET Items,
     unsent : SUBSET Items, began : BOOLEAN]

PrewarmTyped ==
    /\ command \in [Items -> {"none", "pending", "applied", "refused"}]
    /\ memory \in [stated : BOOLEAN, sent : SUBSET Items]
    /\ pass \in [Drivers -> PassRecords]

\* What a pass has already asked for has a command.
CrossedWasAsked ==
    \A d \in Drivers : pass[d].stage = "stating" =>
        \A i \in pass[d].wanted \ pass[d].unsent : command[i] # "none"

PrewarmIInv == PrewarmTyped /\ RememberedWasAsked /\ CrossedWasAsked

\* A step that moves one pass to a place where it has not crossed anything.
LEMMA OtherPasses ==
    ASSUME PrewarmIInv, NEW d \in Drivers, NEW p \in PassRecords,
           pass' = [pass EXCEPT ![d] = p], command' = command,
           p.stage = "stating" => p.wanted \ p.unsent = {}
    PROVE  CrossedWasAsked' /\ pass' \in [Drivers -> PassRecords]
<1>1. pass \in [Drivers -> PassRecords]
  BY DEF PrewarmIInv, PrewarmTyped
<1>2. pass' \in [Drivers -> PassRecords]
  BY <1>1
<1>3. \A e \in Drivers : pass'[e] = IF e = d THEN p ELSE pass[e]
  BY <1>1
<1>4. CrossedWasAsked'
  BY <1>3 DEF PrewarmIInv, CrossedWasAsked
<1> QED
  BY <1>2, <1>4

\* A pass that is over is a pass.
LEMMA IdleTyped == IdlePass \in PassRecords
BY DEF IdlePass, PassRecords

\* A pass that begins has crossed nothing.
LEMMA PrewarmIInvStep ==
    ASSUME PrewarmIInv, NEW d \in Drivers, Prewarm(d) PROVE PrewarmIInv'
<1>1. prewarmDesire \in SUBSET Items
  BY DEF prewarmDesire, deploymentDesire
<1>2. PICK p : p = [IdlePass EXCEPT !.stage = "desired", !.wanted = prewarmDesire]
  BY Zenon
<1>3. p \in PassRecords /\ p.stage = "desired"
  BY Zenon, <1>1, <1>2 DEF IdlePass, PassRecords
<1>4. pass' = [pass EXCEPT ![d] = p] /\ command' = command /\ memory' = memory
  BY <1>2 DEF Prewarm
<1>5. CrossedWasAsked' /\ pass' \in [Drivers -> PassRecords]
  BY Zenon, <1>3, <1>4, OtherPasses
<1> QED
  BY <1>4, <1>5 DEF PrewarmIInv, PrewarmTyped, RememberedWasAsked

\* A pass that states its desire has all of it to send.
LEMMA stateDesireIInv ==
    ASSUME PrewarmIInv, NEW d \in Drivers, stateDesire(d) PROVE PrewarmIInv'
<1>1. pass[d] \in PassRecords
  BY DEF PrewarmIInv, PrewarmTyped
<1>2. PICK w : w = IF rateBoundHolds THEN withoutAdditions(pass[d].wanted) ELSE pass[d].wanted
  BY Zenon
<1>3. w \in SUBSET Items
  BY <1>1, <1>2 DEF withoutAdditions, PassRecords
<1>4. PICK p : p = IF unchanged(w) THEN IdlePass
                   ELSE [stage |-> "stating", wanted |-> w, unsent |-> w, began |-> FALSE]
  BY Zenon
<1>5. p \in PassRecords /\ (p.stage = "stating" => p.wanted \ p.unsent = {})
  BY <1>3, <1>4 DEF IdlePass, PassRecords
<1>6. pass' = [pass EXCEPT ![d] = p] /\ command' = command /\ memory' = memory
  BY <1>2, <1>4 DEF stateDesire
<1>7. CrossedWasAsked' /\ pass' \in [Drivers -> PassRecords]
  BY Zenon, <1>5, <1>6, OtherPasses
<1> QED
  BY <1>6, <1>7 DEF PrewarmIInv, PrewarmTyped, RememberedWasAsked

\* An item leaves unsent with a command: one recorded now, or one that was there.
LEMMA prepareOnNodeIInv ==
    ASSUME PrewarmIInv, NEW d \in Drivers, NEW i \in Items, prepareOnNode(d, i)
    PROVE  PrewarmIInv'
<1>1. /\ command \in [Items -> {"none", "pending", "applied", "refused"}]
      /\ memory' = memory /\ pass \in [Drivers -> PassRecords] /\ pass[d] \in PassRecords
  BY DEF PrewarmIInv, PrewarmTyped, prepareOnNode
<1>2. /\ command' \in [Items -> {"none", "pending", "applied", "refused"}]
      /\ command'[i] # "none"
      /\ \A j \in Items : command[j] # "none" => command'[j] # "none"
  BY <1>1 DEF prepareOnNode
<1>3. PICK fresh \in BOOLEAN :
         pass' = [pass EXCEPT ![d].unsent = @ \ {i}, ![d].began = @ \/ fresh]
  BY Zenon DEF prepareOnNode
<1>4. PICK p : p = [pass[d] EXCEPT !.unsent = @ \ {i}, !.began = @ \/ fresh]
  BY Zenon
<1>5. /\ p \in PassRecords /\ p.unsent = pass[d].unsent \ {i}
      /\ p.wanted = pass[d].wanted /\ p.stage = pass[d].stage
  BY Zenon, <1>1, <1>4 DEF PassRecords
<1>6. pass' = [pass EXCEPT ![d] = p]
  BY Zenon, <1>1, <1>3, <1>4 DEF PassRecords
<1>7. pass' \in [Drivers -> PassRecords] /\ \A e \in Drivers : pass'[e] = IF e = d THEN p ELSE pass[e]
  BY <1>1, <1>5, <1>6
<1>8. \A e \in Drivers : pass[e].wanted \in SUBSET Items
  BY <1>1 DEF PassRecords
<1>9. CrossedWasAsked'
  <2> SUFFICES ASSUME NEW e \in Drivers, pass'[e].stage = "stating",
                      NEW j \in pass'[e].wanted \ pass'[e].unsent
               PROVE  command'[j] # "none"
    BY DEF CrossedWasAsked
  <2>1. CASE e = d
    <3>1. j = i \/ j \in pass[d].wanted \ pass[d].unsent
      BY <1>5, <1>7, <2>1
    <3>2. pass[d].stage = "stating" /\ j \in Items
      BY <1>5, <1>7, <1>8, <2>1
    <3> QED
      BY <1>2, <3>1, <3>2 DEF PrewarmIInv, CrossedWasAsked
  <2>2. CASE e # d
    BY <1>2, <1>7, <1>8, <2>2 DEF PrewarmIInv, CrossedWasAsked
  <2> QED
    BY <2>1, <2>2
<1>10. RememberedWasAsked'
  BY <1>1, <1>2 DEF PrewarmIInv, PrewarmTyped, RememberedWasAsked
<1> QED
  BY <1>1, <1>2, <1>7, <1>9, <1>10 DEF PrewarmIInv, PrewarmTyped

\* A pass that ends, by failing or by stamping the clock, leaves the memory alone.
LEMMA PassEndsIInv ==
    ASSUME PrewarmIInv, NEW d \in Drivers, pass' = [pass EXCEPT ![d] = IdlePass],
           command' = command, memory' = memory
    PROVE  PrewarmIInv'
<1>1. CrossedWasAsked' /\ pass' \in [Drivers -> PassRecords]
  BY Zenon, IdleTyped, OtherPasses DEF IdlePass
<1> QED
  BY <1>1 DEF PrewarmIInv, PrewarmTyped, RememberedWasAsked

\* Everything wanted has crossed when it is remembered.
LEMMA rememberIInv ==
    ASSUME PrewarmIInv, NEW d \in Drivers, remember(d) PROVE PrewarmIInv'
<1>1. pass[d] \in PassRecords /\ pass[d].stage = "stating" /\ pass[d].unsent = {}
  BY DEF PrewarmIInv, PrewarmTyped, remember
<1>2. PICK p : p = IF pass[d].wanted \subseteq memory.sent THEN IdlePass
                   ELSE [IdlePass EXCEPT !.stage = "began"]
  BY Zenon
<1>3. p \in PassRecords /\ p.stage # "stating"
  BY Zenon, <1>2 DEF IdlePass, PassRecords
<1>4. /\ pass' = [pass EXCEPT ![d] = p] /\ command' = command
      /\ memory' = [stated |-> TRUE, sent |-> pass[d].wanted]
  BY <1>2 DEF remember, Asked
<1>5. CrossedWasAsked' /\ pass' \in [Drivers -> PassRecords]
  BY Zenon, <1>3, <1>4, OtherPasses
<1>6. memory' \in [stated : BOOLEAN, sent : SUBSET Items] /\ memory'.sent = pass[d].wanted
  BY <1>1, <1>4 DEF PassRecords
<1>7. \A i \in pass[d].wanted : command[i] # "none"
  BY <1>1 DEF PrewarmIInv, CrossedWasAsked
<1>8. RememberedWasAsked'
  BY <1>4, <1>6, <1>7 DEF RememberedWasAsked
<1> QED
  BY <1>4, <1>5, <1>6, <1>8 DEF PrewarmIInv, PrewarmTyped

\* A transfer that ends leaves a command that says how.
LEMMA TransferEndsIInv ==
    ASSUME PrewarmIInv, NEW i \in Items, NEW ok \in BOOLEAN, TransferEnds(i, ok)
    PROVE  PrewarmIInv'
<1>1. /\ command \in [Items -> {"none", "pending", "applied", "refused"}]
      /\ memory' = memory /\ pass' = pass
      /\ memory \in [stated : BOOLEAN, sent : SUBSET Items] /\ pass \in [Drivers -> PassRecords]
  BY DEF PrewarmIInv, PrewarmTyped, TransferEnds
<1>2. /\ command' \in [Items -> {"none", "pending", "applied", "refused"}]
      /\ \A j \in Items : command[j] # "none" => command'[j] # "none"
  BY <1>1 DEF TransferEnds
<1>3. \A e \in Drivers : pass[e].wanted \in SUBSET Items
  BY <1>1 DEF PassRecords
<1>4. CrossedWasAsked'
  BY <1>1, <1>2, <1>3 DEF PrewarmIInv, CrossedWasAsked
<1>5. RememberedWasAsked'
  BY <1>1, <1>2 DEF PrewarmIInv, RememberedWasAsked
<1> QED
  BY <1>1, <1>2, <1>4, <1>5 DEF PrewarmIInv, PrewarmTyped

\* A restart forgets what was asked and not the commands.
LEMMA RestartIInv == ASSUME PrewarmIInv, Restart PROVE PrewarmIInv'
<1>1. command' = command /\ memory' = NothingAsked /\ pass' = [d \in Drivers |-> IdlePass]
  BY DEF Restart
<1>2. pass' \in [Drivers -> PassRecords]
  BY <1>1, IdleTyped
<1>3. CrossedWasAsked'
  BY <1>1 DEF CrossedWasAsked, IdlePass
<1> QED
  BY <1>1, <1>2, <1>3 DEF PrewarmIInv, PrewarmTyped, RememberedWasAsked, NothingAsked

\* A process that has asked for nothing remembers nothing.
LEMMA PrewarmInitIInv == PrewarmInit => PrewarmIInv
<1> SUFFICES ASSUME PrewarmInit PROVE PrewarmIInv
  OBVIOUS
<1>1. /\ command = [i \in Items |-> "none"] /\ memory = NothingAsked
      /\ pass = [d \in Drivers |-> IdlePass]
  BY DEF PrewarmInit
<1>2. pass \in [Drivers -> PassRecords]
  BY <1>1, IdleTyped
<1>3. CrossedWasAsked
  BY <1>1 DEF CrossedWasAsked, IdlePass
<1> QED
  BY <1>1, <1>2, <1>3 DEF PrewarmIInv, PrewarmTyped, RememberedWasAsked, NothingAsked

\* Every step keeps what is remembered among what was asked.
LEMMA PrewarmNextIInv == PrewarmIInv /\ [PrewarmNext]_prewarmVars => PrewarmIInv'
<1> SUFFICES ASSUME PrewarmIInv, [PrewarmNext]_prewarmVars PROVE PrewarmIInv'
  OBVIOUS
<1>1. ASSUME command' = command, memory' = memory, pass' = pass PROVE PrewarmIInv'
  BY <1>1 DEF PrewarmIInv, PrewarmTyped, RememberedWasAsked, CrossedWasAsked
<1>2. ASSUME NEW d \in Drivers, PrepareFails(d) \/ RecordBegan(d) PROVE PrewarmIInv'
  BY <1>2, PassEndsIInv DEF PrepareFails, RecordBegan
<1>3. \/ \E d \in Drivers : \/ Prewarm(d) \/ stateDesire(d) \/ remember(d)
                            \/ PrepareFails(d) \/ RecordBegan(d)
                            \/ \E i \in Items : prepareOnNode(d, i)
      \/ \E i \in Items, ok \in BOOLEAN : TransferEnds(i, ok)
      \/ Restart
      \/ command' = command /\ memory' = memory /\ pass' = pass
  BY Zenon DEF PrewarmNext, prewarmVars, LaunchAccepted, PreparationEnds, Withdrawn, Move, Booked,
         MachineLeaves, MachineReturns, PrewarmTick
<1> QED
  BY Zenon, <1>1, <1>2, <1>3, PrewarmIInvStep, stateDesireIInv, rememberIInv, prepareOnNodeIInv,
     TransferEndsIInv, RestartIInv

(***************************************************************************)
(* For any Runs, machines, content and number of overlapping passes, what  *)
(* Mercator remembers asking for has a command at the machine: Prewarm     *)
(* remembers a desire only after all of it crossed, so a pass that failed  *)
(* half way or a restart leaves nothing remembered that was not asked.     *)
(***************************************************************************)
THEOREM WhatIsRememberedWasAsked == PrewarmSpec => []RememberedWasAsked
<1>1. PrewarmIInv => RememberedWasAsked
  BY DEF PrewarmIInv
<1> QED
  BY <1>1, PrewarmInitIInv, PrewarmNextIInv, PTL DEF PrewarmSpec
=============================================================================

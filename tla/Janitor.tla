------------------------------ MODULE Janitor ------------------------------
(***************************************************************************)
(* The ownership sweep (janitor/janitor.go) over the objects the           *)
(* connections report (broker/broker.go), the record of the Runs they were *)
(* launched for, and the adapters that give them back.  A sweep is split   *)
(* where it calls a provider or appends to the log, so that Runs end,      *)
(* launches land late, providers fail and the daemon crashes between any   *)
(* two of those calls.                                                     *)
(***************************************************************************)
EXTENDS Naturals, Sequences, FiniteSets

CONSTANTS Runs,          \* Runs of this deployment's log
          Strangers,     \* Runs that objects name and this log does not hold
          Standing,      \* connections whose capacity outlives the work on it
          Machined,      \* connections that allocate a machine per launch
          Keeping,       \* the sets of identities a provider may hand back
          Sweepers,      \* sweeps that may be in flight at once
          MaxLaunches, MaxLost, MaxCrashes, MaxFailures

Conns == Standing \cup Machined
NoRun == "none"
NoKey == [run |-> NoRun, n |-> 0]

(* Connections are numbered by the order of their ids, which sorts a listing. *)
ASSUME JanitorConstants ==
    /\ Conns \subseteq Nat /\ Standing \cap Machined = {}
    /\ Runs \cap Strangers = {} /\ NoRun \notin Runs \cup Strangers
    /\ Keeping \subseteq SUBSET {"attempt", "key"}
    /\ \A kept \in Keeping : "key" \in kept   \* every adapter stores it

VARIABLES
    run,        \* each Run's stream: its stage and the launches it recorded
    coming,     \* launches whose answer was lost and whose object may yet land
    objects,    \* what the providers hold
    orphan,     \* the events of the orphan streams
    sweep,      \* each sweep: the listing left, and the decision in hand
    answers,    \* what each provider answers: all, no deletion, nothing
    reclaimed,  \* history: what the sweeps removed, and as what
    lost, crashes, failures

vars == <<run, coming, objects, orphan, sweep, answers, reclaimed, lost, crashes, failures>>
faults == <<lost, crashes, failures>>

(* OfferSnapshot.CleanupDisposition, which the offer's connection settles. *)
Disposition(c) == IF c \in Standing THEN "release" ELSE "terminate"

(* A launch key and an attempt id are minted together, one pair per launch. *)
Key(r, n) == [run |-> r, n |-> n]
Keys == {Key(r, n) : r \in Runs \cup Strangers, n \in 1 .. MaxLaunches}

(* OwnedExternalObject.  made is the launch that created it, which no provider
   reports: the sweep reads run, attempt and key. *)
Object(k, c, id, kept) ==
    [id |-> id, conn |-> c, made |-> k, run |-> k.run,
     attempt |-> IF "attempt" \in kept THEN k ELSE NoKey, key |-> k]

Idle == [at |-> "idle", left |-> <<>>, outcome |-> "none", reason |-> "none"]

(* Capacity this log cannot account for: it names another log's Run, or none. *)
Unaccounted ==
    {[Object(Key(s, 1), c, 1, {"key"}) EXCEPT !.run = r] :
        s \in Strangers, c \in Conns, r \in Strangers \cup {NoRun}}

Init ==
    /\ run = [r \in Runs |-> [stage |-> "placing", launches |-> <<>>]]
    /\ coming = {} /\ orphan = {} /\ reclaimed = {}
    /\ objects \in {{}} \cup {{o} : o \in Unaccounted}
    /\ sweep = [s \in Sweepers |-> Idle]
    /\ answers = [c \in Conns |-> "all"]
    /\ lost = 0 /\ crashes = 0 /\ failures = 0

-----------------------------------------------------------------------------
(* The Runs, as far as a sweep can tell them apart. *)

Latest(r) == Key(r, Len(run[r].launches))
ConnOf(k) == run[k.run].launches[k.n].conn

(* The launch intent is on record before the provider is asked. *)
RecordLaunchIntent(r, c) ==
    /\ run[r].stage = "placing"
    /\ run' = [run EXCEPT ![r].stage = "launching",
                          ![r].launches = Append(@, [conn |-> c, disposition |-> Disposition(c)])]
    /\ UNCHANGED <<coming, objects, orphan, sweep, answers, reclaimed, faults>>

(* An adapter finds the object of this key before it creates one. *)
LaunchAccepted(r) ==
    /\ run[r].stage = "launching" /\ answers[ConnOf(Latest(r))] = "all"
    /\ run' = [run EXCEPT ![r].stage = "running"]
    /\ IF \E o \in objects : o.made = Latest(r)
       THEN UNCHANGED objects
       ELSE \E kept \in Keeping :
              objects' = objects \cup {Object(Latest(r), ConnOf(Latest(r)), 1, kept)}
    /\ UNCHANGED <<coming, orphan, sweep, answers, reclaimed, faults>>

(* The answer is lost: the Run keeps launching under the same key. *)
LaunchIndeterminate(r) ==
    /\ run[r].stage = "launching" /\ lost < MaxLost
    /\ lost' = lost + 1 /\ coming' = coming \cup {Latest(r)}
    /\ UNCHANGED <<run, objects, orphan, sweep, answers, reclaimed, crashes, failures>>

(* No capacity: the Run is placed again, or closed once its attempts ran out. *)
LaunchUnavailable(r) ==
    /\ run[r].stage = "launching"
    /\ run' = [run EXCEPT ![r].stage =
                  IF Len(run[r].launches) < MaxLaunches THEN "placing" ELSE "closed"]
    /\ UNCHANGED <<coming, objects, orphan, sweep, answers, reclaimed, faults>>

(* A definitive rejection closes the Run with no cleanup asked for. *)
LaunchRejected(r) ==
    /\ run[r].stage = "launching"
    /\ run' = [run EXCEPT ![r].stage = "closed"]
    /\ UNCHANGED <<coming, objects, orphan, sweep, answers, reclaimed, faults>>

(* The create whose answer was lost takes effect, whatever the Run did since. *)
Lands(k) ==
    /\ k \in coming /\ coming' = coming \ {k}
    /\ \E kept \in Keeping : objects' = objects \cup {Object(k, ConnOf(k), 2, kept)}
    /\ UNCHANGED <<run, orphan, sweep, answers, reclaimed, faults>>

(* recordTerminalTransition where no object can stand: the Run closes. *)
TerminalBeforeLaunch(r) ==
    /\ run[r].stage = "placing"
    /\ run' = [run EXCEPT ![r].stage = "closed"]
    /\ UNCHANGED <<coming, objects, orphan, sweep, answers, reclaimed, faults>>

(* ... and where one may, because a launch is under way or was accepted. *)
RequestCleanup(r) ==
    /\ run[r].stage \in {"launching", "running"}
    /\ run' = [run EXCEPT ![r].stage = "asked"]
    /\ UNCHANGED <<coming, objects, orphan, sweep, answers, reclaimed, faults>>

(* deleteOwned: one object of this key on this connection; none is success. *)
deleteOwned(c, k, rest) ==
    LET found == {o \in objects : o.conn = c /\ o.key = k} IN
    IF found = {} THEN rest = objects ELSE \E o \in found : rest = objects \ {o}

(* The Run's own cleanup of its latest launch, then cleanup_confirmed, closed. *)
releaseAndClose(r) ==
    /\ run[r].stage = "asked" /\ answers[ConnOf(Latest(r))] = "all"
    /\ deleteOwned(ConnOf(Latest(r)), Latest(r), objects')
    /\ run' = [run EXCEPT ![r].stage = "closed"]
    /\ UNCHANGED <<coming, orphan, sweep, answers, reclaimed, faults>>

-----------------------------------------------------------------------------
(* What the record says of one object. *)

(* Mutant: only a cleanup request ends a Run. *)
overAsked(r) == run[r].stage = "asked"

(* recordedRun.over: cleanup was asked for, or the Run closed. *)
over(r) == run[r].stage \in {"asked", "closed"}

(* recordedLaunch.took. *)
took(o, k) == o.attempt = k \/ o.key = k

Launches(r) == {Key(r, n) : n \in 1 .. Len(run[r].launches)}
DispositionOf(k) == run[k.run].launches[k.n].disposition

(* Mutant: the last launch decides for every object of the Run. *)
launchTakingLast(o) == Launches(o.run) \cap {Latest(o.run)}

(* launchTaking: the launch whose identities the object carries, or any launch
   once all of them hand capacity back alike. *)
launchTaking(o) ==
    LET taken == {k \in Launches(o.run) : took(o, k)}
        agreed == \A j, k \in Launches(o.run) : DispositionOf(j) = DispositionOf(k)
    IN  IF taken # {} THEN taken ELSE IF agreed THEN Launches(o.run) ELSE {}

Outcome(disposition) == IF disposition = "release" THEN "adopted" ELSE "terminated"

(* byRecordedDisposition of the launch that took the object, if one did.  A Run
   that recorded no launch has no object, since the intent is written first, but
   converge has an answer for it. *)
byRecordedDisposition(o) ==
    IF launchTaking(o) # {}
    THEN [outcome |-> Outcome(DispositionOf(CHOOSE k \in launchTaking(o) : TRUE)),
          reason |-> "recorded"]
    ELSE IF Launches(o.run) # {}
    THEN [outcome |-> "terminated", reason |-> "no launch accounts for it"]
    ELSE IF run[o.run].stage = "asked"
    THEN [outcome |-> "error", reason |-> "no recorded launch"]
    ELSE [outcome |-> "terminated", reason |-> "closed without asking"]

(* Mutant: a Run that was placed again is taken for one that is over. *)
decideSuperseded(o) ==
    CASE o.run \notin Runs -> [outcome |-> "terminated", reason |-> "no recorded run"]
      [] o.run \in Runs /\ ~over(o.run) /\ Len(run[o.run].launches) = 1 ->
            [outcome |-> "none", reason |-> "live"]
      [] OTHER -> byRecordedDisposition(o)

(* decide and recordedRun.converge.  Live work is no decision at all. *)
decide(o) ==
    CASE o.run = NoRun -> [outcome |-> "terminated", reason |-> "unattributed"]
      [] o.run \in Strangers -> [outcome |-> "terminated", reason |-> "no recorded run"]
      [] o.run \in Runs /\ ~over(o.run) -> [outcome |-> "none", reason |-> "live"]
      [] OTHER -> byRecordedDisposition(o)

(* The launch key; the provider's own handle names what carries none. *)
orphanIdentity(o) == o.key

-----------------------------------------------------------------------------
(* One sweep. *)

Next1(s) == [sweep[s] EXCEPT !.at = "converge", !.left = Tail(@),
                             !.outcome = "none", !.reason = "none"]

(* The listing is sorted by connection; one connection that does not list
   fails the whole of it. *)
ListOwned(s) ==
    /\ sweep[s].at = "idle" /\ \A c \in Conns : answers[c] # "nothing"
    /\ \E listing \in [1 .. Cardinality(objects) -> objects] :
         /\ \A o \in objects : \E i \in DOMAIN listing : listing[i] = o
         /\ \A i, j \in DOMAIN listing : i < j => listing[i].conn <= listing[j].conn
         /\ sweep' = [sweep EXCEPT ![s] = [Idle EXCEPT !.at = "converge", !.left = listing]]
    /\ UNCHANGED <<run, coming, objects, orphan, answers, reclaimed, faults>>

SweepEnds(s) ==
    /\ sweep[s].at = "converge" /\ sweep[s].left = <<>>
    /\ sweep' = [sweep EXCEPT ![s] = Idle]
    /\ UNCHANGED <<run, coming, objects, orphan, answers, reclaimed, faults>>

(* converge: the decision on record is carried out; with none, the policy is
   applied, live work is passed over, and an error ends the sweep. *)
Converge(s) ==
    /\ sweep[s].at = "converge" /\ sweep[s].left # <<>>
    /\ LET o == Head(sweep[s].left)
           recorded == {e \in orphan : e.identity = orphanIdentity(o)}
           d == decide(o)
       IN  sweep' = [sweep EXCEPT ![s] =
               IF recorded # {} THEN LET e == CHOOSE e \in recorded : TRUE IN
                    [@ EXCEPT !.at = "reclaim", !.outcome = e.outcome, !.reason = e.reason]
               ELSE IF d.outcome = "error" THEN Idle
               ELSE IF d.outcome = "none" THEN Next1(s)
               ELSE [@ EXCEPT !.at = "record", !.outcome = d.outcome, !.reason = d.reason]]
    /\ UNCHANGED <<run, coming, objects, orphan, answers, reclaimed, faults>>

(* record: the append expects an empty stream.  The same request again is
   answered by the stored result, another one is a conflict and ends the sweep. *)
Record(s) ==
    /\ sweep[s].at = "record"
    /\ LET o == Head(sweep[s].left)
           event == [identity |-> orphanIdentity(o), outcome |-> sweep[s].outcome,
                     reason |-> sweep[s].reason, id |-> o.id, conn |-> o.conn, run |-> o.run]
           held == {e \in orphan : e.identity = event.identity}
       IN  IF held \subseteq {event}
           THEN /\ orphan' = orphan \cup {event}
                /\ sweep' = [sweep EXCEPT ![s].at = "reclaim"]
           ELSE /\ sweep' = [sweep EXCEPT ![s] = Idle] /\ UNCHANGED orphan
    /\ UNCHANGED <<run, coming, objects, answers, reclaimed, faults>>

(* reclaim.  A standing connection answers Terminate with
   ErrTerminateUnsupported and its slot is released instead, so either outcome
   asks this connection for the object of this key; an error ends the sweep. *)
Reclaim(s) ==
    /\ sweep[s].at = "reclaim"
    /\ LET o == Head(sweep[s].left) IN
       IF answers[o.conn] = "all"
       THEN /\ deleteOwned(o.conn, o.key, objects')
            /\ reclaimed' = reclaimed \cup
                   {[object |-> x, outcome |-> sweep[s].outcome] : x \in objects \ objects'}
            /\ sweep' = [sweep EXCEPT ![s] = Next1(s)]
       ELSE /\ sweep' = [sweep EXCEPT ![s] = Idle] /\ UNCHANGED <<objects, reclaimed>>
    /\ UNCHANGED <<run, coming, orphan, answers, faults>>

-----------------------------------------------------------------------------
(* Faults, and the specification. *)

Crash ==
    /\ crashes < MaxCrashes /\ crashes' = crashes + 1
    /\ sweep' = [s \in Sweepers |-> Idle]
    /\ UNCHANGED <<run, coming, objects, orphan, answers, reclaimed, lost, failures>>

Fails(c) ==
    /\ answers[c] = "all" /\ failures < MaxFailures /\ failures' = failures + 1
    /\ \E a \in {"no deletion", "nothing"} : answers' = [answers EXCEPT ![c] = a]
    /\ UNCHANGED <<run, coming, objects, orphan, sweep, reclaimed, lost, crashes>>

AnswersAgain(c) ==
    /\ answers[c] # "all" /\ answers' = [answers EXCEPT ![c] = "all"]
    /\ UNCHANGED <<run, coming, objects, orphan, sweep, reclaimed, faults>>

Sweep(s) == ListOwned(s) \/ SweepEnds(s) \/ Converge(s) \/ Record(s) \/ Reclaim(s)

Lifecycle(r) ==
    \/ \E c \in Conns : RecordLaunchIntent(r, c)
    \/ LaunchAccepted(r) \/ LaunchIndeterminate(r) \/ LaunchUnavailable(r)
    \/ LaunchRejected(r) \/ TerminalBeforeLaunch(r) \/ RequestCleanup(r) \/ releaseAndClose(r)

Next ==
    \/ \E r \in Runs : Lifecycle(r)
    \/ \E k \in coming : Lands(k)
    \/ \E s \in Sweepers : Sweep(s)
    \/ Crash
    \/ \E c \in Conns : Fails(c) \/ AnswersAgain(c)

Spec == Init /\ [][Next]_vars

(* The daemon sweeps every minute and every call of a sweep returns. *)
SweepingSpec == Spec /\ \A s \in Sweepers : WF_vars(Sweep(s))

(* ... and a provider that stopped answering answers again. *)
FairSpec == SweepingSpec /\ \A c \in Conns : WF_vars(AnswersAgain(c))

-----------------------------------------------------------------------------
(* Properties. *)

(* Mercator holds no live work for the Run any more. *)
Ended(r) == run[r].stage \in {"asked", "closed"}

(* No sweep takes the capacity of a Run that is still holding live work
   (janitor.go:269-270), whichever Runs ended or were placed again after the
   providers were listed. *)
LiveWorkIsSpared ==
    \A x \in reclaimed : x.object.made.run \in Runs => Ended(x.object.made.run)

(* What a sweep removed was decided before it was removed, the decision is on
   record, and it is the one the launch that created the object asked for
   (janitor.go:150-162, 186-193): a crash, a second sweep, a Run of several
   launches or a late object never leaves capacity gone unexplained, or gone by
   another launch's rule. *)
GoneAsRecorded ==
    \A x \in reclaimed :
        LET o == x.object IN
        /\ \E e \in orphan : e.identity = orphanIdentity(o) /\ e.outcome = x.outcome
        /\ o.run \in Runs => x.outcome = Outcome(DispositionOf(o.made))

(* Capacity stands under k that no Run holds live work for. *)
Stands(k, c) ==
    \E o \in objects : o.key = k /\ o.conn = c /\ (o.run \in Runs => Ended(o.run))

(* Capacity Mercator no longer holds live work for is eventually given back,
   whatever crashed, failed or landed late on the way (janitor.go:102-104). *)
OverCapacityGoes == \A k \in Keys, c \in Conns : Stands(k, c) ~> ~Stands(k, c)

(* The same of the connections that answer: "Sweep converges every piece of
   capacity this broker owns that Mercator no longer holds live work for"
   (janitor.go:102-103). *)
ReachableCapacityGoes ==
    \A k \in Keys, c \in Conns :
        <>[](answers[c] = "all") => (Stands(k, c) ~> ~Stands(k, c))
=============================================================================

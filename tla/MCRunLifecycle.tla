--------------------------- MODULE MCRunLifecycle ---------------------------
(***************************************************************************)
(* Instances of RunLifecycle small enough for TLC.                         *)
(***************************************************************************)
EXTENDS RunLifecycle, TLC

(***************************************************************************)
(* States that differ only in what no later step reads are one state.      *)
(* Versions are compared, never used: a plan is current or stale, and a    *)
(* stale plan has nothing left to do but conflict.  A Run with a terminal  *)
(* fact no longer reads how it got there.                                  *)
(***************************************************************************)
RunView(s) ==
    IF s.terminal = "none" /\ ~ s.closed THEN [s EXCEPT !.version = 0]
    ELSE [s EXCEPT !.version = 0, !.phase = "none", !.started = FALSE, !.accepted = FALSE,
                   !.deferral = "none", !.deferrals = 0, !.excluded = {}, !.stages = {},
                   !.cleanupFailed = FALSE]

ScheduleView(q) ==
    [i \in DOMAIN q.bookings |-> <<q.bookings[i].id, q.bookings[i].state, q.bookings[i].startedAt>>]

WorkerView(r) ==
    IF worker[r] = NoPlan THEN <<"idle">>
    ELSE IF ~ VersionsMatch(r) THEN <<"stale", worker[r].admits>>
    ELSE <<"current", worker[r].admits, worker[r].events, worker[r].rental,
           ScheduleView(worker[r].next)>>

\* The comparisons are the same in every state; they make TLC evaluate the
\* functions before it writes a state to disk.
Evaluated == run # <<>> /\ schedule # <<>> /\ worker # <<>> /\ canceller # <<>>

View ==
    <<Evaluated, [r \in Runs |-> RunView(run[r])], [q \in Rentals |-> ScheduleView(schedule[q])],
      object, twins, machine, published, [r \in Runs |-> WorkerView(r)],
      [r \in Runs |-> IF canceller[r] = 0 THEN "idle"
                      ELSE IF canceller[r] = run[r].version THEN "current" ELSE "stale"],
      faults>>
=============================================================================

---------------------------- MODULE NodeRegistry ----------------------------
(***************************************************************************)
(* One node identity in the control plane: its invitation, its enrolments  *)
(* and their fencing tokens, its lease, its retirement, and the sessions   *)
(* opened on it (node/registry.go, node/session.go, storage/sqlite/node.go,*)
(* nodeapi/nodeapi.go).  Each handler is split where the code gives up the *)
(* database transaction or the registry's lock, so that the handlers of    *)
(* several connections, the lease sweep, a retirement and a shutdown       *)
(* interleave as they do in the daemon.                                    *)
(***************************************************************************)
EXTENDS Naturals

CONSTANTS Machines,      \* machines bootstrapped with this identity's material
          Conns,         \* connections asking for a session
          Lease,         \* registry.lease
          Invitation,    \* registry.invitation, the default window
          Waits,         \* RedeemableThrough of the caller; 0 for none stated
          MaxTime, MaxFencing

NoConn == "none"

ASSUME NodeRegistryConstants ==
    /\ Lease \in Nat \ {0} /\ Invitation \in Nat \ {0}
    /\ Waits \subseteq Nat /\ MaxTime \in Nat /\ MaxFencing \in Nat
    /\ NoConn \notin Conns

VARIABLES
    clock,
    rec,        \* the nodes row
    wait,       \* the wait this identity is provisioned under
    machine,    \* what each machine holds: an invitation, one not yet written, a credential
    current,    \* registry.sessions: the connection whose session is registered
    conn,       \* each session handler
    sweep,      \* ExpireLeases: idle, found (rows read), marked (rows written)
    retiring,   \* Retire: no, written, done
    report,     \* RecordEvents between authenticate and the heartbeat's UPDATE
    draining

registryVars == <<clock, rec, wait, machine, current, conn, sweep, retiring, report, draining>>

(* An invitation is named by its expiry: the token is a signature over the
   identity, the generation and that moment, and 0 is a spent one. *)
Blank == [state |-> "none", fencing |-> 0, token |-> 0, expires |-> 0, lease |-> 0]

RegistryInit ==
    /\ clock = 1 /\ rec = Blank /\ wait \in Waits
    /\ machine = [m \in Machines |-> [minted |-> 0, token |-> 0, redeemed |-> FALSE,
                                      enrolling |-> FALSE, fencing |-> 0]]
    /\ current = NoConn
    /\ conn = [c \in Conns |-> [stage |-> "idle", fencing |-> 0]]
    /\ sweep = "idle" /\ retiring = "no" /\ draining = FALSE
    /\ report = [stage |-> "idle", retired |-> FALSE]

Retired == rec.state = "retired"

-----------------------------------------------------------------------------
(* Invitations. *)

(* Mutant: every invitation is open for the default time. *)
windowDefault == clock + Invitation

window == IF wait = 0 THEN clock + Invitation ELSE wait

(* Invite inserts the row; an identity that exists is ErrIdentityExists. *)
Invite(m) ==
    /\ rec.state = "none" /\ (wait = 0 \/ wait > clock)
    /\ rec' = [rec EXCEPT !.state = "enrolling", !.token = window, !.expires = window]
    /\ machine' = [machine EXCEPT ![m].token = window, ![m].redeemed = FALSE]
    /\ UNCHANGED <<clock, wait, current, conn, sweep, retiring, report, draining>>

outstandingInvitation ==
    /\ rec.token # 0 /\ clock < rec.expires
    /\ wait = 0 \/ rec.expires >= wait
    /\ rec.token = rec.expires

(* Reinvite reads the row and hands back the invitation still outstanding, or
   mints another.  Provisioning, which alone calls it, states how long it waits. *)
Reinvite(m) ==
    /\ rec.state # "none" /\ ~Retired /\ wait # 0 /\ machine[m].minted = 0
    /\ outstandingInvitation \/ wait > clock
    /\ machine' = [machine EXCEPT ![m] =
          IF outstandingInvitation THEN [@ EXCEPT !.token = rec.token, !.redeemed = FALSE]
          ELSE [@ EXCEPT !.minted = window]]
    /\ UNCHANGED <<clock, rec, wait, current, conn, sweep, retiring, report, draining>>

(* The UPDATE matches the identity alone, whatever became of the row meanwhile. *)
WriteInvitation(m) ==
    /\ machine[m].minted # 0
    /\ LET token == machine[m].minted IN
       /\ rec' = [rec EXCEPT !.token = token, !.expires = token]
       /\ machine' = [machine EXCEPT ![m].minted = 0, ![m].token = token, ![m].redeemed = FALSE]
    /\ UNCHANGED <<clock, wait, current, conn, sweep, retiring, report, draining>>

-----------------------------------------------------------------------------
(* Sessions. *)

(* Session.end under the registry's lock; the handler returns later. *)
Ended(c, table) == IF c = NoConn THEN table ELSE [table EXCEPT ![c].stage = "ended"]

closeSession == conn' = Ended(current, conn) /\ current' = NoConn

(* Enroll: one transaction against the store, then the open session is closed
   and a credential bound to the new fencing token is minted. *)
Enroll(m) ==
    /\ ~machine[m].enrolling /\ machine[m].token # 0
    /\ clock < machine[m].token                  \* VerifyEnrollment
    /\ ~Retired /\ rec.token = machine[m].token  \* ErrRetired, ErrEnrollmentSpent
    /\ rec.fencing < MaxFencing
    /\ rec' = [rec EXCEPT !.state = "ready", !.fencing = @ + 1, !.token = 0,
                          !.lease = clock + Lease]
    /\ machine' = [n \in Machines |->
          IF n = m THEN [machine[m] EXCEPT !.enrolling = TRUE, !.redeemed = TRUE,
                                           !.fencing = rec.fencing + 1]
          ELSE IF machine[n].token = machine[m].token
               THEN [machine[n] EXCEPT !.redeemed = TRUE] ELSE machine[n]]
    /\ UNCHANGED <<clock, wait, current, conn, sweep, retiring, report, draining>>

EnrollCloses(m) ==
    /\ machine[m].enrolling
    /\ machine' = [machine EXCEPT ![m].enrolling = FALSE]
    /\ closeSession
    /\ UNCHANGED <<clock, rec, wait, sweep, retiring, report, draining>>

Authentic(m) ==
    /\ ~machine[m].enrolling
    /\ machine[m].fencing # 0 /\ machine[m].fencing = rec.fencing

(* OpenSession up to the lock: the row is read and the pending commands with it. *)
OpenSession(c, m) ==
    /\ conn[c].stage = "idle" /\ Authentic(m) /\ ~Retired
    /\ conn' = [conn EXCEPT ![c] = [stage |-> "authenticated", fencing |-> rec.fencing]]
    /\ UNCHANGED <<clock, rec, wait, machine, current, sweep, retiring, report, draining>>

(* Mutant: a session opened during a shutdown is registered. *)
RegisterWhileDraining(c) ==
    /\ conn[c].stage = "authenticated"
    /\ conn' = [Ended(current, conn) EXCEPT ![c].stage = "open"] /\ current' = c
    /\ UNCHANGED <<clock, rec, wait, machine, sweep, retiring, report, draining>>

(* OpenSession under the lock: the previous session is superseded. *)
RegisterSession(c) ==
    /\ conn[c].stage = "authenticated"
    /\ IF draining
       THEN conn' = [conn EXCEPT ![c].stage = "ended"] /\ UNCHANGED current
       ELSE conn' = [Ended(current, conn) EXCEPT ![c].stage = "open"] /\ current' = c
    /\ UNCHANGED <<clock, rec, wait, machine, sweep, retiring, report, draining>>

(* Mutant: CloseSession ends whatever session is registered. *)
CloseSessionAny(c) ==
    /\ conn[c].stage \in {"open", "ended"}
    /\ conn' = [conn EXCEPT ![c].stage = "idle"]
    /\ current' = NoConn
    /\ UNCHANGED <<clock, rec, wait, machine, sweep, retiring, report, draining>>

(* The handler returns, because its connection dropped or its session was ended,
   and its deferred CloseSession unregisters the session only if it is this one. *)
CloseSession(c) ==
    /\ conn[c].stage \in {"open", "ended"}
    /\ conn' = [conn EXCEPT ![c].stage = "idle"]
    /\ current' = IF current = c THEN NoConn ELSE current
    /\ UNCHANGED <<clock, rec, wait, machine, sweep, retiring, report, draining>>

Drain ==
    /\ ~draining /\ draining' = TRUE
    /\ closeSession
    /\ UNCHANGED <<clock, rec, wait, machine, sweep, retiring, report>>

-----------------------------------------------------------------------------
(* Leases and retirement. *)

(* RecordEvents with a fresh heartbeat: authenticate reads the row, and the
   UPDATE that renews the lease matches the state again in its WHERE. *)
ReadHeartbeat(m) ==
    /\ report.stage = "idle" /\ Authentic(m)
    /\ report' = [stage |-> "read", retired |-> Retired]
    /\ UNCHANGED <<clock, rec, wait, machine, current, conn, sweep, retiring, draining>>

Heartbeat ==
    /\ report.stage = "read"
    /\ report' = [stage |-> "idle", retired |-> FALSE]
    /\ rec' = IF report.retired \/ Retired THEN rec
              ELSE [rec EXCEPT !.state = "ready", !.lease = clock + Lease]
    /\ UNCHANGED <<clock, wait, machine, current, conn, sweep, retiring, draining>>

(* ExpireLeases selects the rows, updates each by identity alone, and then the
   registry closes the sessions of the rows it was given. *)
FindExpired ==
    /\ sweep = "idle" /\ rec.state = "ready" /\ rec.lease <= clock
    /\ sweep' = "found"
    /\ UNCHANGED <<clock, rec, wait, machine, current, conn, retiring, report, draining>>

MarkLost ==
    /\ sweep = "found" /\ sweep' = "marked"
    /\ rec' = [rec EXCEPT !.state = "lost"]
    /\ UNCHANGED <<clock, wait, machine, current, conn, retiring, report, draining>>

CloseLost ==
    /\ sweep = "marked" /\ sweep' = "idle"
    /\ closeSession
    /\ UNCHANGED <<clock, rec, wait, machine, retiring, report, draining>>

Retire ==
    /\ rec.state # "none" /\ retiring = "no" /\ retiring' = "written"
    /\ rec' = [rec EXCEPT !.state = "retired"]
    /\ UNCHANGED <<clock, wait, machine, current, conn, sweep, report, draining>>

RetireCloses ==
    /\ retiring = "written" /\ retiring' = "done"
    /\ closeSession
    /\ UNCHANGED <<clock, rec, wait, machine, sweep, report, draining>>

Elapse ==
    /\ clock < MaxTime /\ clock' = clock + 1
    /\ UNCHANGED <<rec, wait, machine, current, conn, sweep, retiring, report, draining>>

RegistryNext ==
    \/ \E m \in Machines : Invite(m) \/ Reinvite(m) \/ WriteInvitation(m) \/ Enroll(m)
                           \/ EnrollCloses(m) \/ ReadHeartbeat(m) \/ \E c \in Conns : OpenSession(c, m)
    \/ \E c \in Conns : RegisterSession(c) \/ CloseSession(c)
    \/ Heartbeat \/ FindExpired \/ MarkLost \/ CloseLost
    \/ Retire \/ RetireCloses \/ Drain \/ Elapse

RegistrySpec == RegistryInit /\ [][RegistryNext]_registryVars

-----------------------------------------------------------------------------
(* Properties. *)

(* The session deliver finds is open, and no other is: a superseded handler is
   told to end, and its own deferred CloseSession never takes the session that
   superseded it out of the table (session.go:80-88, 155-167). *)
OnlyRegisteredIsOpen == \A c \in Conns : conn[c].stage = "open" <=> current = c

(* After Drain no session is open and none opens, which is what lets
   http.Server.Shutdown finish (session.go:130-151). *)
DrainedHoldsNothing == draining => \A c \in Conns : conn[c].stage # "open"

(* A machine bootstrapped on any attempt can still join: until its window
   closes, and unless the identity was redeemed or retired, the record names
   the invitation the machine holds, though attempts overlap and one writes what
   it minted after another's machine has joined (registry.go:521-528). *)
InvitationHeldIsRedeemable ==
    \A m \in Machines :
        (machine[m].token > clock /\ ~machine[m].redeemed /\ ~Retired /\ rec.state # "none")
            => rec.token = machine[m].token

(* "It is the only terminal state" (node.go:86): an identity Retire has written
   stays retired, whatever the sweep and the agent do afterwards. *)
RetiredIsTerminal == retiring # "no" => Retired

(* "A retired machine gets no session" (session.go:52): once Retire has
   returned, the identity holds none. *)
RetiredHoldsNoSession == retiring = "done" => current = NoConn

(* "A new enrollment supersedes any open session" (registry.go:295): once Enroll
   has returned, the session open is one of the newest enrolment. *)
SessionIsOfNewestEnrolment ==
    (\A m \in Machines : ~machine[m].enrolling) =>
        \A c \in Conns : conn[c].stage = "open" => conn[c].fencing = rec.fencing
=============================================================================

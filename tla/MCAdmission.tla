----------------------------- MODULE MCAdmission -----------------------------
(***************************************************************************)
(* Instances of Admission: a family of two interactive Runs and an         *)
(* opportunistic one, and other mixtures of the two.                       *)
(***************************************************************************)
EXTENDS Admission, TLC

CONSTANTS m1, m2, spare, family

MCClassOf == [r \in Runs |-> IF r = spare THEN "opportunistic" ELSE "interactive"]

\* A family whose first member may wait for spare capacity.
MixedClassOf == [r \in Runs |-> IF r = m2 THEN "experimental" ELSE "opportunistic"]

MCGroupOf == [r \in Runs |-> IF r \in {m1, m2} THEN family ELSE None]

\* The two members differ in nothing.
Members == Permutations({m1, m2})

\* A closed Run's record, and the date of an answer no interval is charged from, are
\* read by nothing any more.
Observed ==
    <<now, queue, door,
      [r \in Runs |-> IF run[r].state = "closed" THEN NewRun
                      ELSE IF SelfImposed(run[r].deferral) THEN run[r]
                      ELSE [run[r] EXCEPT !.deferredAt = Never]],
      {r \in Runs : run[r].state = "closed"}>>

=============================================================================

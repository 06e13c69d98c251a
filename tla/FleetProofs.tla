---------------------------- MODULE FleetProofs -----------------------------
(***************************************************************************)
(* What TLAPS proves of the machines of the fleet: of a Rental's schedule  *)
(* (RentalTimeline), of what placement does to it and reads from it        *)
(* (Placement) and of a node's identity and sessions (NodeRegistry); for   *)
(* any queue capacity, Bookings, Runs, runtimes, fleets, durations and     *)
(* rates, and any number of machines, connections, windows and enrolments. *)
(***************************************************************************)
EXTENDS Placement, NodeRegistry, SequenceTheorems, WellFoundedInduction, TLAPS

(***************************************************************************)
(* The projected and latest starts are sums over the queue, computed by a  *)
(* recursive function.  What it computes is established by induction over  *)
(* the number of summands.                                                 *)
(***************************************************************************)
Below == {p \in Nat \X Nat : p[1] < p[2]}

\* The order of the naturals has no infinite descent.
LEMMA NatWF == IsWellFoundedOn(Below, Nat)
BY NatLessThanWellFounded DEF OpToRel, Below

\* A set of naturals that is not empty has a least member.
LEMMA Least ==
    ASSUME NEW T \in SUBSET Nat, T # {}
    PROVE \E n \in T : \A m \in T : n <= m
<1>1. \E x \in T : \A y \in T : ~ (<<y, x>> \in Below)
  BY Zenon, NatWF, WFMin
<1>2. \A x, y \in Nat : y < x => <<y, x>> \in Below
  BY DEF Below
<1>3. PICK n \in T : \A m \in T : ~ (<<m, n>> \in Below)
  BY <1>1
<1>4. ASSUME NEW m \in T PROVE n <= m
  <2>1. m \in Nat /\ n \in Nat
    OBVIOUS
  <2>2. ~ m < n
    BY Zenon, <2>1, <1>2, <1>3
  <2> QED BY <2>1, <2>2
<1> QED BY <1>4

\* Induction, over the set of numbers that have the property.
LEMMA Induct ==
    ASSUME NEW S \in SUBSET Nat, 0 \in S, \A n \in S : n + 1 \in S
    PROVE  S = Nat
<1> SUFFICES ASSUME Nat \ S # {} PROVE FALSE
  BY Zenon
<1>1. PICK n \in Nat \ S : \A m \in Nat \ S : n <= m
  BY Zenon, Least
<1>2. n # 0 /\ n - 1 \in Nat
  BY <1>1
<1>3. n - 1 \in S
  BY <1>1, <1>2
<1> QED BY <1>1, <1>2, <1>3

\* g holds the partial sums of f.
IsSum(f, g, n) == g \in [0..n -> Int] /\ g[0] = 0 /\ \A k \in 1..n : g[k] = g[k - 1] + f[k]

\* Partial sums exist up to any length.
LEMMA SumExists ==
    ASSUME NEW m \in Nat, NEW f \in [1..m -> Int]
    PROVE  \A n \in 0..m : \E g : IsSum(f, g, n)
<1> DEFINE S == {n \in Nat : n <= m => \E g : IsSum(f, g, n)}
<1>1. 0 \in S
  <2>1. IsSum(f, [i \in 0..0 |-> 0], 0)
    BY DEF IsSum
  <2> QED BY <2>1
<1>2. ASSUME NEW n \in S PROVE n + 1 \in S
  <2> SUFFICES ASSUME n + 1 <= m PROVE \E g : IsSum(f, g, n + 1)
    OBVIOUS
  <2>1. PICK g : IsSum(f, g, n)
    OBVIOUS
  <2> DEFINE h == [i \in 0..(n + 1) |-> IF i = n + 1 THEN g[n] + f[n + 1] ELSE g[i]]
  <2>2. IsSum(f, h, n + 1)
    <3>1. n \in Nat /\ n \in 0..n /\ f[n + 1] \in Int /\ 0 # n + 1
      OBVIOUS
    <3>2. g[n] \in Int /\ g \in [0..n -> Int] /\ g[0] = 0
      BY <2>1, <3>1 DEF IsSum
    <3>3. h \in [0..(n + 1) -> Int] /\ h[0] = 0
      BY <3>1, <3>2
    <3>4. ASSUME NEW k \in 1..(n + 1) PROVE h[k] = h[k - 1] + f[k]
      <4>1. CASE k = n + 1
        BY <4>1, <3>1
      <4>2. CASE k # n + 1
        <5>1. k \in 1..n /\ k \in 0..(n + 1) /\ k - 1 \in 0..(n + 1) /\ k - 1 # n + 1
          BY <4>2, <3>1
        <5>2. g[k] = g[k - 1] + f[k]
          BY <5>1, <2>1 DEF IsSum
        <5> QED BY <5>1, <5>2, <4>2
      <4> QED BY <4>1, <4>2
    <3> QED BY Zenon, <3>3, <3>4 DEF IsSum
  <2> QED BY <2>2
<1>3. S = Nat
  <2> HIDE DEF S
  <2>1. S \in SUBSET Nat
    BY DEF S
  <2> QED BY Zenon, <2>1, <1>1, <1>2, Induct
<1>4. ASSUME NEW n \in 0..m PROVE \E g : IsSum(f, g, n)
  <2>1. n \in Nat /\ n <= m
    OBVIOUS
  <2>2. n \in S
    BY Zenon, <2>1, <1>3
  <2> QED BY <2>1, <2>2
<1> QED BY <1>4

\* What the recursive function computes is the last of the partial sums.
LEMMA TotalIs ==
    ASSUME NEW n \in Nat, NEW f \in [1..n -> Int]
    PROVE  \E g : IsSum(f, g, n) /\ Total(f, n) = g[n]
<1>1. PICK g : IsSum(f, g, n) BY SumExists
<1> DEFINE D(u) == [k \in 0..n |-> IF k = 0 THEN 0 ELSE u[k - 1] + f[k]]
<1>2. g = D(g)
  BY <1>1 DEF IsSum
<1>3. PICK s : s = CHOOSE u : u = D(u)
  BY Zenon
<1>4. s = D(s)
  BY Zenon, <1>2, <1>3
<1>5. Total(f, n) = s[n]
  BY Zenon, <1>3 DEF Total
<1>6. s = g
  <2> DEFINE S == {k \in Nat : k <= n => s[k] = g[k]}
  <2>1. 0 \in S BY <1>4, <1>1 DEF IsSum
  <2>2. ASSUME NEW k \in S PROVE k + 1 \in S
    BY <1>4, <1>2
  <2>3. S = Nat
    <3> HIDE DEF S
    <3>1. S \in SUBSET Nat
      BY DEF S
    <3> QED BY Zenon, <3>1, <2>1, <2>2, Induct
  <2>4. \A k \in 0..n : s[k] = g[k]
    BY <2>3
  <2> QED BY <2>4, <1>4, <1>2
<1> QED BY <1>1, <1>5, <1>6

\* The partial sums of naturals are naturals.
LEMMA SumsNat ==
    ASSUME NEW n \in Nat, NEW f \in [1..n -> Nat], NEW g, IsSum(f, g, n)
    PROVE  \A k \in 0..n : g[k] \in Nat
<1> DEFINE S == {k \in Nat : k <= n => g[k] \in Nat}
<1>1. 0 \in S
  BY DEF IsSum
<1>2. ASSUME NEW k \in S PROVE k + 1 \in S
  <2> SUFFICES ASSUME k + 1 <= n PROVE g[k + 1] \in Nat
    OBVIOUS
  <2>1. k + 1 \in 1..n /\ (k + 1) - 1 = k /\ g[k] \in Nat
    OBVIOUS
  <2>2. g[k + 1] = g[k] + f[k + 1]
    BY <2>1 DEF IsSum
  <2> QED
    BY <2>1, <2>2
<1>3. S = Nat
  <2> HIDE DEF S
  <2>1. S \in SUBSET Nat
    BY DEF S
  <2> QED
    BY Zenon, <2>1, <1>1, <1>2, Induct
<1> QED
  BY <1>3

\* A sum of naturals is a natural.
LEMMA TotalNat ==
    ASSUME NEW n \in Nat, NEW f \in [1..n -> Nat]
    PROVE  Total(f, n) \in Nat
<1>1. f \in [1..n -> Int]
  OBVIOUS
<1>2. PICK g : IsSum(f, g, n) /\ Total(f, n) = g[n]
  BY <1>1, TotalIs
<1>3. n \in 0..n
  OBVIOUS
<1> QED
  BY <1>2, <1>3, SumsNat

\* A sum of smaller numbers is smaller.
LEMMA TotalMonotone ==
    ASSUME NEW n \in Nat, NEW f \in [1..n -> Nat], NEW e \in [1..n -> Nat],
           \A i \in 1..n : e[i] <= f[i]
    PROVE  Total(e, n) <= Total(f, n)
<1>1. f \in [1..n -> Int] /\ e \in [1..n -> Int]
  OBVIOUS
<1>2. PICK g : IsSum(f, g, n) /\ Total(f, n) = g[n]
  BY <1>1, TotalIs
<1>3. PICK h : IsSum(e, h, n) /\ Total(e, n) = h[n]
  BY <1>1, TotalIs
<1>4. \A k \in 0..n : g[k] \in Nat /\ h[k] \in Nat
  BY <1>2, <1>3, SumsNat
<1> DEFINE S == {k \in Nat : k <= n => h[k] <= g[k]}
<1>5. 0 \in S
  BY <1>2, <1>3 DEF IsSum
<1>6. ASSUME NEW k \in S PROVE k + 1 \in S
  <2> SUFFICES ASSUME k + 1 <= n PROVE h[k + 1] <= g[k + 1]
    OBVIOUS
  <2>1. k + 1 \in 1..n /\ (k + 1) - 1 = k /\ k \in 0..n /\ h[k] <= g[k]
    OBVIOUS
  <2>2. g[k + 1] = g[k] + f[k + 1] /\ h[k + 1] = h[k] + e[k + 1]
    BY <1>2, <1>3, <2>1 DEF IsSum
  <2>3. /\ g[k] \in Nat /\ h[k] \in Nat /\ f[k + 1] \in Nat /\ e[k + 1] \in Nat
        /\ e[k + 1] <= f[k + 1]
    BY <1>4, <2>1
  <2> QED
    BY <2>1, <2>2, <2>3
<1>7. S = Nat
  <2> HIDE DEF S
  <2>1. S \in SUBSET Nat
    BY DEF S
  <2> QED
    BY Zenon, <2>1, <1>5, <1>6, Induct
<1>8. n \in S
  BY Zenon, <1>7
<1> QED
  BY <1>2, <1>3, <1>8

\* Sums of naturals compare as their parts do.
LEMMA SumsCompare ==
    /\ \A a, b, c, d \in Nat : a <= c /\ b <= d => a + b <= c + d
    /\ \A a, b \in Nat : a <= a + b
    /\ \A a, b, c, d, x \in Nat : a + b <= c + d /\ c + d <= (c + d) + x => a + b <= (c + d) + x
  OBVIOUS

\* Leaving one summand out does not make a sum greater.
LEMMA TotalWithout ==
    ASSUME NEW n \in Nat \ {0}, NEW f \in [1..n -> Nat], NEW k \in 1..n,
           NEW e \in [1..(n - 1) -> Nat],
           \A i \in 1..(n - 1) : e[i] <= f[IF i < k THEN i ELSE i + 1]
    PROVE  Total(e, n - 1) <= Total(f, n)
<1>1. n - 1 \in Nat /\ f \in [1..n -> Int] /\ e \in [1..(n - 1) -> Int]
  OBVIOUS
<1>2. PICK g : IsSum(f, g, n) /\ Total(f, n) = g[n]
  BY <1>1, TotalIs
<1>3. PICK h : IsSum(e, h, n - 1) /\ Total(e, n - 1) = h[n - 1]
  BY <1>1, TotalIs
<1>4. \A j \in 0..n : g[j] \in Nat
  BY <1>2, SumsNat
<1>5. \A j \in 0..(n - 1) : h[j] \in Nat
  BY <1>1, <1>3, SumsNat
<1>6. \A j \in 0..(n - 1) : g[j + 1] = g[j] + f[j + 1] /\ f[j + 1] \in Nat
  <2> TAKE j \in 0..(n - 1)
  <2>1. j + 1 \in 1..n /\ (j + 1) - 1 = j
    OBVIOUS
  <2> QED
    BY <1>2, <2>1 DEF IsSum
<1> DEFINE S == {j \in Nat : j <= n - 1 => h[j] <= g[j + 1] /\ (j < k => h[j] <= g[j])}
<1>7. 0 \in S
  <2>1. h[0] = 0 /\ g[0] = 0 /\ g[0 + 1] \in Nat
    BY <1>2, <1>3, <1>4 DEF IsSum
  <2> QED
    BY <2>1
<1>8. ASSUME NEW j \in S PROVE j + 1 \in S
  <2> SUFFICES ASSUME j + 1 <= n - 1
               PROVE  h[j + 1] <= g[(j + 1) + 1] /\ (j + 1 < k => h[j + 1] <= g[j + 1])
    OBVIOUS
  <2>1. /\ j \in 0..(n - 1) /\ j + 1 \in 0..(n - 1) /\ j + 1 \in 1..(n - 1) /\ (j + 1) - 1 = j
        /\ h[j] <= g[j + 1] /\ (j < k => h[j] <= g[j])
    OBVIOUS
  <2>2. h[j + 1] = h[j] + e[j + 1] /\ e[j + 1] \in Nat
    BY <1>3, <2>1 DEF IsSum
  <2>3. g[j + 1] = g[j] + f[j + 1] /\ g[(j + 1) + 1] = g[j + 1] + f[(j + 1) + 1]
        /\ f[j + 1] \in Nat /\ f[(j + 1) + 1] \in Nat
    BY <1>6, <2>1
  <2>4. g[j] \in Nat /\ g[j + 1] \in Nat /\ h[j] \in Nat
    BY <1>4, <1>5, <2>1
  <2>5. e[j + 1] <= f[IF j + 1 < k THEN j + 1 ELSE (j + 1) + 1]
    BY <2>1
  <2>6. CASE j + 1 < k
    <3>1. e[j + 1] <= f[j + 1]
      BY Zenon, <2>5, <2>6
    <3>2. h[j] <= g[j]
      BY <2>1, <2>6
    <3>3. h[j] + e[j + 1] <= g[j] + f[j + 1]
      BY Zenon, <2>2, <2>3, <2>4, <3>1, <3>2, SumsCompare
    <3>4. g[j] + f[j + 1] <= (g[j] + f[j + 1]) + f[(j + 1) + 1]
      BY Zenon, <2>3, <2>4, SumsCompare
    <3>5. h[j] + e[j + 1] <= (g[j] + f[j + 1]) + f[(j + 1) + 1]
      BY Zenon, <2>2, <2>3, <2>4, <3>3, <3>4, SumsCompare
    <3> QED
      BY Zenon, <2>2, <2>3, <3>3, <3>5
  <2>7. CASE ~ (j + 1 < k)
    <3>1. e[j + 1] <= f[(j + 1) + 1]
      BY Zenon, <2>5, <2>7
    <3>2. h[j] + e[j + 1] <= g[j + 1] + f[(j + 1) + 1]
      BY Zenon, <2>1, <2>2, <2>3, <2>4, <3>1, SumsCompare
    <3> QED
      BY Zenon, <2>2, <2>3, <2>7, <3>2
  <2> QED
    BY <2>6, <2>7
<1>9. S = Nat
  <2> HIDE DEF S
  <2>1. S \in SUBSET Nat
    BY DEF S
  <2> QED
    BY Zenon, <2>1, <1>7, <1>8, Induct
<1>10. n - 1 \in S
  BY Zenon, <1>1, <1>9
<1>11. (n - 1) + 1 = n
  OBVIOUS
<1>12. h[n - 1] <= g[n]
  BY <1>10, <1>11
<1> QED
  BY <1>2, <1>3, <1>12

Moments == Nat \cup {NoTime}

Booking ==
    [id : BookingIDs, run : Runs, state : {"running", "queued"},
     after : BookingIDs \cup {NoBooking}, version : Nat,
     projected : Moments, latest : Moments, expected : Nat, max : Nat,
     startedAt : Nat \cup {NoTime}]

Schedule == [version : Nat, bookings : Seq(Booking)]

Typed == now \in Nat /\ schedule \in Schedule

(***************************************************************************)
(* The inductive invariant.  QueueWellFormed is inductive together with    *)
(* the types; OnlyHolderStarted rides along.                               *)
(***************************************************************************)
IInv == Typed /\ QueueWellFormed /\ OnlyHolderStarted

\* A function on 1..n is a sequence of length n.
LEMMA FunctionSeq ==
    ASSUME NEW S, NEW n \in Nat, NEW f \in [1..n -> S]
    PROVE  f \in Seq(S) /\ Len(f) = n
  OBVIOUS

\* Appending adds a place and leaves the others.
LEMMA AppendIs ==
    ASSUME NEW S, NEW t \in Seq(S), NEW e \in S
    PROVE  /\ Len(Append(t, e)) = Len(t) + 1
           /\ \A i \in 1..Len(t) : Append(t, e)[i] = t[i]
           /\ Append(t, e)[Len(t) + 1] = e
  OBVIOUS

\* What is left of a runtime is a natural number of seconds.
LEMMA RemainingNat ==
    ASSUME NEW b \in Booking, NEW t \in Nat
    PROVE  RemainingExpectedSeconds(b, t) \in Nat /\ RemainingMaxSeconds(b, t) \in Nat
<1>1. b.expected \in Nat /\ b.max \in Nat /\ b.startedAt \in Nat \cup {NoTime}
  BY DEF Booking
<1> QED
  BY <1>1 DEF RemainingExpectedSeconds, RemainingMaxSeconds, remainingSeconds, NoTime

\* The wait behind the first n Bookings is a sum of naturals.
LEMMA AheadNat ==
    ASSUME NEW s \in Schedule, NEW n \in 0..Len(s.bookings), NEW t \in Nat
    PROVE  ExpectedAhead(s, n, t) \in Nat /\ MaxAhead(s, n, t) \in Nat
<1> DEFINE f == [i \in 1..n |-> RemainingExpectedSeconds(s.bookings[i], t)]
           g == [i \in 1..n |-> RemainingMaxSeconds(s.bookings[i], t)]
<1>1. \A i \in 1..n : s.bookings[i] \in Booking
  BY DEF Schedule
<1>2. f \in [1..n -> Nat] /\ g \in [1..n -> Nat]
  BY Zenon, <1>1, RemainingNat
<1>3. n \in Nat
  BY DEF Schedule
<1> HIDE DEF f, g
<1>4. Total(f, n) \in Nat /\ Total(g, n) \in Nat
  BY <1>2, <1>3, TotalNat
<1> QED
  BY <1>4 DEF ExpectedAhead, MaxAhead, f, g

Request == [id : BookingIDs, run : Runs, expected : Nat, max : Nat, reservedAt : Nat]

\* A reservation adds one well-typed Booking at the end.
LEMMA ReserveTyped ==
    ASSUME NEW s \in Schedule, NEW req \in Request
    PROVE  /\ Reserve(s, req) \in Schedule
           /\ bookingFor(s, req) \in Booking
<1>1. s.version \in Nat /\ s.bookings \in Seq(Booking) /\ Len(s.bookings) \in Nat
  BY DEF Schedule
<1>2. /\ req.id \in BookingIDs /\ req.run \in Runs
      /\ req.expected \in Nat /\ req.max \in Nat /\ req.reservedAt \in Nat
  BY DEF Request
<1>3. /\ ExpectedAhead(s, Len(s.bookings), req.reservedAt) \in Nat
      /\ MaxAhead(s, Len(s.bookings), req.reservedAt) \in Nat
  <2>1. Len(s.bookings) \in 0..Len(s.bookings)
    BY <1>1
  <2> QED
    BY Zenon, <1>2, <2>1, AheadNat
<1>4. /\ startBounds(s, req.reservedAt).projected \in Moments
      /\ startBounds(s, req.reservedAt).latest \in Moments
  BY <1>2, <1>3 DEF startBounds, ExpectedWaitSeconds, Moments
<1>5. s.bookings # <<>> => s.bookings[Len(s.bookings)].id \in BookingIDs
  <2>1. s.bookings # <<>> => Len(s.bookings) \in 1..Len(s.bookings)
    BY <1>1, EmptySeq
  <2>2. s.bookings # <<>> => s.bookings[Len(s.bookings)] \in Booking
    BY <1>1, <2>1
  <2> QED
    BY <2>2 DEF Booking
<1>6. NoTime \in Moments
  BY DEF Moments
<1>7. bookingFor(s, req) \in Booking
  BY <1>1, <1>2, <1>4, <1>5, <1>6 DEF bookingFor, Booking
<1> QED
  BY <1>1, <1>7 DEF Reserve, Schedule

\* Dating the head changes nothing but its start.
LEMMA StartedTyped ==
    ASSUME NEW s \in Schedule, s.bookings # <<>>, NEW at \in Nat
    PROVE  Started(s, at) \in Schedule
<1>1. s.version \in Nat /\ s.bookings \in Seq(Booking)
  BY DEF Schedule
<1>2. 1 \in 1..Len(s.bookings) /\ s.bookings[1] \in Booking
  BY <1>1, EmptySeq
<1>3. [s.bookings[1] EXCEPT !.startedAt = at] \in Booking
  BY <1>2 DEF Booking
<1>4. [s.bookings EXCEPT ![1].startedAt = at] \in Seq(Booking)
  BY <1>1, <1>2, <1>3
<1> QED
  BY <1>1, <1>4 DEF Started, Schedule

\* Taking one Booking out keeps the others in their order.
LEMMA WithoutTyped ==
    ASSUME NEW s \in Schedule, NEW k \in 1..Len(s.bookings)
    PROVE  /\ without(s, k) \in Schedule
           /\ Len(without(s, k).bookings) = Len(s.bookings) - 1
           /\ \A i \in 1..Len(s.bookings) - 1 :
                 without(s, k).bookings[i] = s.bookings[IF i < k THEN i ELSE i + 1]
<1>1. s.version \in Nat /\ s.bookings \in Seq(Booking) /\ Len(s.bookings) \in Nat \ {0}
  BY DEF Schedule
<1> DEFINE n == Len(s.bookings) - 1
           w == [i \in 1..n |-> s.bookings[IF i < k THEN i ELSE i + 1]]
<1>2. n \in Nat
  BY <1>1
<1>3. w \in [1..n -> Booking]
  BY <1>1
<1> HIDE DEF w
<1>4. w \in Seq(Booking) /\ Len(w) = n
  BY <1>2, <1>3, FunctionSeq
<1> QED
  BY <1>1, <1>2, <1>4 DEF without, Schedule, w

\* Restating a schedule keeps its length, and everything but the four fields that
\* follow from a Booking's place.
LEMMA ReprojectTyped ==
    ASSUME NEW s \in Schedule, NEW t \in Nat
    PROVE  /\ reproject(s, t) \in Schedule
           /\ reproject(s, t).version = s.version
           /\ Len(reproject(s, t).bookings) = Len(s.bookings)
           /\ \A i \in 1..Len(s.bookings) :
                 LET b == reproject(s, t).bookings[i]
                 IN  /\ b.id = s.bookings[i].id /\ b.run = s.bookings[i].run
                     /\ b.startedAt = s.bookings[i].startedAt
                     /\ b.version = s.version
                     /\ b.state = IF i = 1 THEN "running" ELSE "queued"
                     /\ b.after = IF i = 1 THEN NoBooking ELSE s.bookings[i - 1].id
                     /\ b.expected = s.bookings[i].expected /\ b.max = s.bookings[i].max
                     /\ b.projected = IF i = 1 THEN NoTime ELSE t + ExpectedAhead(s, i - 1, t)
                     /\ b.latest = IF i = 1 THEN NoTime ELSE t + MaxAhead(s, i - 1, t)
<1>1. s.version \in Nat /\ s.bookings \in Seq(Booking) /\ Len(s.bookings) \in Nat
      /\ DOMAIN s.bookings = 1..Len(s.bookings)
  BY DEF Schedule
<1> DEFINE n == Len(s.bookings)
           restated(i) ==
             [s.bookings[i] EXCEPT
                 !.version   = s.version,
                 !.state     = IF i = 1 THEN "running" ELSE "queued",
                 !.after     = IF i = 1 THEN NoBooking ELSE s.bookings[i - 1].id,
                 !.projected = IF i = 1 THEN NoTime ELSE t + ExpectedAhead(s, i - 1, t),
                 !.latest    = IF i = 1 THEN NoTime ELSE t + MaxAhead(s, i - 1, t)]
           r == [i \in 1..n |-> restated(i)]
<1>2. ASSUME NEW i \in 1..n
      PROVE  /\ restated(i) \in Booking
             /\ restated(i).id = s.bookings[i].id /\ restated(i).run = s.bookings[i].run
             /\ restated(i).startedAt = s.bookings[i].startedAt
             /\ restated(i).version = s.version
             /\ restated(i).state = IF i = 1 THEN "running" ELSE "queued"
             /\ restated(i).after = IF i = 1 THEN NoBooking ELSE s.bookings[i - 1].id
             /\ restated(i).expected = s.bookings[i].expected
             /\ restated(i).max = s.bookings[i].max
             /\ restated(i).projected = IF i = 1 THEN NoTime ELSE t + ExpectedAhead(s, i - 1, t)
             /\ restated(i).latest = IF i = 1 THEN NoTime ELSE t + MaxAhead(s, i - 1, t)
  <2>1. s.bookings[i] \in Booking
    BY <1>1
  <2>2. i # 1 => s.bookings[i - 1].id \in BookingIDs
    <3>1. i # 1 => s.bookings[i - 1] \in Booking
      BY <1>1
    <3> QED
      BY <3>1 DEF Booking
  <2>3. i # 1 => /\ t + ExpectedAhead(s, i - 1, t) \in Moments
                 /\ t + MaxAhead(s, i - 1, t) \in Moments
    <3>1. i # 1 => i - 1 \in 0..Len(s.bookings)
      BY <1>1
    <3>2. i # 1 => ExpectedAhead(s, i - 1, t) \in Nat /\ MaxAhead(s, i - 1, t) \in Nat
      BY Zenon, <3>1, AheadNat
    <3> QED
      BY <3>2 DEF Moments
  <2>4. NoTime \in Moments
    BY DEF Moments
  <2> QED
    BY Zenon, <1>1, <2>1, <2>2, <2>3, <2>4 DEF Booking
<1> HIDE DEF restated
<1>3. r \in Seq(Booking) /\ Len(r) = n
  <2>1. r \in [1..n -> Booking]
    BY <1>2
  <2> HIDE DEF r
  <2> QED
    BY <1>1, <2>1, FunctionSeq
<1>4. reproject(s, t) = [s EXCEPT !.bookings = r]
  BY <1>1 DEF reproject, restated
<1>5. /\ reproject(s, t).version = s.version
      /\ reproject(s, t).bookings = r
      /\ reproject(s, t) \in Schedule
  BY Zenon, <1>1, <1>3, <1>4 DEF Schedule
<1> QED
  BY <1>2, <1>3, <1>5

\* An empty schedule satisfies the invariant.
LEMMA InitIInv == Init => IInv
<1> SUFFICES ASSUME Init PROVE IInv
  OBVIOUS
<1>1. schedule = [version |-> 0, bookings |-> <<>>] /\ now = 0
  BY DEF Init, NewRentalSchedule
<1>2. Typed
  BY <1>1 DEF Typed, Schedule
<1>3. QueueWellFormed /\ OnlyHolderStarted
  BY <1>1, QueueCapacityAssumption DEF QueueWellFormed, OnlyHolderStarted
<1> QED
  BY <1>2, <1>3 DEF IInv

\* A reservation leaves the queue as it was and adds the newcomer at its end.
LEMMA ReserveOutcome ==
    ASSUME IInv, NEW id \in BookingIDs, NEW r \in Runs, NEW rt \in Runtimes,
           ReserveBooking(id, r, rt)
    PROVE  LET n == Len(schedule.bookings)
               b == schedule'.bookings[n + 1]
           IN  /\ schedule' \in Schedule /\ now \in Nat /\ now' = now
               /\ schedule.bookings \in Seq(Booking) /\ n \in Nat
               /\ schedule.version \in Nat /\ schedule'.version = schedule.version + 1
               /\ Len(schedule'.bookings) = n + 1 /\ n < QueueCapacity + 1
               /\ DOMAIN schedule.bookings = 1..n /\ DOMAIN schedule'.bookings = 1..(n + 1)
               /\ \A i \in 1..n : schedule'.bookings[i] = schedule.bookings[i]
               /\ \A i \in 1..n : schedule.bookings[i].id # b.id /\ schedule.bookings[i].run # b.run
               /\ b.startedAt = NoTime /\ b.version = schedule.version + 1
               /\ b.state = IF n + 1 = 1 THEN "running" ELSE "queued"
               /\ b.after = IF n + 1 = 1 THEN NoBooking ELSE schedule.bookings[n].id
               /\ b.expected \in 1..b.max
               /\ b.projected = IF n + 1 = 1 THEN NoTime ELSE now + ExpectedAhead(schedule, n, now)
               /\ b.latest = IF n + 1 = 1 THEN NoTime ELSE now + MaxAhead(schedule, n, now)
<1> DEFINE req == [id |-> id, run |-> r, expected |-> rt[1], max |-> rt[2], reservedAt |-> now]
           b == bookingFor(schedule, req)
           n == Len(schedule.bookings)
<1>1. schedule \in Schedule /\ now \in Nat
  BY DEF IInv, Typed
<1>2. req \in Request /\ req.reservedAt = now
  BY <1>1, RuntimesAssumption DEF Request
<1>3. validBookingRequest(schedule, req) /\ schedule' = Reserve(schedule, req) /\ now' = now
  BY DEF ReserveBooking
<1> HIDE DEF req
<1>4. Reserve(schedule, req) \in Schedule /\ b \in Booking
  BY <1>1, <1>2, ReserveTyped
<1>5. schedule.bookings \in Seq(Booking) /\ n \in Nat /\ schedule.version \in Nat
      /\ DOMAIN schedule.bookings = 1..n
  BY <1>1 DEF Schedule
<1>6. /\ schedule'.version = schedule.version + 1
      /\ schedule'.bookings = Append(schedule.bookings, b)
  BY <1>3 DEF Reserve
<1>7. /\ b.id = req.id /\ b.run = req.run /\ b.startedAt = NoTime
      /\ b.version = schedule.version + 1
      /\ b.state = IF n + 1 = 1 THEN "running" ELSE "queued"
      /\ b.after = IF n + 1 = 1 THEN NoBooking ELSE schedule.bookings[n].id
      /\ b.expected = req.expected /\ b.max = req.max
      /\ b.projected = IF n + 1 = 1 THEN NoTime ELSE now + ExpectedAhead(schedule, n, now)
      /\ b.latest = IF n + 1 = 1 THEN NoTime ELSE now + MaxAhead(schedule, n, now)
  <2>1. schedule.bookings = <<>> <=> n + 1 = 1
    BY <1>5, EmptySeq
  <2> QED
    BY Zenon, <1>2, <2>1 DEF bookingFor, startBounds, ExpectedWaitSeconds
<1>8. /\ n < QueueCapacity + 1
      /\ \A i \in 1..n : schedule.bookings[i].id # req.id /\ schedule.bookings[i].run # req.run
      /\ req.expected > 0 /\ req.max > 0 /\ req.expected <= req.max
  BY Zenon, <1>3, <1>5 DEF validBookingRequest
<1>9. b.expected \in 1..b.max
  BY <1>2, <1>7, <1>8 DEF Request
<1> HIDE DEF b
<1>10. /\ Len(schedule'.bookings) = n + 1
       /\ DOMAIN schedule'.bookings = 1..(n + 1)
       /\ \A i \in 1..n : schedule'.bookings[i] = schedule.bookings[i]
       /\ schedule'.bookings[n + 1] = b
  <2>1. /\ Len(schedule'.bookings) = n + 1
        /\ \A i \in 1..n : schedule'.bookings[i] = schedule.bookings[i]
        /\ schedule'.bookings[n + 1] = b
    <3>1. PICK t, e : t = schedule.bookings /\ e = b
      BY Zenon
    <3>2. t \in Seq(Booking) /\ e \in Booking
      BY Zenon, <1>4, <1>5, <3>1
    <3>3. /\ Len(Append(t, e)) = Len(t) + 1
          /\ \A i \in 1..Len(t) : Append(t, e)[i] = t[i]
          /\ Append(t, e)[Len(t) + 1] = e
      BY <3>2, AppendIs
    <3>4. schedule'.bookings = Append(t, e) /\ n = Len(t)
      BY Zenon, <1>6, <3>1
    <3> QED
      BY Zenon, <3>1, <3>3, <3>4
  <2>2. schedule'.bookings \in Seq(Booking)
    BY <1>3, <1>4 DEF Schedule
  <2> QED
    BY <2>1, <2>2
<1> HIDE DEF n
<1> QED
  BY Zenon, <1>1, <1>3, <1>4, <1>5, <1>6, <1>7, <1>8, <1>9, <1>10 DEF n

\* A reservation leaves the queue as it was and chains the newcomer to its end.
LEMMA ReserveIInv ==
    ASSUME IInv, NEW id \in BookingIDs, NEW r \in Runs, NEW rt \in Runtimes,
           ReserveBooking(id, r, rt)
    PROVE  IInv'
<1> DEFINE n == Len(schedule.bookings)
           b == schedule'.bookings[n + 1]
<1>1. schedule' \in Schedule /\ now \in Nat /\ now' = now
  BY Zenon, ReserveOutcome
<1>5. schedule.bookings \in Seq(Booking) /\ n \in Nat /\ schedule.version \in Nat
      /\ DOMAIN schedule.bookings = 1..n
  BY Zenon, ReserveOutcome
<1>6. schedule'.version = schedule.version + 1
  BY Zenon, ReserveOutcome
<1>7. /\ b.startedAt = NoTime
      /\ b.version = schedule.version + 1
      /\ b.state = IF n + 1 = 1 THEN "running" ELSE "queued"
      /\ b.after = IF n + 1 = 1 THEN NoBooking ELSE schedule.bookings[n].id
  BY Zenon, ReserveOutcome
<1>3. n < QueueCapacity + 1
  BY Zenon, ReserveOutcome
<1>4. Len(schedule'.bookings) = n + 1
  BY Zenon, ReserveOutcome
<1>8. \A i \in 1..n : schedule.bookings[i].id # b.id /\ schedule.bookings[i].run # b.run
  BY Zenon, ReserveOutcome
<1>9. /\ DOMAIN schedule'.bookings = 1..(n + 1)
      /\ \A i \in 1..n : schedule'.bookings[i] = schedule.bookings[i]
      /\ schedule'.bookings[n + 1] = b
  BY Zenon, ReserveOutcome
<1> HIDE DEF b
<1>10. Typed'
  BY <1>1 DEF Typed
<1>11. QueueWellFormed'
  <2>1. Len(schedule'.bookings) <= QueueCapacity + 1
    BY <1>3, <1>4, <1>5, QueueCapacityAssumption
  <2>2. \A i \in 1..n :
          /\ schedule.bookings[i].state = IF i = 1 THEN "running" ELSE "queued"
          /\ schedule.bookings[i].after = IF i = 1 THEN NoBooking ELSE schedule.bookings[i - 1].id
          /\ schedule.bookings[i].version <= schedule.version
          /\ \A j \in 1..n : i # j => /\ schedule.bookings[i].id # schedule.bookings[j].id
                                      /\ schedule.bookings[i].run # schedule.bookings[j].run
    BY <1>5 DEF IInv, QueueWellFormed
  <2>3. \A i \in 1..n : schedule.bookings[i].version \in Nat
    <3>1. \A i \in 1..n : schedule.bookings[i] \in Booking
      BY <1>5
    <3> QED
      BY <3>1 DEF Booking
  <2>4. ASSUME NEW i \in 1..(n + 1)
        PROVE  /\ schedule'.bookings[i].state = IF i = 1 THEN "running" ELSE "queued"
               /\ schedule'.bookings[i].after =
                     IF i = 1 THEN NoBooking ELSE schedule'.bookings[i - 1].id
               /\ schedule'.bookings[i].version <= schedule'.version
    <3>1. CASE i \in 1..n
      <4>1. schedule'.bookings[i] = schedule.bookings[i]
        BY <1>9, <3>1
      <4>2. i # 1 => schedule'.bookings[i - 1] = schedule.bookings[i - 1]
        <5>1. i # 1 => i - 1 \in 1..n
          BY <1>5, <3>1
        <5> QED
          BY Zenon, <1>9, <5>1
      <4>3. schedule.bookings[i].version <= schedule'.version
        BY <1>5, <1>6, <2>2, <2>3, <3>1
      <4> QED
        BY <2>2, <3>1, <4>1, <4>2, <4>3
    <3>2. CASE i = n + 1
      BY <1>5, <1>6, <1>7, <1>9, <3>2
    <3> QED
      BY <1>5, <3>1, <3>2
  <2>5. ASSUME NEW i \in 1..(n + 1), NEW j \in 1..(n + 1), i # j
        PROVE  /\ schedule'.bookings[i].id # schedule'.bookings[j].id
               /\ schedule'.bookings[i].run # schedule'.bookings[j].run
    <3>1. CASE i \in 1..n /\ j \in 1..n
      <4>1. /\ schedule'.bookings[i] = schedule.bookings[i]
            /\ schedule'.bookings[j] = schedule.bookings[j]
        BY <1>9, <3>1
      <4>2. /\ schedule.bookings[i].id # schedule.bookings[j].id
            /\ schedule.bookings[i].run # schedule.bookings[j].run
        BY <2>2, <2>5, <3>1
      <4> QED
        BY <4>1, <4>2
    <3>2. CASE i \in 1..n /\ j = n + 1
      BY <1>7, <1>8, <1>9, <3>2
    <3>3. CASE i = n + 1 /\ j \in 1..n
      BY <1>7, <1>8, <1>9, <3>3
    <3>4. i \in 1..n \/ i = n + 1
      BY <1>5
    <3>5. j \in 1..n \/ j = n + 1
      BY <1>5
    <3> QED
      BY <2>5, <3>1, <3>2, <3>3, <3>4, <3>5
  <2> QED
    BY Zenon, <1>9, <2>1, <2>4, <2>5 DEF QueueWellFormed
<1>12. OnlyHolderStarted'
  <2> SUFFICES ASSUME NEW i \in 1..(n + 1), schedule'.bookings[i].startedAt # NoTime
               PROVE  i = 1
    BY <1>9 DEF OnlyHolderStarted
  <2>1. i \in 1..n
    BY <1>5, <1>7, <1>9
  <2>2. schedule.bookings[i].startedAt # NoTime
    BY Zenon, <1>9, <2>1
  <2> QED
    BY Zenon, <1>5, <2>1, <2>2 DEF IInv, OnlyHolderStarted
<1> QED
  BY <1>10, <1>11, <1>12 DEF IInv

\* A start moment is the only field that dating changes.
LEMMA DatedBooking ==
    ASSUME NEW b \in Booking, NEW at \in Nat
    PROVE  /\ [b EXCEPT !.startedAt = at].id = b.id
           /\ [b EXCEPT !.startedAt = at].run = b.run
           /\ [b EXCEPT !.startedAt = at].state = b.state
           /\ [b EXCEPT !.startedAt = at].after = b.after
           /\ [b EXCEPT !.startedAt = at].version = b.version
           /\ [b EXCEPT !.startedAt = at].expected = b.expected
           /\ [b EXCEPT !.startedAt = at].max = b.max
           /\ [b EXCEPT !.startedAt = at].projected = b.projected
           /\ [b EXCEPT !.startedAt = at].latest = b.latest
  BY DEF Booking

\* Dating the head changes no Booking in anything else.
LEMMA StartedOutcome ==
    ASSUME IInv, NEW id \in BookingIDs, NEW at \in 0..now, WorkloadStarted(id, at)
    PROVE  LET n == Len(schedule.bookings)
           IN  /\ schedule' \in Schedule /\ now \in Nat /\ now' = now
               /\ schedule.bookings \in Seq(Booking) /\ n \in Nat /\ 1 \in 1..n
               /\ schedule.version \in Nat /\ schedule'.version = schedule.version + 1
               /\ Len(schedule'.bookings) = n
               /\ DOMAIN schedule.bookings = 1..n /\ DOMAIN schedule'.bookings = 1..n
               /\ \A i \in 1..n : i # 1 => schedule'.bookings[i] = schedule.bookings[i]
               /\ \A i \in 1..n :
                     /\ schedule'.bookings[i].id = schedule.bookings[i].id
                     /\ schedule'.bookings[i].run = schedule.bookings[i].run
                     /\ schedule'.bookings[i].state = schedule.bookings[i].state
                     /\ schedule'.bookings[i].after = schedule.bookings[i].after
                     /\ schedule'.bookings[i].version = schedule.bookings[i].version
                     /\ schedule'.bookings[i].expected = schedule.bookings[i].expected
                     /\ schedule'.bookings[i].max = schedule.bookings[i].max
                     /\ schedule'.bookings[i].projected = schedule.bookings[i].projected
                     /\ schedule'.bookings[i].latest = schedule.bookings[i].latest
                     /\ schedule.bookings[i].version \in Nat
<1> DEFINE n == Len(schedule.bookings)
<1>1. schedule \in Schedule /\ now \in Nat /\ now' = now /\ at \in Nat
  BY DEF IInv, Typed, WorkloadStarted
<1>2. schedule.bookings # <<>> /\ schedule' = Started(schedule, at)
  BY DEF WorkloadStarted, CanStart
<1>3. schedule' \in Schedule
  BY <1>1, <1>2, StartedTyped
<1>4. schedule.bookings \in Seq(Booking) /\ n \in Nat /\ schedule.version \in Nat
      /\ 1 \in 1..n /\ DOMAIN schedule.bookings = 1..n
  BY <1>1, <1>2, EmptySeq DEF Schedule
<1>5. /\ schedule'.version = schedule.version + 1
      /\ schedule'.bookings = [schedule.bookings EXCEPT ![1].startedAt = at]
  BY <1>2 DEF Started
<1>6. \A i \in 1..n : schedule.bookings[i] \in Booking
  BY <1>4
<1>7. /\ Len(schedule'.bookings) = n /\ DOMAIN schedule'.bookings = 1..n
      /\ \A i \in 1..n : i # 1 => schedule'.bookings[i] = schedule.bookings[i]
      /\ schedule'.bookings[1] = [schedule.bookings[1] EXCEPT !.startedAt = at]
  BY <1>4, <1>5
<1>8. ASSUME NEW i \in 1..n
      PROVE  /\ schedule'.bookings[i].id = schedule.bookings[i].id
             /\ schedule'.bookings[i].run = schedule.bookings[i].run
             /\ schedule'.bookings[i].state = schedule.bookings[i].state
             /\ schedule'.bookings[i].after = schedule.bookings[i].after
             /\ schedule'.bookings[i].version = schedule.bookings[i].version
             /\ schedule'.bookings[i].expected = schedule.bookings[i].expected
             /\ schedule'.bookings[i].max = schedule.bookings[i].max
             /\ schedule'.bookings[i].projected = schedule.bookings[i].projected
             /\ schedule'.bookings[i].latest = schedule.bookings[i].latest
             /\ schedule.bookings[i].version \in Nat
  <2>1. schedule.bookings[i] \in Booking
    BY <1>6
  <2>2. schedule.bookings[i].version \in Nat
    BY <2>1 DEF Booking
  <2>3. CASE i = 1
    <3> DEFINE b == schedule.bookings[1]
    <3>1. b \in Booking /\ at \in Nat
      BY <1>1, <2>1, <2>3
    <3>2. schedule'.bookings[1] = [b EXCEPT !.startedAt = at]
      BY <1>7
    <3> HIDE DEF b
    <3>3. /\ schedule'.bookings[1].id = b.id
          /\ schedule'.bookings[1].run = b.run
          /\ schedule'.bookings[1].state = b.state
          /\ schedule'.bookings[1].after = b.after
          /\ schedule'.bookings[1].version = b.version
          /\ schedule'.bookings[1].expected = b.expected
          /\ schedule'.bookings[1].max = b.max
          /\ schedule'.bookings[1].projected = b.projected
          /\ schedule'.bookings[1].latest = b.latest
      BY <3>1, <3>2, DatedBooking
    <3> QED
      BY <2>2, <2>3, <3>3 DEF b
  <2>4. CASE i # 1
    BY <1>7, <2>2, <2>4
  <2> QED
    BY <2>3, <2>4
<1> HIDE DEF n
<1> QED
  BY Zenon, <1>1, <1>3, <1>4, <1>5, <1>7, <1>8 DEF n

\* Dating the head disturbs no chain and dates no other Booking.
LEMMA StartedIInv ==
    ASSUME IInv, NEW id \in BookingIDs, NEW at \in 0..now, WorkloadStarted(id, at)
    PROVE  IInv'
<1> DEFINE n == Len(schedule.bookings)
<1>1. schedule' \in Schedule /\ now \in Nat /\ now' = now
  BY Zenon, StartedOutcome
<1>3. Typed'
  BY <1>1 DEF Typed
<1>4. schedule.version \in Nat /\ n \in Nat /\ 1 \in 1..n /\ DOMAIN schedule.bookings = 1..n
  BY Zenon, StartedOutcome
<1>5. schedule'.version = schedule.version + 1
  BY Zenon, StartedOutcome
<1>7. /\ Len(schedule'.bookings) = n /\ DOMAIN schedule'.bookings = 1..n
      /\ \A i \in 1..n : i # 1 => schedule'.bookings[i] = schedule.bookings[i]
  BY Zenon, StartedOutcome
<1>8. \A i \in 1..n :
         /\ schedule'.bookings[i].id = schedule.bookings[i].id
         /\ schedule'.bookings[i].run = schedule.bookings[i].run
         /\ schedule'.bookings[i].state = schedule.bookings[i].state
         /\ schedule'.bookings[i].after = schedule.bookings[i].after
         /\ schedule'.bookings[i].version = schedule.bookings[i].version
         /\ schedule.bookings[i].version \in Nat
  BY Zenon, StartedOutcome
<1>9. QueueWellFormed'
  <2>1. n <= QueueCapacity + 1
    BY DEF IInv, QueueWellFormed
  <2>2. ASSUME NEW i \in 1..n
        PROVE  /\ schedule'.bookings[i].state = IF i = 1 THEN "running" ELSE "queued"
               /\ schedule'.bookings[i].after =
                     IF i = 1 THEN NoBooking ELSE schedule'.bookings[i - 1].id
               /\ schedule'.bookings[i].version <= schedule'.version
    <3>1. /\ schedule.bookings[i].state = IF i = 1 THEN "running" ELSE "queued"
          /\ schedule.bookings[i].after = IF i = 1 THEN NoBooking ELSE schedule.bookings[i - 1].id
          /\ schedule.bookings[i].version <= schedule.version
      BY <1>4 DEF IInv, QueueWellFormed
    <3>2. i # 1 => i - 1 \in 1..n
      BY <1>4
    <3>3. i # 1 => schedule'.bookings[i - 1].id = schedule.bookings[i - 1].id
      BY <1>8, <3>2
    <3>4. schedule.bookings[i].version <= schedule'.version
      BY <1>4, <1>5, <1>8, <3>1
    <3> QED
      BY Zenon, <1>8, <3>1, <3>3, <3>4
  <2>3. ASSUME NEW i \in 1..n, NEW j \in 1..n, i # j
        PROVE  /\ schedule'.bookings[i].id # schedule'.bookings[j].id
               /\ schedule'.bookings[i].run # schedule'.bookings[j].run
    <3>1. /\ schedule.bookings[i].id # schedule.bookings[j].id
          /\ schedule.bookings[i].run # schedule.bookings[j].run
      BY Zenon, <1>4, <2>3 DEF IInv, QueueWellFormed
    <3> QED
      BY <1>8, <3>1
  <2> QED
    BY <1>7, <2>1, <2>2, <2>3 DEF QueueWellFormed
<1>10. OnlyHolderStarted'
  BY <1>4, <1>7 DEF IInv, OnlyHolderStarted
<1> QED
  BY <1>3, <1>9, <1>10 DEF IInv

\* Wherever in the queue the Booking was, what is left keeps its order and what it
\* declared, and is restated from its place.
LEMMA CompleteOutcome ==
    ASSUME IInv, NEW id \in BookingIDs, CompleteBooking(id)
    PROVE  LET n == Len(schedule.bookings)
               k == bookingIndex(schedule, id)
               w == without(schedule, k)
           IN  /\ schedule' \in Schedule /\ w \in Schedule /\ now \in Nat /\ now' = now
               /\ schedule.bookings \in Seq(Booking) /\ n \in Nat /\ k \in 1..n
               /\ schedule.version \in Nat /\ schedule'.version = schedule.version + 1
               /\ Len(schedule'.bookings) = n - 1 /\ Len(w.bookings) = n - 1
               /\ DOMAIN schedule.bookings = 1..n /\ DOMAIN schedule'.bookings = 1..n - 1
               /\ \A i \in 1..n - 1 : w.bookings[i] = schedule.bookings[IF i < k THEN i ELSE i + 1]
               /\ \A i \in 1..n - 1 :
                     /\ schedule'.bookings[i].id = w.bookings[i].id
                     /\ schedule'.bookings[i].run = w.bookings[i].run
                     /\ schedule'.bookings[i].startedAt = w.bookings[i].startedAt
                     /\ schedule'.bookings[i].version = schedule.version + 1
                     /\ schedule'.bookings[i].state = IF i = 1 THEN "running" ELSE "queued"
                     /\ schedule'.bookings[i].after = IF i = 1 THEN NoBooking ELSE w.bookings[i - 1].id
                     /\ schedule'.bookings[i].expected = w.bookings[i].expected
                     /\ schedule'.bookings[i].max = w.bookings[i].max
                     /\ schedule'.bookings[i].projected =
                           IF i = 1 THEN NoTime ELSE now + ExpectedAhead(w, i - 1, now)
                     /\ schedule'.bookings[i].latest =
                           IF i = 1 THEN NoTime ELSE now + MaxAhead(w, i - 1, now)
<1> DEFINE n == Len(schedule.bookings)
           k == bookingIndex(schedule, id)
           w == without(schedule, k)
<1>1. schedule \in Schedule /\ now \in Nat /\ now' = now
  BY DEF IInv, Typed, CompleteBooking
<1>2. schedule.bookings \in Seq(Booking) /\ n \in Nat /\ schedule.version \in Nat
      /\ DOMAIN schedule.bookings = 1..n
  BY <1>1 DEF Schedule
<1>3. k \in 1..n
  BY <1>2 DEF CompleteBooking, Holds, bookingIndex
<1>4. schedule' = reproject(w, now)
  BY DEF CompleteBooking, Complete
<1>5. /\ w \in Schedule /\ Len(w.bookings) = n - 1
      /\ w.version = schedule.version + 1
      /\ \A i \in 1..n - 1 : w.bookings[i] = schedule.bookings[IF i < k THEN i ELSE i + 1]
  <2>1. w.version = schedule.version + 1
    BY DEF without
  <2> QED
    BY Zenon, <1>1, <1>3, <2>1, WithoutTyped
<1> HIDE DEF k, w
<1>6. /\ schedule' \in Schedule
      /\ schedule'.version = w.version
      /\ Len(schedule'.bookings) = n - 1
      /\ \A i \in 1..n - 1 :
            /\ schedule'.bookings[i].id = w.bookings[i].id
            /\ schedule'.bookings[i].run = w.bookings[i].run
            /\ schedule'.bookings[i].startedAt = w.bookings[i].startedAt
            /\ schedule'.bookings[i].version = w.version
            /\ schedule'.bookings[i].state = IF i = 1 THEN "running" ELSE "queued"
            /\ schedule'.bookings[i].after = IF i = 1 THEN NoBooking ELSE w.bookings[i - 1].id
            /\ schedule'.bookings[i].expected = w.bookings[i].expected
            /\ schedule'.bookings[i].max = w.bookings[i].max
            /\ schedule'.bookings[i].projected =
                  IF i = 1 THEN NoTime ELSE now + ExpectedAhead(w, i - 1, now)
            /\ schedule'.bookings[i].latest =
                  IF i = 1 THEN NoTime ELSE now + MaxAhead(w, i - 1, now)
  <2>1. w \in Schedule /\ now \in Nat
    BY <1>1, <1>5
  <2>2. /\ reproject(w, now) \in Schedule /\ reproject(w, now).version = w.version
        /\ Len(reproject(w, now).bookings) = Len(w.bookings)
        /\ \A i \in 1..Len(w.bookings) :
             LET b == reproject(w, now).bookings[i]
             IN  /\ b.id = w.bookings[i].id /\ b.run = w.bookings[i].run
                 /\ b.startedAt = w.bookings[i].startedAt
                 /\ b.version = w.version
                 /\ b.state = IF i = 1 THEN "running" ELSE "queued"
                 /\ b.after = IF i = 1 THEN NoBooking ELSE w.bookings[i - 1].id
                 /\ b.expected = w.bookings[i].expected /\ b.max = w.bookings[i].max
                 /\ b.projected = IF i = 1 THEN NoTime ELSE now + ExpectedAhead(w, i - 1, now)
                 /\ b.latest = IF i = 1 THEN NoTime ELSE now + MaxAhead(w, i - 1, now)
    BY Zenon, <2>1, ReprojectTyped
  <2> QED
    BY <1>4, <1>5, <2>2
<1>7. DOMAIN schedule'.bookings = 1..n - 1
  BY <1>6 DEF Schedule
<1> HIDE DEF n
<1> QED
  BY Zenon, <1>1, <1>2, <1>3, <1>5, <1>6, <1>7 DEF n, k, w

\* Wherever in the queue the Booking was, what is left is one chain in order.
LEMMA CompleteIInv ==
    ASSUME IInv, NEW id \in BookingIDs, CompleteBooking(id)
    PROVE  IInv'
<1> DEFINE n == Len(schedule.bookings)
           k == bookingIndex(schedule, id)
           w == without(schedule, k)
<1>1. schedule' \in Schedule /\ now \in Nat /\ now' = now
  BY Zenon, CompleteOutcome
<1>2. n \in Nat /\ schedule.version \in Nat /\ DOMAIN schedule.bookings = 1..n
  BY Zenon, CompleteOutcome
<1>3. k \in 1..n
  BY Zenon, CompleteOutcome
<1>5. \A i \in 1..n - 1 : w.bookings[i] = schedule.bookings[IF i < k THEN i ELSE i + 1]
  BY Zenon, CompleteOutcome
<1>6. /\ schedule'.version = schedule.version + 1
      /\ Len(schedule'.bookings) = n - 1
      /\ \A i \in 1..n - 1 :
            /\ schedule'.bookings[i].id = w.bookings[i].id
            /\ schedule'.bookings[i].run = w.bookings[i].run
            /\ schedule'.bookings[i].startedAt = w.bookings[i].startedAt
            /\ schedule'.bookings[i].version = schedule.version + 1
            /\ schedule'.bookings[i].state = IF i = 1 THEN "running" ELSE "queued"
            /\ schedule'.bookings[i].after = IF i = 1 THEN NoBooking ELSE w.bookings[i - 1].id
  BY Zenon, CompleteOutcome
<1>7. DOMAIN schedule'.bookings = 1..n - 1
  BY Zenon, CompleteOutcome
<1> HIDE DEF k, w
<1>8. QueueWellFormed'
  <2>1. n <= QueueCapacity + 1
    BY DEF IInv, QueueWellFormed
  <2>2. \A i \in 1..n - 1 :
          i # 1 => /\ i - 1 \in 1..n - 1
                   /\ schedule'.bookings[i - 1].id = w.bookings[i - 1].id
    BY <1>2, <1>6
  <2>3. ASSUME NEW i \in 1..n - 1, NEW j \in 1..n - 1, i # j
        PROVE  /\ schedule'.bookings[i].id # schedule'.bookings[j].id
               /\ schedule'.bookings[i].run # schedule'.bookings[j].run
    <3> DEFINE i0 == IF i < k THEN i ELSE i + 1
               j0 == IF j < k THEN j ELSE j + 1
    <3>1. i0 \in 1..n /\ j0 \in 1..n /\ i0 # j0
      BY <1>2, <1>3, <2>3
    <3>2. w.bookings[i] = schedule.bookings[i0] /\ w.bookings[j] = schedule.bookings[j0]
      BY <1>5
    <3> HIDE DEF i0, j0
    <3>3. /\ schedule.bookings[i0].id # schedule.bookings[j0].id
          /\ schedule.bookings[i0].run # schedule.bookings[j0].run
      BY <1>2, <3>1 DEF IInv, QueueWellFormed
    <3>4. /\ schedule'.bookings[i].id = schedule.bookings[i0].id
          /\ schedule'.bookings[i].run = schedule.bookings[i0].run
          /\ schedule'.bookings[j].id = schedule.bookings[j0].id
          /\ schedule'.bookings[j].run = schedule.bookings[j0].run
      BY <1>6, <3>2
    <3> QED
      BY <3>3, <3>4
  <2>5. Len(schedule'.bookings) <= QueueCapacity + 1
    BY <1>2, <1>6, <2>1, QueueCapacityAssumption
  <2>6. ASSUME NEW i \in 1..n - 1
        PROVE  /\ schedule'.bookings[i].state = IF i = 1 THEN "running" ELSE "queued"
               /\ schedule'.bookings[i].after =
                     IF i = 1 THEN NoBooking ELSE schedule'.bookings[i - 1].id
               /\ schedule'.bookings[i].version <= schedule'.version
    BY <1>2, <1>6, <2>2
  <2> QED
    BY Zenon, <1>7, <2>3, <2>5, <2>6 DEF QueueWellFormed
<1>9. OnlyHolderStarted'
  <2> SUFFICES ASSUME NEW i \in 1..n - 1, schedule'.bookings[i].startedAt # NoTime
               PROVE  i = 1
    BY <1>7 DEF OnlyHolderStarted
  <2>1. w.bookings[i].startedAt # NoTime
    BY <1>6
  <2>2. (IF i < k THEN i ELSE i + 1) \in 1..n
    BY <1>2, <1>3
  <2>3. schedule.bookings[IF i < k THEN i ELSE i + 1].startedAt # NoTime
    BY <1>5, <2>1
  <2>4. (IF i < k THEN i ELSE i + 1) = 1
    BY <1>2, <2>2, <2>3 DEF IInv, OnlyHolderStarted
  <2> QED
    BY <1>2, <1>3, <2>4
<1>10. Typed'
  BY <1>1 DEF Typed
<1> QED
  BY <1>8, <1>9, <1>10 DEF IInv

\* Every step preserves the invariant.
LEMMA NextIInv == IInv /\ [Next]_vars => IInv'
<1> SUFFICES ASSUME IInv, [Next]_vars PROVE IInv'
  OBVIOUS
<1>1. ASSUME NEW id \in BookingIDs, NEW r \in Runs, NEW rt \in Runtimes, ReserveBooking(id, r, rt)
      PROVE  IInv'
  BY <1>1, ReserveIInv
<1>2. ASSUME NEW id \in BookingIDs, NEW at \in 0..now, WorkloadStarted(id, at)
      PROVE  IInv'
  BY <1>2, StartedIInv
<1>3. ASSUME NEW id \in BookingIDs, CompleteBooking(id) PROVE IInv'
  BY <1>3, CompleteIInv
<1>4. CASE Tick
  <2>1. schedule' = schedule /\ now' = now + 1 /\ now \in Nat
    BY <1>4 DEF Tick, IInv, Typed
  <2> QED
    BY <2>1 DEF IInv, Typed, QueueWellFormed, OnlyHolderStarted
<1>5. CASE UNCHANGED vars
  BY <1>5 DEF vars, IInv, Typed, QueueWellFormed, OnlyHolderStarted
<1> QED
  BY <1>1, <1>2, <1>3, <1>4, <1>5 DEF Next

\* The invariant holds in every reachable state.
LEMMA Invariance == Spec => []IInv
  BY InitIInv, NextIInv, PTL DEF Spec

(***************************************************************************)
(* However placements, observations and completions interleave, one        *)
(* Booking at most runs, at most QueueCapacity wait, the chain of Bookings *)
(* is the queue's order and no Booking or Run is scheduled twice.          *)
(***************************************************************************)
THEOREM ScheduleStaysWellFormed == Spec => []QueueWellFormed
<1>1. IInv => QueueWellFormed
  BY DEF IInv
<1> QED
  BY <1>1, Invariance, PTL

(***************************************************************************)
(* No Booking that waits has a start moment, so a promoted Booking owes    *)
(* its whole runtime.                                                      *)
(***************************************************************************)
THEOREM StartsAreTheHolders == Spec => []OnlyHolderStarted
<1>1. IInv => OnlyHolderStarted
  BY DEF IInv
<1> QED
  BY <1>1, Invariance, PTL

(***************************************************************************)
(* What a schedule has been promised: a Booking declares an expected       *)
(* runtime within the enforced one, both more than nothing, and is         *)
(* expected to start no later than it must.                                *)
(***************************************************************************)
Declared ==
    /\ schedule.bookings # <<>> => schedule.version > 0
    /\ \A i \in DOMAIN schedule.bookings :
          /\ schedule.bookings[i].expected \in 1..schedule.bookings[i].max
          /\ schedule.bookings[i].projected <= schedule.bookings[i].latest

\* What is expected of a queue is within what is enforced of it.
LEMMA AheadBounded ==
    ASSUME NEW s \in Schedule, NEW n \in 0..Len(s.bookings), NEW t \in Nat,
           \A i \in 1..n : s.bookings[i].expected <= s.bookings[i].max
    PROVE  ExpectedAhead(s, n, t) <= MaxAhead(s, n, t)
<1> DEFINE f == [i \in 1..n |-> RemainingMaxSeconds(s.bookings[i], t)]
           e == [i \in 1..n |-> RemainingExpectedSeconds(s.bookings[i], t)]
<1>1. \A i \in 1..n : s.bookings[i] \in Booking
  BY DEF Schedule
<1>2. f \in [1..n -> Nat] /\ e \in [1..n -> Nat]
  BY Zenon, <1>1, RemainingNat
<1>3. \A i \in 1..n : e[i] <= f[i]
  <2> TAKE i \in 1..n
  <2> DEFINE b == s.bookings[i]
  <2>1. b.expected \in Nat /\ b.max \in Nat /\ b.startedAt \in Nat \cup {NoTime} /\ b.expected <= b.max
    BY <1>1 DEF Booking
  <2> HIDE DEF b
  <2>2. RemainingExpectedSeconds(b, t) <= RemainingMaxSeconds(b, t)
    BY <2>1 DEF RemainingExpectedSeconds, RemainingMaxSeconds, remainingSeconds, NoTime
  <2> QED
    BY <2>2 DEF b
<1>4. n \in Nat
  BY DEF Schedule
<1> HIDE DEF f, e
<1>5. Total(e, n) <= Total(f, n)
  BY Zenon, <1>2, <1>3, <1>4, TotalMonotone
<1> QED
  BY <1>5 DEF ExpectedAhead, MaxAhead, e, f

\* A reservation is projected behind what is ahead of it, within its latest start.
LEMMA ReserveDeclared ==
    ASSUME IInv, Declared, NEW id \in BookingIDs, NEW r \in Runs, NEW rt \in Runtimes,
           ReserveBooking(id, r, rt)
    PROVE  Declared'
<1> DEFINE n == Len(schedule.bookings)
           b == schedule'.bookings[n + 1]
<1>1. schedule \in Schedule
  BY DEF IInv, Typed
<1>2. /\ now \in Nat /\ n \in Nat /\ schedule.version \in Nat
      /\ schedule'.version = schedule.version + 1
      /\ DOMAIN schedule.bookings = 1..n /\ DOMAIN schedule'.bookings = 1..(n + 1)
  BY Zenon, ReserveOutcome
<1>3. \A i \in 1..n : schedule'.bookings[i] = schedule.bookings[i]
  BY Zenon, ReserveOutcome
<1>4. /\ b.expected \in 1..b.max
      /\ b.projected = IF n + 1 = 1 THEN NoTime ELSE now + ExpectedAhead(schedule, n, now)
      /\ b.latest = IF n + 1 = 1 THEN NoTime ELSE now + MaxAhead(schedule, n, now)
  BY Zenon, ReserveOutcome
<1> HIDE DEF b
<1>5. \A i \in 1..n : schedule.bookings[i].expected <= schedule.bookings[i].max
  <2> TAKE i \in 1..n
  <2>1. schedule.bookings[i].expected \in 1..schedule.bookings[i].max
    BY <1>2 DEF Declared
  <2>2. schedule.bookings[i] \in Booking
    BY <1>1, <1>2 DEF Schedule
  <2>3. schedule.bookings[i].max \in Nat
    BY <2>2 DEF Booking
  <2> QED
    BY <2>1, <2>3
<1>6. n \in 0..n
  BY <1>2
<1>7. /\ ExpectedAhead(schedule, n, now) <= MaxAhead(schedule, n, now)
      /\ ExpectedAhead(schedule, n, now) \in Nat /\ MaxAhead(schedule, n, now) \in Nat
  BY Zenon, <1>1, <1>2, <1>5, <1>6, AheadNat, AheadBounded
<1>8. b.projected <= b.latest
  BY <1>2, <1>4, <1>7 DEF NoTime
<1>9. \A i \in 1..n : /\ schedule.bookings[i].expected \in 1..schedule.bookings[i].max
                      /\ schedule.bookings[i].projected <= schedule.bookings[i].latest
  BY <1>2 DEF Declared
<1>10. \A i \in 1..(n + 1) : i \in 1..n \/ i = n + 1
  BY <1>2
<1>11. schedule'.version > 0
  BY <1>2
<1> HIDE DEF n
<1> QED
  BY Zenon, <1>2, <1>3, <1>4, <1>8, <1>9, <1>10, <1>11 DEF Declared, b

\* Dating a start restates nothing.
LEMMA StartedDeclared ==
    ASSUME IInv, Declared, NEW id \in BookingIDs, NEW at \in 0..now, WorkloadStarted(id, at)
    PROVE  Declared'
<1> DEFINE n == Len(schedule.bookings)
<1>1. /\ schedule.version \in Nat /\ schedule'.version = schedule.version + 1
      /\ DOMAIN schedule.bookings = 1..n /\ DOMAIN schedule'.bookings = 1..n
  BY Zenon, StartedOutcome
<1>2. \A i \in 1..n :
         /\ schedule'.bookings[i].expected = schedule.bookings[i].expected
         /\ schedule'.bookings[i].max = schedule.bookings[i].max
         /\ schedule'.bookings[i].projected = schedule.bookings[i].projected
         /\ schedule'.bookings[i].latest = schedule.bookings[i].latest
  BY Zenon, StartedOutcome
<1>3. schedule'.version > 0
  BY <1>1
<1> QED
  BY Zenon, <1>1, <1>2, <1>3 DEF Declared

\* What a completion restates is again within the latest start.
LEMMA CompleteDeclared ==
    ASSUME IInv, Declared, NEW id \in BookingIDs, CompleteBooking(id)
    PROVE  Declared'
<1> DEFINE n == Len(schedule.bookings)
           k == bookingIndex(schedule, id)
           w == without(schedule, k)
<1>1. /\ w \in Schedule /\ now \in Nat /\ n \in Nat /\ k \in 1..n
      /\ schedule.version \in Nat /\ schedule'.version = schedule.version + 1
      /\ Len(w.bookings) = n - 1
      /\ DOMAIN schedule.bookings = 1..n /\ DOMAIN schedule'.bookings = 1..n - 1
  BY Zenon, CompleteOutcome
<1>2. \A i \in 1..n - 1 : w.bookings[i] = schedule.bookings[IF i < k THEN i ELSE i + 1]
  BY Zenon, CompleteOutcome
<1>3. \A i \in 1..n - 1 :
         /\ schedule'.bookings[i].expected = w.bookings[i].expected
         /\ schedule'.bookings[i].max = w.bookings[i].max
         /\ schedule'.bookings[i].projected =
               IF i = 1 THEN NoTime ELSE now + ExpectedAhead(w, i - 1, now)
         /\ schedule'.bookings[i].latest =
               IF i = 1 THEN NoTime ELSE now + MaxAhead(w, i - 1, now)
  BY Zenon, CompleteOutcome
<1> HIDE DEF k, w
<1>4. \A i \in 1..n - 1 : w.bookings[i].expected \in 1..w.bookings[i].max
  <2> TAKE i \in 1..n - 1
  <2>1. (IF i < k THEN i ELSE i + 1) \in 1..n
    BY <1>1
  <2> QED
    BY Zenon, <1>1, <1>2, <2>1 DEF Declared
<1>5. \A i \in 1..n - 1 : w.bookings[i].expected <= w.bookings[i].max
  <2> TAKE i \in 1..n - 1
  <2>1. w.bookings[i] \in Booking
    BY <1>1 DEF Schedule
  <2>2. w.bookings[i].max \in Nat
    BY <2>1 DEF Booking
  <2> QED
    BY <1>4, <2>2
<1>6. ASSUME NEW i \in 1..n - 1 PROVE schedule'.bookings[i].projected <= schedule'.bookings[i].latest
  <2>1. CASE i = 1
    BY <1>3, <2>1 DEF NoTime
  <2>2. CASE i # 1
    <3>1. i - 1 \in 0..Len(w.bookings) /\ \A j \in 1..i - 1 : j \in 1..n - 1
      BY <1>1
    <3>2. \A j \in 1..i - 1 : w.bookings[j].expected <= w.bookings[j].max
      BY <1>5, <3>1
    <3>3. /\ ExpectedAhead(w, i - 1, now) <= MaxAhead(w, i - 1, now)
          /\ ExpectedAhead(w, i - 1, now) \in Nat /\ MaxAhead(w, i - 1, now) \in Nat
      BY Zenon, <1>1, <3>1, <3>2, AheadNat, AheadBounded
    <3> QED
      BY <1>1, <1>3, <2>2, <3>3
  <2> QED
    BY <2>1, <2>2
<1>7. schedule'.version > 0
  BY <1>1
<1> QED
  BY Zenon, <1>1, <1>3, <1>4, <1>6, <1>7 DEF Declared

\* Every step keeps what has been promised.
LEMMA NextDeclared == IInv /\ Declared /\ [Next]_vars => Declared'
<1> SUFFICES ASSUME IInv, Declared, [Next]_vars PROVE Declared'
  OBVIOUS
<1>1. ASSUME NEW id \in BookingIDs, NEW r \in Runs, NEW rt \in Runtimes, ReserveBooking(id, r, rt)
      PROVE  Declared'
  BY <1>1, ReserveDeclared
<1>2. ASSUME NEW id \in BookingIDs, NEW at \in 0..now, WorkloadStarted(id, at)
      PROVE  Declared'
  BY <1>2, StartedDeclared
<1>3. ASSUME NEW id \in BookingIDs, CompleteBooking(id) PROVE Declared'
  BY <1>3, CompleteDeclared
<1>4. CASE Tick
  BY <1>4 DEF Tick, Declared
<1>5. CASE UNCHANGED vars
  BY <1>5 DEF vars, Declared
<1> QED
  BY <1>1, <1>2, <1>3, <1>4, <1>5 DEF Next

(***************************************************************************)
(* However the queue moves, a Booking is never expected to start later     *)
(* than the latest start it was given, and never owes less than a second   *)
(* (startBounds, reproject and validBookingRequest).                       *)
(***************************************************************************)
THEOREM ProjectionsStayWithinBounds == Spec => []Declared
<1>1. Init => Declared
  BY DEF Init, NewRentalSchedule, Declared
<1> QED
  BY <1>1, Invariance, NextDeclared, PTL DEF Spec

(***************************************************************************)
(* Every field of the schedule keeps its type, the projected starts, which *)
(* are sums over the queue, included.                                      *)
(***************************************************************************)
THEOREM ScheduleIsTyped == Spec => []TypeOK
<1>1. IInv => TypeOK
  <2> SUFFICES ASSUME Typed PROVE TypeOK
    BY DEF IInv
  <2>1. Moments \subseteq Int /\ Nat \cup {NoTime} \subseteq Int
    BY DEF Moments, NoTime
  <2>2. Booking \subseteq ScheduledBookings
    BY Zenon, <2>1 DEF Booking, ScheduledBookings
  <2>3. schedule.bookings \in Seq(ScheduledBookings)
    <3>1. schedule.bookings \in Seq(Booking)
      BY DEF Typed, Schedule
    <3> QED
      BY <2>2, <3>1
  <2> QED
    BY <2>3 DEF TypeOK, Typed, Schedule
<1> QED
  BY <1>1, Invariance, PTL

\* What a step may do to the queue's order.
KeepsOrder ==
    \A i, j \in DOMAIN schedule.bookings, k, l \in DOMAIN schedule'.bookings :
        /\ schedule.bookings[i].id = schedule'.bookings[k].id
        /\ schedule.bookings[j].id = schedule'.bookings[l].id
        /\ i < j
        => k < l /\ (i = 1 => k = 1)

\* Where every Booking stays in its place, none overtakes another.
LEMMA InPlaceKeepsOrder ==
    ASSUME IInv,
           \A i \in DOMAIN schedule.bookings, k \in DOMAIN schedule'.bookings :
               schedule.bookings[i].id = schedule'.bookings[k].id => i = k
    PROVE  KeepsOrder
  BY Zenon DEF KeepsOrder

\* A reservation goes to the end and moves nobody.
LEMMA ReserveKeepsOrder ==
    ASSUME IInv, NEW id \in BookingIDs, NEW r \in Runs, NEW rt \in Runtimes,
           ReserveBooking(id, r, rt)
    PROVE  KeepsOrder
<1> DEFINE n == Len(schedule.bookings)
<1>1. n \in Nat /\ DOMAIN schedule.bookings = 1..n /\ DOMAIN schedule'.bookings = 1..(n + 1)
  BY Zenon, ReserveOutcome
<1>2. /\ \A i \in 1..n : schedule'.bookings[i] = schedule.bookings[i]
      /\ \A i \in 1..n : schedule.bookings[i].id # schedule'.bookings[n + 1].id
  BY Zenon, ReserveOutcome
<1>3. \A i, j \in 1..n : i # j => schedule.bookings[i].id # schedule.bookings[j].id
  BY Zenon, <1>1 DEF IInv, QueueWellFormed
<1>4. \A k \in 1..(n + 1) : k \in 1..n \/ k = n + 1
  BY <1>1
<1> HIDE DEF n
<1> QED
  BY Zenon, <1>1, <1>2, <1>3, <1>4, InPlaceKeepsOrder

\* A start moves nobody.
LEMMA StartedKeepsOrder ==
    ASSUME IInv, NEW id \in BookingIDs, NEW at \in 0..now, WorkloadStarted(id, at)
    PROVE  KeepsOrder
<1> DEFINE n == Len(schedule.bookings)
<1>1. /\ DOMAIN schedule.bookings = 1..n /\ DOMAIN schedule'.bookings = 1..n
      /\ \A i \in 1..n : schedule'.bookings[i].id = schedule.bookings[i].id
  BY Zenon, StartedOutcome
<1>2. \A i, j \in 1..n : i # j => schedule.bookings[i].id # schedule.bookings[j].id
  BY Zenon, <1>1 DEF IInv, QueueWellFormed
<1> QED
  BY Zenon, <1>1, <1>2, InPlaceKeepsOrder

\* A completion closes the gap it leaves and moves nobody past another.
LEMMA CompleteKeepsOrder ==
    ASSUME IInv, NEW id \in BookingIDs, CompleteBooking(id)
    PROVE  KeepsOrder
<1> DEFINE n == Len(schedule.bookings)
           x == bookingIndex(schedule, id)
           w == without(schedule, x)
           was(i) == IF i < x THEN i ELSE i + 1
<1>1. /\ n \in Nat /\ x \in 1..n
      /\ DOMAIN schedule.bookings = 1..n /\ DOMAIN schedule'.bookings = 1..n - 1
  BY Zenon, CompleteOutcome
<1>2. \A i \in 1..n - 1 : w.bookings[i] = schedule.bookings[was(i)]
  BY Zenon, CompleteOutcome
<1>3. \A i \in 1..n - 1 : schedule'.bookings[i].id = w.bookings[i].id
  BY Zenon, CompleteOutcome
<1> HIDE DEF x, w
<1>4. \A i \in 1..n - 1 : was(i) \in 1..n
  BY <1>1
<1>5. \A k, l \in 1..n - 1 : was(k) < was(l) => k < l /\ (was(k) = 1 => k = 1)
  BY <1>1
<1>6. \A i, j \in 1..n : i # j => schedule.bookings[i].id # schedule.bookings[j].id
  BY Zenon, <1>1 DEF IInv, QueueWellFormed
<1> HIDE DEF was, n
<1>7. \A i \in 1..n, k \in 1..n - 1 : schedule.bookings[i].id = schedule'.bookings[k].id => i = was(k)
  BY Zenon, <1>2, <1>3, <1>4, <1>6
<1>8. ASSUME NEW i \in 1..n, NEW j \in 1..n, NEW k \in 1..n - 1, NEW l \in 1..n - 1,
             schedule.bookings[i].id = schedule'.bookings[k].id,
             schedule.bookings[j].id = schedule'.bookings[l].id, i < j
      PROVE  k < l /\ (i = 1 => k = 1)
  <2>1. i = was(k) /\ j = was(l)
    BY Zenon, <1>7, <1>8
  <2> QED
    BY Zenon, <1>5, <1>8, <2>1
<1> SUFFICES ASSUME NEW i \in DOMAIN schedule.bookings, NEW j \in DOMAIN schedule.bookings,
                    NEW k \in DOMAIN schedule'.bookings, NEW l \in DOMAIN schedule'.bookings,
                    schedule.bookings[i].id = schedule'.bookings[k].id,
                    schedule.bookings[j].id = schedule'.bookings[l].id, i < j
             PROVE  k < l /\ (i = 1 => k = 1)
  BY Zenon DEF KeepsOrder
<1>9. i \in 1..n /\ j \in 1..n /\ k \in 1..n - 1 /\ l \in 1..n - 1
  BY Zenon, <1>1
<1> QED
  BY Zenon, <1>8, <1>9

(***************************************************************************)
(* Nobody overtakes: whatever is reserved, started or completed, and       *)
(* wherever in the queue, the Bookings that stay keep their order and the  *)
(* holder of the Rental stays its holder (Reserve, Started, Complete).     *)
(***************************************************************************)
THEOREM NobodyOvertakes == Spec => NoOvertaking
<1>1. IInv /\ [Next]_vars => [KeepsOrder]_vars
  <2> SUFFICES ASSUME IInv, Next PROVE KeepsOrder \/ UNCHANGED vars
    OBVIOUS
  <2>1. ASSUME NEW id \in BookingIDs, NEW r \in Runs, NEW rt \in Runtimes, ReserveBooking(id, r, rt)
        PROVE  KeepsOrder
    BY <2>1, ReserveKeepsOrder
  <2>2. ASSUME NEW id \in BookingIDs, NEW at \in 0..now, WorkloadStarted(id, at)
        PROVE  KeepsOrder
    BY <2>2, StartedKeepsOrder
  <2>3. ASSUME NEW id \in BookingIDs, CompleteBooking(id) PROVE KeepsOrder
    BY <2>3, CompleteKeepsOrder
  <2>4. CASE Tick
    <3>1. schedule' = schedule
      BY <2>4 DEF Tick
    <3>2. \A i, j \in DOMAIN schedule.bookings :
             i # j => schedule.bookings[i].id # schedule.bookings[j].id
      BY Zenon DEF IInv, QueueWellFormed
    <3> QED
      BY Zenon, <3>1, <3>2, InPlaceKeepsOrder
  <2> QED
    BY <2>1, <2>2, <2>3, <2>4 DEF Next
<1> QED
  BY <1>1, Invariance, PTL DEF Spec, NoOvertaking, KeepsOrder

(***************************************************************************)
(* Placement.                                                               *)
(***************************************************************************)
(* The runtimes a revision states are ones a Booking can be made of. *)
LEMMA RuntimesAreBookable ==
    ASSUME NEW ask \in Asks
    PROVE  /\ runtimeBounds(ask).max = ask.max /\ runtimeBounds(ask).expected \in Nat
           /\ runtimeBounds(ask).expected > 0 /\ ask.max > 0
           /\ runtimeBounds(ask).expected <= ask.max
<1>1. ask.max \in Nat \ {0} /\ ask.expected \in 0..ask.max BY Zenon, AsksAreValid
<1>2. /\ runtimeBounds(ask).expected = IF ask.expected = 0 THEN ask.max ELSE ask.expected
      /\ runtimeBounds(ask).max = ask.max
  BY DEF runtimeBounds
<1> QED BY <1>1, <1>2

(* A candidate nothing is held against has room on its schedule. *)
LEMMA FeasibleHasRoom ==
    ASSUME NEW fleet \in Fleets, NEW ask \in Asks, NEW o \in Selected(fleet, ask),
           KeepsWhatItRuns(o) /\ o.rental
    PROVE  ~ (Len(schedule.bookings) >= QueueCapacity + 1) /\ ~ Exhausted(schedule, now)
<1>1. feasibilityViolations(fleet, ask, o) = {} BY DEF Selected, Feasible
<1>2. scheduleRefusals(o) = {} BY <1>1 DEF feasibilityViolations
<1> QED BY <1>2 DEF scheduleRefusals

(* A placement is a reservation RentalTimeline allows. *)
LEMMA PlacingReserves == [PlacementNext]_vars => [Next]_vars
<1> SUFFICES ASSUME PlacementNext PROVE Next OBVIOUS
<1>1. ASSUME NEW ask \in Asks, Place(ask) PROVE Next
  <2> DEFINE rt == <<runtimeBounds(ask).expected, runtimeBounds(ask).max>>
  <2>1. PICK id \in BookingIDs, run \in Runs : ReserveBooking(id, run, rt)
    BY <1>1 DEF Place
  <2>2. rt \in Runtimes BY RuntimesAreBookable, AsksAreValid
  <2> QED BY <2>1, <2>2 DEF Next
<1>2. CASE \E ask \in Asks : Place(ask) BY <1>1, <1>2
<1> QED BY <1>2 DEF PlacementNext, Next

(***************************************************************************)
(* Placing Runs by what the fleet offers keeps the Rental's queue a single *)
(* chain in order, only its holder started, and lets nobody overtake       *)
(* (Evaluate, bookingForDecision, RentalSchedule.Reserve).                 *)
(***************************************************************************)
THEOREM PlacementKeepsTheSchedule ==
    PlacementSpec => [](QueueWellFormed /\ OnlyHolderStarted) /\ NoOvertaking
<1>1. PlacementSpec => Spec BY PlacingReserves, PTL DEF PlacementSpec, Spec
<1> QED BY <1>1, ScheduleStaysWellFormed, StartsAreTheHolders, NobodyOvertakes, PTL

(***************************************************************************)
(* Whatever the fleet says of itself, a machine that was selected can be   *)
(* reserved: the scheduler refuses every schedule that Reserve would       *)
(* (scheduler.go feasibilityViolations, rental_schedule.go Reserve).       *)
(***************************************************************************)
THEOREM SelectionReserves == PlacementSpec => []SelectedReserves
<1>1. Spec => []IInv BY Invariance
<1>2. IInv => SelectedReserves
  <2> SUFFICES ASSUME IInv, NEW ask \in Asks, NEW fleet \in Fleets,
                      NEW o \in Selected(fleet, ask), KeepsWhatItRuns(o) /\ o.rental,
                      NEW id \in BookingIDs, NEW run \in Runs,
                      \A i \in DOMAIN schedule.bookings :
                          schedule.bookings[i].id # id /\ schedule.bookings[i].run # run
               PROVE  validBookingRequest(schedule,
                          [id |-> id, run |-> run, expected |-> runtimeBounds(ask).expected,
                           max |-> runtimeBounds(ask).max, reservedAt |-> now])
    BY DEF SelectedReserves
  <2>1. Len(schedule.bookings) \in Nat /\ QueueCapacity \in Nat
    <3>1. schedule \in Schedule BY DEF IInv, Typed
    <3>2. schedule.bookings \in Seq(Booking) BY <3>1 DEF Schedule
    <3> QED BY <3>2, LenProperties, QueueCapacityAssumption
  <2>2. Len(schedule.bookings) < QueueCapacity + 1 /\ ~ Exhausted(schedule, now)
    BY <2>1, FeasibleHasRoom
  <2> QED BY <2>2, RuntimesAreBookable DEF validBookingRequest
<1>3. PlacementSpec => Spec BY PlacingReserves, PTL DEF PlacementSpec, Spec
<1> QED BY <1>1, <1>2, <1>3, PTL

(***************************************************************************)
(* What a candidate is charged for the content it lacks.                   *)
(***************************************************************************)
\* Moving content takes a duration, and moving none takes none.
LEMMA MovingTakes ==
    /\ \A t \in Nat : Moving(t) \in Durations /\ Moving(t)["expected"] = t
    /\ Nothing \in Durations /\ Moving(0) = Nothing
<1>1. \A t \in Nat : t \div 2 \in Nat
  OBVIOUS
<1>2. 0 + 0 \div 2 = 0
  OBVIOUS
<1> QED
  BY <1>1, <1>2 DEF Moving, Nothing, Durations

\* The content of an offer and what its stages amount to.
LEMMA StagesTyped ==
    ASSUME NEW ask \in Asks, NEW o \in Offers
    PROVE  /\ StartWork(o).transfer \in Nat /\ StartWork(o).unpack \in Nat
           /\ ArtifactFetchWork(ask, o) \in Nat
           /\ \A i \in 1..3 : /\ contentStages(ask, o)[i].predicted \in Durations
                              /\ contentStages(ask, o)[i].established \in Durations
                              /\ contentStages(ask, o)[i].doubt \in {0, 1}
           /\ contentStages(ask, o)[1].predicted["expected"] = StartWork(o).transfer
           /\ contentStages(ask, o)[2].predicted["expected"] = StartWork(o).unpack
           /\ contentStages(ask, o)[3].predicted["expected"] = ArtifactFetchWork(ask, o)
<1>1. /\ StartWork(o).transfer \in Nat /\ StartWork(o).unpack \in Nat
      /\ ArtifactFetchWork(ask, o) \in Nat
  BY DurationsAssumption DEF StartWork, ArtifactFetchWork
<1>2. /\ contentStages(ask, o)[1].predicted = Moving(StartWork(o).transfer)
      /\ contentStages(ask, o)[1].established \in {Moving(StartWork(o).transfer), Nothing}
      /\ contentStages(ask, o)[1].doubt \in {0, 1}
  BY DEF contentStages, imageStage, established
<1>3. /\ contentStages(ask, o)[2].predicted = Moving(StartWork(o).unpack)
      /\ contentStages(ask, o)[2].established \in {Moving(StartWork(o).unpack), Nothing}
      /\ contentStages(ask, o)[2].doubt \in {0, 1}
  BY DEF contentStages, imageStage, established
<1>4. /\ contentStages(ask, o)[3].predicted = Moving(ArtifactFetchWork(ask, o))
      /\ contentStages(ask, o)[3].established \in {Moving(ArtifactFetchWork(ask, o)), Nothing}
      /\ contentStages(ask, o)[3].doubt \in {0, 1}
  BY DEF contentStages, artifactEstimate, established
<1>5. \A i \in 1..3 : i = 1 \/ i = 2 \/ i = 3
  OBVIOUS
<1>6. \A i \in 1..3 : /\ contentStages(ask, o)[i].predicted \in Durations
                      /\ contentStages(ask, o)[i].established \in Durations
                      /\ contentStages(ask, o)[i].doubt \in {0, 1}
  <2>1. /\ Moving(StartWork(o).transfer) \in Durations /\ Moving(StartWork(o).unpack) \in Durations
        /\ Moving(ArtifactFetchWork(ask, o)) \in Durations /\ Nothing \in Durations
    BY Zenon, <1>1, MovingTakes
  <2>2. /\ contentStages(ask, o)[1].established \in Durations
        /\ contentStages(ask, o)[2].established \in Durations
        /\ contentStages(ask, o)[3].established \in Durations
    BY Zenon, <1>2, <1>3, <1>4, <2>1
  <2> TAKE i \in 1..3
  <2>3. CASE i = 1
    BY Zenon, <1>2, <2>1, <2>2, <2>3
  <2>4. CASE i = 2
    BY Zenon, <1>3, <2>1, <2>2, <2>4
  <2>5. CASE i = 3
    BY Zenon, <1>4, <2>1, <2>2, <2>5
  <2> QED
    BY Zenon, <1>5, <2>3, <2>4, <2>5
<1> QED
  BY Zenon, <1>1, <1>2, <1>3, <1>4, <1>6, MovingTakes

\* What a candidate waits for is a natural number of seconds.
LEMMA QueueEstimateNat ==
    ASSUME IInv, NEW o \in Offers
    PROVE  queueEstimate(o) \in Nat
<1>1. schedule \in Schedule /\ now \in Nat
  BY DEF IInv, Typed
<1>2. Len(schedule.bookings) \in 0..Len(schedule.bookings)
  BY <1>1 DEF Schedule
<1>3. ExpectedWaitSeconds(schedule, now) \in Nat
  BY Zenon, <1>1, <1>2, AheadNat DEF ExpectedWaitSeconds
<1>4. o.queued \in Nat
  BY DEF Offers
<1> QED
  BY <1>3, <1>4 DEF queueEstimate

-----------------------------------------------------------------------------
(* A host found to hold what it did not say it held. *)
Ready(o, p) ==
    /\ p \in Offers
    /\ p.id = o.id /\ p.kind = o.kind /\ p.lane = o.lane /\ p.rental = o.rental
    /\ p.bars = o.bars /\ p.machine = o.machine /\ p.available = o.available
    /\ p.queued = o.queued /\ p.measured = o.measured /\ p.room = o.room /\ p.boot = o.boot
    /\ p.rate = o.rate /\ p.granularity = o.granularity /\ p.fee = o.fee
    /\ p.minimum = o.minimum /\ p.committed = o.committed /\ p.until = o.until
    /\ p.image = (IF o.image = "silent" THEN "hot" ELSE o.image)
    /\ p.artifact = (IF o.artifact = "silent" THEN "hot" ELSE o.artifact)

\* It is established to take exactly as long: nothing was established of a silence.
LEMMA SilenceEstablishesNothing ==
    ASSUME NEW ask \in Asks, NEW o \in Offers, NEW p, Ready(o, p)
    PROVE  \A i \in 1..3 :
              contentStages(ask, o)[i].established = contentStages(ask, p)[i].established
<1>1. /\ contentStages(ask, o)[1].established
            = established(StartWork(o).transfer, o.image # "silent", o.measured)
      /\ contentStages(ask, o)[2].established
            = established(StartWork(o).unpack, o.image # "silent", FALSE)
      /\ contentStages(ask, o)[3].established
            = established(ArtifactFetchWork(ask, o), o.artifact # "silent", o.measured)
  BY Zenon DEF contentStages, imageStage, artifactEstimate
<1>2. /\ contentStages(ask, p)[1].established
            = established(StartWork(p).transfer, p.image # "silent", p.measured)
      /\ contentStages(ask, p)[2].established
            = established(StartWork(p).unpack, p.image # "silent", FALSE)
      /\ contentStages(ask, p)[3].established
            = established(ArtifactFetchWork(ask, p), p.artifact # "silent", p.measured)
  BY Zenon DEF contentStages, imageStage, artifactEstimate
<1>3. established(StartWork(o).transfer, o.image # "silent", o.measured)
        = established(StartWork(p).transfer, p.image # "silent", p.measured)
  BY MovingTakes DEF Ready, StartWork, established
<1>4. established(StartWork(o).unpack, o.image # "silent", FALSE)
        = established(StartWork(p).unpack, p.image # "silent", FALSE)
  BY MovingTakes DEF Ready, StartWork, established
<1>5. established(ArtifactFetchWork(ask, o), o.artifact # "silent", o.measured)
        = established(ArtifactFetchWork(ask, p), p.artifact # "silent", p.measured)
  BY MovingTakes DEF Ready, ArtifactFetchWork, established
<1>6. \A i \in 1..3 : i = 1 \/ i = 2 \/ i = 3
  OBVIOUS
<1> QED
  BY Zenon, <1>1, <1>2, <1>3, <1>4, <1>5, <1>6

\* And it is predicted to take no longer, and with no more doubt.
LEMMA SilenceIsCharged ==
    ASSUME NEW ask \in Asks, NEW o \in Offers, NEW p, Ready(o, p)
    PROVE  /\ StartWork(p).transfer <= StartWork(o).transfer
           /\ StartWork(p).unpack <= StartWork(o).unpack
           /\ ArtifactFetchWork(ask, p) <= ArtifactFetchWork(ask, o)
           /\ \A i \in 1..3 : contentStages(ask, p)[i].doubt <= contentStages(ask, o)[i].doubt
<1>1. StartWork(p).transfer <= StartWork(o).transfer
  BY DurationsAssumption DEF Ready, StartWork
<1>2. StartWork(p).unpack <= StartWork(o).unpack
  BY DurationsAssumption DEF Ready, StartWork
<1>3. ArtifactFetchWork(ask, p) <= ArtifactFetchWork(ask, o)
  BY DurationsAssumption DEF Ready, ArtifactFetchWork
<1> DEFINE owed(x) == StartWork(x).unpack
           sent(x) == StartWork(x).transfer
<1>4. contentStages(ask, p)[1].doubt <= contentStages(ask, o)[1].doubt
  <2>1. \A x : contentStages(ask, x)[1].doubt
                 = IF sent(x) = 0 \/ (x.image # "silent" /\ x.measured) THEN 0 ELSE 1
    BY DEF contentStages, imageStage
  <2>2. sent(o) = 0 => sent(p) = 0
    BY DEF Ready, StartWork
  <2>3. o.image # "silent" /\ o.measured => p.image # "silent" /\ p.measured
    BY DEF Ready
  <2> HIDE DEF sent
  <2> QED
    BY <2>1, <2>2, <2>3
<1>5. contentStages(ask, p)[2].doubt <= contentStages(ask, o)[2].doubt
  <2>1. \A x : contentStages(ask, x)[2].doubt = IF owed(x) = 0 THEN 0 ELSE 1
    BY DEF contentStages, imageStage
  <2>2. owed(o) = 0 => owed(p) = 0
    BY DEF Ready, StartWork
  <2> HIDE DEF owed
  <2> QED
    BY <2>1, <2>2
<1>6. contentStages(ask, p)[3].doubt <= contentStages(ask, o)[3].doubt
  BY DEF Ready, ArtifactFetchWork, contentStages, artifactEstimate
<1>7. \A i \in 1..3 : i = 1 \/ i = 2 \/ i = 3
  OBVIOUS
<1> QED
  BY Zenon, <1>1, <1>2, <1>3, <1>4, <1>5, <1>6, <1>7

\* Nothing it is refused for, but for what hangs on the predicted start, is new.
LEMMA SilenceRefusesNothing ==
    ASSUME IInv, NEW ask \in Asks, NEW fleet \in Fleets, NEW o \in Offers, NEW p, Ready(o, p)
    PROVE  feasibilityViolations(fleet, ask, o) \subseteq
             feasibilityViolations(fleet, ask, p)
                \cup {"AVAILABILITY_WINDOW_CLOSES", "COST_LIMIT_EXCEEDED"}
<1>1. p.bars = o.bars
  BY DEF Ready
<1>2. scheduleRefusals(p) = scheduleRefusals(o)
  BY DEF Ready, scheduleRefusals, queueable, KeepsWhatItRuns
<1>3. HolderOfMachine(fleet, p) <=> HolderOfMachine(fleet, o)
  BY DEF Ready, HolderOfMachine
<1>4. diskRefusals(ask, p) = diskRefusals(ask, o)
  BY DEF Ready, diskRefusals, RequiredBytes
<1>5. p.rate = o.rate
  BY DEF Ready
<1>6. exceedsStartSLO(ask, p) <=> exceedsStartSLO(ask, o)
  <2> DEFINE c == contentStages(ask, o)
             d == contentStages(ask, p)
  <2>1. /\ c[1].established = d[1].established /\ c[2].established = d[2].established
        /\ c[3].established = d[3].established
    BY SilenceEstablishesNothing
  <2> HIDE DEF c, d
  <2>2. queueEstimate(p) = queueEstimate(o) /\ provisionEstimate(p) = provisionEstimate(o)
    BY DEF Ready, queueEstimate, provisionEstimate
  <2>3. startEstimate(p, d[1].established, d[2].established, d[3].established)
          = startEstimate(o, c[1].established, c[2].established, c[3].established)
    BY Zenon, <2>1, <2>2 DEF startEstimate
  <2>4. establishedStart(ask, p) = establishedStart(ask, o)
    BY Zenon, <2>3 DEF establishedStart, c, d
  <2> QED
    BY Zenon, <2>4 DEF exceedsStartSLO
<1> QED
  BY Zenon, <1>1, <1>2, <1>3, <1>4, <1>5, <1>6 DEF feasibilityViolations

\* More of something that is worth something is worth more.
LEMMA WeightsAreMonotone ==
    ASSUME NEW w \in Nat, NEW x \in Nat, NEW y \in Nat, y <= x
    PROVE  w * y <= w * x /\ w * x \in Nat /\ w * y \in Nat
<1>1. PICK d \in Nat : x = y + d
  <2>1. x - y \in Nat /\ x = y + (x - y)
    OBVIOUS
  <2> QED
    BY <2>1
<1>2. w * x = w * y + w * d
  BY <1>1
<1>3. w * d \in Nat /\ w * y \in Nat
  OBVIOUS
<1> QED
  BY <1>2, <1>3

\* Where nothing is paid for yet, a placement costs the same however it starts.
LEMMA CostOfSilence ==
    ASSUME IInv, NEW ask \in Asks, NEW o \in Offers, NEW p, Ready(o, p), o.committed = NoTime
    PROVE  costEstimate(ask, p) = costEstimate(ask, o) /\ costEstimate(ask, o) \in Int
<1>1. CommittedSeconds(ask, o) = 0 /\ CommittedSeconds(ask, p) = 0
  BY DEF Ready, CommittedSeconds
<1>2. /\ p.kind = o.kind /\ p.minimum = o.minimum /\ p.rate = o.rate /\ p.fee = o.fee
      /\ p.granularity = o.granularity
  BY DEF Ready
<1>3. /\ o.minimum \in Nat /\ o.rate \in Int /\ o.fee \in Nat /\ o.granularity \in Nat
  BY DEF Offers, Unpriced
<1>4. runtimeBounds(ask).expected \in Nat
  BY RuntimesAreBookable
<1> DEFINE keep == runtimeBounds(ask).expected - 0
           charged == IF o.kind = "provisionable" /\ o.minimum > keep THEN o.minimum ELSE keep
           fee == IF o.kind = "provisionable" THEN o.fee ELSE 0
<1>5. BilledSeconds(p, charged) = BilledSeconds(o, charged)
  BY <1>2 DEF BilledSeconds
<1>6. keep \in Nat
  BY <1>4
<1>7. charged \in Nat /\ fee \in Nat
  BY <1>3, <1>6
<1> HIDE DEF charged, fee, keep
<1>8. BilledSeconds(o, charged) \in Int
  <2>1. CASE o.granularity = 0
    BY <1>7, <2>1 DEF BilledSeconds
  <2>2. CASE o.granularity # 0
    <3>1. o.granularity \in Nat /\ o.granularity > 0
      BY <1>3, <2>2
    <3>2. charged + o.granularity - 1 \in Nat
      BY <1>7, <3>1
    <3>3. (charged + o.granularity - 1) \div o.granularity \in Int
      BY <3>1, <3>2
    <3>4. ((charged + o.granularity - 1) \div o.granularity) * o.granularity \in Int
      BY <3>1, <3>3
    <3> QED
      BY <2>2, <3>4 DEF BilledSeconds
  <2> QED
    BY <2>1, <2>2
<1> DEFINE cost == IF o.rate = Unpriced THEN 0 ELSE fee + o.rate * (0 + BilledSeconds(o, charged))
<1>9. costEstimate(ask, o) = cost
  BY Zenon, <1>1 DEF costEstimate, charged, fee, keep
<1>10. costEstimate(ask, p) = cost
  <2>1. costEstimate(ask, p) = IF p.rate = Unpriced THEN 0
                               ELSE fee + o.rate * (0 + BilledSeconds(p, charged))
    BY Zenon, <1>1, <1>2 DEF costEstimate, charged, fee, keep
  <2> QED
    BY Zenon, <1>2, <1>5, <2>1
<1>11. o.rate * (0 + BilledSeconds(o, charged)) \in Int
  BY <1>3, <1>8
<1>12. cost \in Int
  BY <1>7, <1>11
<1> HIDE DEF cost
<1> QED
  BY Zenon, <1>9, <1>10, <1>12

\* So a silence never scores better than what it might hide.
LEMMA SilenceScoresNoBetter ==
    ASSUME IInv, NEW ask \in Asks, NEW o \in Offers, NEW p, Ready(o, p), o.committed = NoTime
    PROVE  Worth(ask, o) >= Worth(ask, p)
<1> DEFINE c == contentStages(ask, o)
           d == contentStages(ask, p)
           x == predictedStart(ask, o).expected
           y == predictedStart(ask, p).expected
           w == ask.weights
<1>1. p \in Offers
  BY DEF Ready
<1>2. queueEstimate(o) \in Nat /\ queueEstimate(p) = queueEstimate(o)
      /\ provisionEstimate(p) = provisionEstimate(o)
  <2>1. queueEstimate(o) \in Nat
    BY QueueEstimateNat
  <2> QED
    BY <2>1 DEF Ready, queueEstimate, provisionEstimate
<1>3. /\ c[1].predicted["expected"] \in Nat /\ c[2].predicted["expected"] \in Nat
      /\ c[3].predicted["expected"] \in Nat /\ d[1].predicted["expected"] \in Nat
      /\ d[2].predicted["expected"] \in Nat /\ d[3].predicted["expected"] \in Nat
      /\ d[1].predicted["expected"] <= c[1].predicted["expected"]
      /\ d[2].predicted["expected"] <= c[2].predicted["expected"]
      /\ d[3].predicted["expected"] <= c[3].predicted["expected"]
  BY Zenon, <1>1, StagesTyped, SilenceIsCharged
<1>4. /\ c[1].doubt \in {0, 1} /\ c[2].doubt \in {0, 1} /\ c[3].doubt \in {0, 1}
      /\ d[1].doubt \in {0, 1} /\ d[2].doubt \in {0, 1} /\ d[3].doubt \in {0, 1}
      /\ d[1].doubt <= c[1].doubt /\ d[2].doubt <= c[2].doubt /\ d[3].doubt <= c[3].doubt
  <2>1. 1 \in 1..3 /\ 2 \in 1..3 /\ 3 \in 1..3
    OBVIOUS
  <2> QED
    BY Zenon, <1>1, <2>1, StagesTyped, SilenceIsCharged
<1>5. provisionEstimate(o)["expected"] \in Nat /\ ContainerStart["expected"] \in Nat
  <2>1. provisionEstimate(o) \in Durations
    BY MovingTakes DEF provisionEstimate, Offers
  <2> QED
    BY <2>1, DurationsAssumption DEF Durations
<1> HIDE DEF c, d
<1>6. /\ x = queueEstimate(o) + provisionEstimate(o)["expected"] + c[1].predicted["expected"]
               + c[2].predicted["expected"] + c[3].predicted["expected"]
               + ContainerStart["expected"]
      /\ y = queueEstimate(o) + provisionEstimate(o)["expected"] + d[1].predicted["expected"]
               + d[2].predicted["expected"] + d[3].predicted["expected"]
               + ContainerStart["expected"]
  BY <1>2 DEF predictedStart, startEstimate, c, d
<1>7. Uncertainty(ask, o) \in Nat /\ Uncertainty(ask, p) \in Nat
      /\ Uncertainty(ask, p) <= Uncertainty(ask, o)
  BY <1>4 DEF Uncertainty, c, d
<1> HIDE DEF x, y
<1>8. x \in Nat /\ y \in Nat /\ y <= x
  BY <1>2, <1>3, <1>5, <1>6
<1>9. ask.expected \in Nat /\ w.start \in Nat /\ w.finish \in Nat /\ w.doubt \in Nat
  <2>1. /\ ask.max \in Nat \ {0} /\ ask.expected \in 0..ask.max
        /\ w \in [start : Nat, finish : Nat, doubt : Nat]
    BY Zenon, AsksAreValid
  <2> QED
    BY <2>1
<1> HIDE DEF w
<1>10. /\ w.start * y <= w.start * x /\ w.start * x \in Nat /\ w.start * y \in Nat
  BY <1>8, <1>9, WeightsAreMonotone
<1>11. /\ w.finish * (y + ask.expected) <= w.finish * (x + ask.expected)
       /\ w.finish * (x + ask.expected) \in Nat /\ w.finish * (y + ask.expected) \in Nat
  <2>1. x + ask.expected \in Nat /\ y + ask.expected \in Nat /\ y + ask.expected <= x + ask.expected
    BY <1>8, <1>9
  <2> QED
    BY Zenon, <1>9, <2>1, WeightsAreMonotone
<1>12. /\ w.doubt * Uncertainty(ask, p) <= w.doubt * Uncertainty(ask, o)
       /\ w.doubt * Uncertainty(ask, o) \in Nat /\ w.doubt * Uncertainty(ask, p) \in Nat
  BY Zenon, <1>7, <1>9, WeightsAreMonotone
<1>13. costEstimate(ask, p) = costEstimate(ask, o) /\ costEstimate(ask, o) \in Int
  BY CostOfSilence
<1>14. /\ Worth(ask, o) = costEstimate(ask, o) + w.start * x
              + w.finish * (x + ask.expected) + w.doubt * Uncertainty(ask, o)
       /\ Worth(ask, p) = costEstimate(ask, p) + w.start * y
              + w.finish * (y + ask.expected) + w.doubt * Uncertainty(ask, p)
  BY Zenon DEF Worth, x, y, w
<1> QED
  BY <1>10, <1>11, <1>12, <1>13, <1>14

(***************************************************************************)
(* A host that will not say what it holds is refused for nothing that the  *)
(* same host found to hold everything would not be, and where both may be  *)
(* used scores no better, on any schedule, for any offers, durations and   *)
(* weights (scheduler.go feasibilityViolations, exceedsStartSLO,           *)
(* DiskDemand.Fits and ScoreUSD).                                          *)
(***************************************************************************)
THEOREM SilenceIsNeverARefusal == PlacementSpec => []SilenceIsPriced
<1>1. IInv => SilenceIsPriced
  <2> SUFFICES ASSUME IInv, NEW ask \in Asks, NEW fleet \in Fleets, NEW o \in fleet
               PROVE  LET Found(locality) == IF locality = "silent" THEN "hot" ELSE locality
                          ready == [o EXCEPT !.image = Found(@), !.artifact = Found(@)]
                      IN  /\ feasibilityViolations(fleet, ask, o)
                                \subseteq feasibilityViolations(fleet, ask, ready)
                                    \cup {"AVAILABILITY_WINDOW_CLOSES", "COST_LIMIT_EXCEEDED"}
                          /\ (/\ o.committed = NoTime
                              /\ Feasible(fleet, ask, o) /\ Feasible(fleet, ask, ready))
                             => ScoreUSD(fleet, ask, o) >= ScoreUSD(fleet, ask, ready)
    BY Zenon DEF SilenceIsPriced
  <2> DEFINE p == [o EXCEPT !.image = IF @ = "silent" THEN "hot" ELSE @,
                            !.artifact = IF @ = "silent" THEN "hot" ELSE @]
  <2>1. o \in Offers
    BY OffersAreValid
  <2>2. Ready(o, p)
    <3>1. p \in Offers
      <4> DEFINE i == IF o.image = "silent" THEN "hot" ELSE o.image
                 a == IF o.artifact = "silent" THEN "hot" ELSE o.artifact
      <4>1. i \in Localities /\ a \in Localities
        BY <2>1 DEF Offers, Localities
      <4>2. p = [o EXCEPT !.image = i, !.artifact = a]
        OBVIOUS
      <4> HIDE DEF i, a, p
      <4> QED
        BY Zenon, <2>1, <4>1, <4>2 DEF Offers
    <3> QED
      BY <2>1, <3>1 DEF Ready, Offers
  <2> HIDE DEF p
  <2>3. feasibilityViolations(fleet, ask, o)
           \subseteq feasibilityViolations(fleet, ask, p)
               \cup {"AVAILABILITY_WINDOW_CLOSES", "COST_LIMIT_EXCEEDED"}
    BY <2>1, <2>2, SilenceRefusesNothing
  <2>4. (o.committed = NoTime /\ Feasible(fleet, ask, o) /\ Feasible(fleet, ask, p))
           => ScoreUSD(fleet, ask, o) >= ScoreUSD(fleet, ask, p)
    <3>1. o.committed = NoTime => Worth(ask, o) >= Worth(ask, p)
      BY <2>1, <2>2, SilenceScoresNoBetter
    <3> QED
      BY Zenon, <3>1 DEF ScoreUSD
  <2> QED
    BY Zenon, <2>3, <2>4 DEF p
<1>2. PlacementSpec => Spec
  BY PlacingReserves, PTL DEF PlacementSpec, Spec
<1> QED
  BY <1>1, <1>2, Invariance, PTL

(***************************************************************************)
(* A Booking leaves.                                                       *)
(***************************************************************************)
\* The wait in front of a candidate does not grow as a Booking leaves.
LEMMA LeavingShortensTheWait ==
    ASSUME IInv, Declared, NEW id \in BookingIDs, CompleteBooking(id), NEW o \in Offers
    PROVE  queueEstimate(o) \in Nat /\ queueEstimate(o)' \in Nat
           /\ queueEstimate(o)' <= queueEstimate(o)
<1> DEFINE n == Len(schedule.bookings)
           k == bookingIndex(schedule, id)
           w == without(schedule, k)
           f == [i \in 1..n |-> RemainingExpectedSeconds(schedule.bookings[i], now)]
           e == [i \in 1..n - 1 |-> RemainingExpectedSeconds(schedule'.bookings[i], now)]
<1>1. /\ schedule' \in Schedule /\ now \in Nat /\ now' = now
      /\ schedule.bookings \in Seq(Booking) /\ n \in Nat /\ k \in 1..n
      /\ schedule.version \in Nat /\ schedule'.version = schedule.version + 1
      /\ Len(schedule'.bookings) = n - 1
  BY Zenon, CompleteOutcome
<1>2. \A i \in 1..n - 1 : w.bookings[i] = schedule.bookings[IF i < k THEN i ELSE i + 1]
  BY Zenon, CompleteOutcome
<1>3. \A i \in 1..n - 1 : /\ schedule'.bookings[i].startedAt = w.bookings[i].startedAt
                          /\ schedule'.bookings[i].expected = w.bookings[i].expected
  BY Zenon, CompleteOutcome
<1> HIDE DEF k, w
<1>4. n \in Nat \ {0} /\ n - 1 \in Nat
  BY <1>1
<1>5. schedule.version > 0 /\ schedule'.version > 0
  <2>1. schedule.bookings # <<>>
    BY <1>1, EmptySeq
  <2>2. schedule.version > 0
    BY <2>1 DEF Declared
  <2> QED
    BY <1>1, <2>2
<1>6. f \in [1..n -> Nat]
  <2>1. \A i \in 1..n : schedule.bookings[i] \in Booking
    BY <1>1
  <2> QED
    BY Zenon, <1>1, <2>1, RemainingNat
<1>7. e \in [1..n - 1 -> Nat]
  <2>1. schedule'.bookings \in Seq(Booking)
    BY <1>1 DEF Schedule
  <2>2. \A i \in 1..n - 1 : schedule'.bookings[i] \in Booking
    BY <1>1, <2>1
  <2> QED
    BY Zenon, <1>1, <2>2, RemainingNat
<1>8. \A i \in 1..n - 1 : e[i] <= f[IF i < k THEN i ELSE i + 1]
  <2> TAKE i \in 1..n - 1
  <2> DEFINE j == IF i < k THEN i ELSE i + 1
  <2>1. j \in 1..n
    BY <1>1
  <2>2. /\ schedule'.bookings[i].startedAt = schedule.bookings[j].startedAt
        /\ schedule'.bookings[i].expected = schedule.bookings[j].expected
    BY <1>2, <1>3
  <2> HIDE DEF j
  <2>3. e[i] = f[j]
    BY Zenon, <2>1, <2>2 DEF RemainingExpectedSeconds
  <2>4. f[j] \in Nat
    BY <1>6, <2>1
  <2> HIDE DEF e, f
  <2>5. e[i] <= f[j]
    BY <2>3, <2>4
  <2> QED
    BY <2>5 DEF j
<1>9. ExpectedWaitSeconds(schedule, now) = Total(f, n)
  BY Zenon DEF ExpectedWaitSeconds, ExpectedAhead
<1>10. ExpectedWaitSeconds(schedule', now') = Total(e, n - 1)
  BY Zenon, <1>1 DEF ExpectedWaitSeconds, ExpectedAhead
<1> HIDE DEF e, f
<1>11. Total(e, n - 1) <= Total(f, n) /\ Total(e, n - 1) \in Nat /\ Total(f, n) \in Nat
  <2>1. Total(e, n - 1) <= Total(f, n)
    BY Zenon, <1>1, <1>4, <1>6, <1>7, <1>8, TotalWithout
  <2> QED
    BY Zenon, <1>4, <1>6, <1>7, <2>1, TotalNat
<1>12. o.queued \in Nat
  BY DEF Offers
<1>13. queueEstimate(o) = IF o.rental THEN Total(f, n) ELSE o.queued
  BY <1>5, <1>9 DEF queueEstimate
<1>14. queueEstimate(o)' = IF o.rental THEN Total(e, n - 1) ELSE o.queued
  BY <1>5, <1>10 DEF queueEstimate
<1> QED
  BY <1>11, <1>12, <1>13, <1>14

\* A promoted Booking owes its whole runtime, so a holder that had some of it left
\* is followed by one that has.
LEMMA LeavingExhaustsNothing ==
    ASSUME IInv, Declared, NEW id \in BookingIDs, CompleteBooking(id), ~ Exhausted(schedule, now)
    PROVE  ~ Exhausted(schedule', now')
<1> DEFINE n == Len(schedule.bookings)
           k == bookingIndex(schedule, id)
           w == without(schedule, k)
<1>1. /\ schedule' \in Schedule /\ now \in Nat /\ now' = now
      /\ schedule.bookings \in Seq(Booking) /\ n \in Nat /\ k \in 1..n
      /\ Len(schedule'.bookings) = n - 1 /\ DOMAIN schedule.bookings = 1..n
  BY Zenon, CompleteOutcome
<1>2. \A i \in 1..n - 1 : w.bookings[i] = schedule.bookings[IF i < k THEN i ELSE i + 1]
  BY Zenon, CompleteOutcome
<1>3. \A i \in 1..n - 1 : /\ schedule'.bookings[i].startedAt = w.bookings[i].startedAt
                          /\ schedule'.bookings[i].max = w.bookings[i].max
  BY Zenon, CompleteOutcome
<1> HIDE DEF k, w
<1> SUFFICES ASSUME schedule'.bookings # <<>>
             PROVE  ~ RemainingMaxSeconds(schedule'.bookings[1], now) <= 0
  BY <1>1 DEF Exhausted
<1>4. 1 \in 1..n - 1 /\ 1 \in 1..n /\ 2 \in 1..n
  <2>1. schedule'.bookings \in Seq(Booking)
    BY <1>1 DEF Schedule
  <2> QED
    BY <1>1, <2>1, EmptySeq
<1> DEFINE j == IF 1 < k THEN 1 ELSE 1 + 1
<1>5. /\ schedule'.bookings[1].startedAt = schedule.bookings[j].startedAt
      /\ schedule'.bookings[1].max = schedule.bookings[j].max
  BY <1>2, <1>3, <1>4
<1>6. RemainingMaxSeconds(schedule'.bookings[1], now) = RemainingMaxSeconds(schedule.bookings[j], now)
  BY Zenon, <1>5 DEF RemainingMaxSeconds
<1>7. CASE 1 < k
  <2>1. schedule.bookings # <<>>
    BY <1>1, EmptySeq
  <2>2. ~ RemainingMaxSeconds(schedule.bookings[1], now) <= 0
    BY <2>1 DEF Exhausted
  <2> QED
    BY <1>6, <1>7, <2>2
<1>8. CASE ~ (1 < k)
  <2>1. schedule.bookings[2].startedAt = NoTime
    BY <1>1, <1>4 DEF IInv, OnlyHolderStarted
  <2>2. schedule.bookings[2].expected \in 1..schedule.bookings[2].max
    BY <1>1, <1>4 DEF Declared
  <2>3. schedule.bookings[2].max \in Nat
    <3>1. schedule.bookings[2] \in Booking
      BY <1>1, <1>4
    <3> QED
      BY <3>1 DEF Booking
  <2>4. RemainingMaxSeconds(schedule.bookings[2], now) = schedule.bookings[2].max
    BY <2>1 DEF RemainingMaxSeconds, remainingSeconds
  <2> QED
    BY <1>6, <1>8, <2>2, <2>3, <2>4
<1> QED
  BY <1>7, <1>8

-----------------------------------------------------------------------------
(* The same machine, whatever it says of its own availability. *)
SameMachine(o, p) ==
    /\ p \in Offers
    /\ p.id = o.id /\ p.kind = o.kind /\ p.lane = o.lane /\ p.rental = o.rental
    /\ p.bars = o.bars /\ p.machine = o.machine
    /\ p.queued = o.queued /\ p.measured = o.measured /\ p.room = o.room /\ p.boot = o.boot
    /\ p.rate = o.rate /\ p.granularity = o.granularity /\ p.fee = o.fee
    /\ p.minimum = o.minimum /\ p.committed = o.committed /\ p.until = o.until
    /\ p.image = o.image /\ p.artifact = o.artifact

\* What is held against a machine that could hold a Run is only its queue.
LEMMA CouldHold ==
    ASSUME NEW ask \in Asks, NEW fleet \in Fleets, NEW o \in Offers,
           Standing(feasibilityViolations(fleet, ask, o)) = "could hold"
    PROVE  /\ o.bars = {} /\ diskRefusals(ask, o) = {}
           /\ ~ HolderOfMachine(fleet, o)
           /\ ~ (o.rate = Unpriced /\ ~ ask.unpriced)
           /\ ~ (KeepsWhatItRuns(o) /\ o.rental /\ Exhausted(schedule, now))
           /\ ~ OutlivesWindow(ask, o) /\ ~ exceedsStartSLO(ask, o)
<1> DEFINE V == feasibilityViolations(fleet, ask, o)
<1>1. V \subseteq EndedByWaiting
  BY DEF Standing
<1>2. o.bars \in SUBSET (STRING \ EndedByWaiting)
  BY DEF Offers
<1>3. o.bars \subseteq V /\ scheduleRefusals(o) \subseteq V /\ diskRefusals(ask, o) \subseteq V
  BY Zenon DEF feasibilityViolations
<1>4. o.bars = {}
  BY Zenon, <1>1, <1>2, <1>3
<1>5. diskRefusals(ask, o) = {}
  <2>1. diskRefusals(ask, o) \subseteq {"DISK_UNSTATED", "RESOURCE_INSUFFICIENT"}
    BY DEF diskRefusals
  <2>2. \A v \in {"DISK_UNSTATED", "RESOURCE_INSUFFICIENT"} : v \notin EndedByWaiting
    BY DEF EndedByWaiting
  <2> QED
    BY Zenon, <1>1, <1>3, <2>1, <2>2
<1>6. ~ HolderOfMachine(fleet, o)
  <2>1. HolderOfMachine(fleet, o) => "CAPACITY_ALREADY_HELD" \in V
    BY Zenon DEF feasibilityViolations
  <2> QED
    BY <1>1, <2>1 DEF EndedByWaiting
<1>7. ~ (o.rate = Unpriced /\ ~ ask.unpriced)
  <2>1. o.rate = Unpriced /\ ~ ask.unpriced => "PRICE_UNKNOWN" \in V
    BY Zenon DEF feasibilityViolations
  <2> QED
    BY <1>1, <2>1 DEF EndedByWaiting
<1>8. ~ (KeepsWhatItRuns(o) /\ o.rental /\ Exhausted(schedule, now))
  <2>1. KeepsWhatItRuns(o) /\ o.rental /\ Exhausted(schedule, now)
           => "RENTAL_SCHEDULE_EXHAUSTED" \in scheduleRefusals(o)
    BY Zenon DEF scheduleRefusals
  <2> QED
    BY <1>1, <1>3, <2>1 DEF EndedByWaiting
<1>9. ~ OutlivesWindow(ask, o)
  <2>1. OutlivesWindow(ask, o) => "AVAILABILITY_WINDOW_CLOSES" \in V
    BY Zenon DEF feasibilityViolations
  <2> QED
    BY <1>1, <2>1 DEF EndedByWaiting
<1>10. ~ exceedsStartSLO(ask, o)
  <2>1. exceedsStartSLO(ask, o) => "LATENCY_SLO_EXCEEDED" \in V
    BY Zenon DEF feasibilityViolations
  <2> QED
    BY <1>1, <2>1 DEF EndedByWaiting
<1> QED
  BY <1>4, <1>5, <1>6, <1>7, <1>8, <1>9, <1>10

\* A start that may be shorter only for the wait is no later.
LEMMA LeavingStartsSooner ==
    ASSUME IInv, Declared, NEW id \in BookingIDs, CompleteBooking(id),
           NEW ask \in Asks, NEW o \in Offers, NEW p, SameMachine(o, p)
    PROVE  /\ predictedStart(ask, o)["expected"] \in Nat
           /\ predictedStart(ask, p)["expected"]' \in Nat
           /\ predictedStart(ask, p)["expected"]' <= predictedStart(ask, o)["expected"]
           /\ establishedStart(ask, o)["p90"] \in Nat
           /\ establishedStart(ask, p)["p90"]' \in Nat
           /\ establishedStart(ask, p)["p90"]' <= establishedStart(ask, o)["p90"]
<1> DEFINE c == contentStages(ask, o)
<1>1. /\ queueEstimate(o) \in Nat /\ queueEstimate(o)' \in Nat
      /\ queueEstimate(o)' <= queueEstimate(o)
  BY LeavingShortensTheWait
<1>2. queueEstimate(p)' = queueEstimate(o)' /\ provisionEstimate(p) = provisionEstimate(o)
  BY DEF SameMachine, queueEstimate, provisionEstimate
<1>3. contentStages(ask, p) = c
  BY DEF SameMachine, contentStages, StartWork, artifactEstimate, ArtifactFetchWork
<1>4. /\ c[1].predicted \in Durations /\ c[2].predicted \in Durations /\ c[3].predicted \in Durations
      /\ c[1].established \in Durations /\ c[2].established \in Durations
      /\ c[3].established \in Durations
  <2>1. 1 \in 1..3 /\ 2 \in 1..3 /\ 3 \in 1..3
    OBVIOUS
  <2> QED
    BY Zenon, <2>1, StagesTyped
<1>5. provisionEstimate(o) \in Durations /\ ContainerStart \in Durations
  <2>1. provisionEstimate(o) \in Durations
    BY MovingTakes DEF provisionEstimate, Offers
  <2> QED
    BY <2>1, DurationsAssumption
<1>6. \A x \in Durations : x["expected"] \in Nat /\ x["p90"] \in Nat
  BY DEF Durations
<1> HIDE DEF c
<1>7. predictedStart(ask, o)["expected"]
        = queueEstimate(o) + provisionEstimate(o)["expected"] + c[1].predicted["expected"]
            + c[2].predicted["expected"] + c[3].predicted["expected"] + ContainerStart["expected"]
  BY DEF predictedStart, startEstimate, c
<1>8. predictedStart(ask, p)["expected"]'
        = queueEstimate(o)' + provisionEstimate(o)["expected"] + c[1].predicted["expected"]
            + c[2].predicted["expected"] + c[3].predicted["expected"] + ContainerStart["expected"]
  BY <1>2, <1>3 DEF predictedStart, startEstimate
<1>9. establishedStart(ask, o)["p90"]
        = queueEstimate(o) + provisionEstimate(o)["p90"] + c[1].established["p90"]
            + c[2].established["p90"] + c[3].established["p90"] + ContainerStart["p90"]
  BY DEF establishedStart, startEstimate, c
<1>10. establishedStart(ask, p)["p90"]'
        = queueEstimate(o)' + provisionEstimate(o)["p90"] + c[1].established["p90"]
            + c[2].established["p90"] + c[3].established["p90"] + ContainerStart["p90"]
  BY <1>2, <1>3 DEF establishedStart, startEstimate
<1>11. /\ provisionEstimate(o)["expected"] \in Nat /\ ContainerStart["expected"] \in Nat
       /\ c[1].predicted["expected"] \in Nat /\ c[2].predicted["expected"] \in Nat
       /\ c[3].predicted["expected"] \in Nat
  BY Zenon, <1>4, <1>5, <1>6
<1>12. /\ provisionEstimate(o)["p90"] \in Nat /\ ContainerStart["p90"] \in Nat
       /\ c[1].established["p90"] \in Nat /\ c[2].established["p90"] \in Nat
       /\ c[3].established["p90"] \in Nat
  BY Zenon, <1>4, <1>5, <1>6
<1>13. /\ predictedStart(ask, o)["expected"] \in Nat
       /\ predictedStart(ask, p)["expected"]' \in Nat
       /\ predictedStart(ask, p)["expected"]' <= predictedStart(ask, o)["expected"]
  BY <1>1, <1>7, <1>8, <1>11
<1>14. /\ establishedStart(ask, o)["p90"] \in Nat
       /\ establishedStart(ask, p)["p90"]' \in Nat
       /\ establishedStart(ask, p)["p90"]' <= establishedStart(ask, o)["p90"]
  BY <1>1, <1>9, <1>10, <1>12
<1> QED
  BY <1>13, <1>14

\* A window that was wide enough still is.
LEMMA WindowStaysOpen ==
    ASSUME IInv, Declared, NEW id \in BookingIDs, CompleteBooking(id),
           NEW ask \in Asks, NEW o \in Offers, NEW p, SameMachine(o, p), ~ OutlivesWindow(ask, o)
    PROVE  ~ OutlivesWindow(ask, p)'
<1>1. now \in Nat /\ now' = now
  BY DEF IInv, Typed, CompleteBooking
<1>2. runtimeBounds(ask).max \in Nat
  <2>1. ask.max \in Nat \ {0}
    BY Zenon, AsksAreValid
  <2> QED
    BY <2>1, RuntimesAreBookable
<1>3. p.until = o.until /\ o.until \in Nat \cup {NoTime}
  BY DEF SameMachine, Offers
<1>4. PICK x : x = predictedStart(ask, o).expected
  BY Zenon
<1>5. PICK y : y = predictedStart(ask, p).expected'
  BY Zenon
<1>6. x \in Nat /\ y \in Nat /\ y <= x
  BY <1>4, <1>5, LeavingStartsSooner
<1>7. OutlivesWindow(ask, o) <=> o.until # NoTime /\ now + x + runtimeBounds(ask).max > o.until
  BY Zenon, <1>4 DEF OutlivesWindow
<1>8. OutlivesWindow(ask, p)' <=> p.until # NoTime /\ now' + y + runtimeBounds(ask).max > p.until
  BY <1>5 DEF OutlivesWindow, runtimeBounds
<1> QED
  BY <1>1, <1>2, <1>3, <1>6, <1>7, <1>8 DEF NoTime

\* A bound on the start that was met still is.
LEMMA BoundStaysMet ==
    ASSUME IInv, Declared, NEW id \in BookingIDs, CompleteBooking(id),
           NEW ask \in Asks, NEW o \in Offers, NEW p, SameMachine(o, p), ~ exceedsStartSLO(ask, o)
    PROVE  ~ exceedsStartSLO(ask, p)'
<1>1. PICK x : x = establishedStart(ask, o).p90
  BY Zenon
<1>2. PICK y : y = establishedStart(ask, p).p90'
  BY Zenon
<1>3. x \in Nat /\ y \in Nat /\ y <= x
  BY <1>1, <1>2, LeavingStartsSooner
<1>4. exceedsStartSLO(ask, o) <=> ask.slo # NoLimit /\ x > ask.slo
  BY Zenon, <1>1 DEF exceedsStartSLO
<1>5. exceedsStartSLO(ask, p)' <=> ask.slo # NoLimit /\ y > ask.slo
  BY <1>2 DEF exceedsStartSLO
<1>6. ask.slo \in Nat
  BY Zenon, AsksAreValid
<1> QED
  BY <1>3, <1>4, <1>5, <1>6

\* An empty schedule has room.
LEMMA EmptyHasRoom ==
    ASSUME NEW s, s.bookings = <<>>
    PROVE  ~ (Len(s.bookings) >= QueueCapacity + 1)
<1>1. Len(s.bookings) = 0
  OBVIOUS
<1> QED
  BY <1>1, QueueCapacityAssumption

\* A machine whose queue is all that is held against it has nothing else held against
\* it when a Booking has left, however available it then says it is.
LEMMA NothingElseIsHeldAgainstIt ==
    ASSUME IInv, Declared, NEW id \in BookingIDs, CompleteBooking(id),
           NEW ask \in Asks, ask.budget = NoLimit, NEW fleet \in Fleets, NEW o \in Offers,
           Standing(feasibilityViolations(fleet, ask, o)) = "could hold",
           NEW p, SameMachine(o, p)
    PROVE  /\ feasibilityViolations(fleet, ask, p)' = scheduleRefusals(p)'
           /\ ~ (KeepsWhatItRuns(p) /\ p.rental /\ Exhausted(schedule', now'))
<1>1. /\ o.bars = {} /\ diskRefusals(ask, o) = {}
      /\ ~ HolderOfMachine(fleet, o)
      /\ ~ (o.rate = Unpriced /\ ~ ask.unpriced)
      /\ ~ (KeepsWhatItRuns(o) /\ o.rental /\ Exhausted(schedule, now))
      /\ ~ OutlivesWindow(ask, o) /\ ~ exceedsStartSLO(ask, o)
  BY Zenon, CouldHold
<1>2. p.bars = {} /\ ~ (p.rate = Unpriced /\ ~ ask.unpriced)
  BY <1>1 DEF SameMachine
<1>3. ~ HolderOfMachine(fleet, p)
  BY <1>1 DEF SameMachine, HolderOfMachine
<1>4. diskRefusals(ask, p) = {}
  BY <1>1 DEF SameMachine, diskRefusals, RequiredBytes
<1>5. ~ (KeepsWhatItRuns(p) /\ p.rental /\ Exhausted(schedule', now'))
  <2>1. (KeepsWhatItRuns(p) <=> KeepsWhatItRuns(o)) /\ p.rental = o.rental
    BY DEF SameMachine, KeepsWhatItRuns
  <2> QED
    BY Zenon, <1>1, <2>1, LeavingExhaustsNothing
<1>6. ~ OutlivesWindow(ask, p)'
  BY Zenon, <1>1, WindowStaysOpen
<1>7. ~ exceedsStartSLO(ask, p)'
  BY Zenon, <1>1, BoundStaysMet
<1>8. ~ exceedsBudget(ask, p)'
  BY DEF exceedsBudget
<1>9. HolderOfMachine(fleet, p)' <=> HolderOfMachine(fleet, p)
  BY DEF HolderOfMachine
<1>10. diskRefusals(ask, p)' = diskRefusals(ask, p)
  BY DEF diskRefusals, RequiredBytes
<1> QED
  BY Zenon, <1>2, <1>3, <1>4, <1>5, <1>6, <1>7, <1>8, <1>9, <1>10 DEF feasibilityViolations

\* What a step may do to a wait that was quoted.
WaitGoesOn ==
    Len(schedule'.bookings) < Len(schedule.bookings) =>
        \A ask \in {a \in Asks : a.budget = NoLimit}, fleet \in Fleets :
            \A o \in fleet :
                Standing(feasibilityViolations(fleet, ask, o)) = "could hold" =>
                    /\ (Standing(feasibilityViolations(fleet, ask, o)) = "could hold")'
                    /\ schedule'.bookings = <<>> =>
                          feasibilityViolations(fleet, ask, [o EXCEPT !.available = TRUE])' = {}

\* A Booking that leaves ends no wait but by what it leaves behind.
LEMMA CompleteGoesOn ==
    ASSUME IInv, Declared, NEW id \in BookingIDs, CompleteBooking(id)
    PROVE  WaitGoesOn
<1> SUFFICES ASSUME NEW ask \in Asks, ask.budget = NoLimit, NEW fleet \in Fleets, NEW o \in fleet,
                    Standing(feasibilityViolations(fleet, ask, o)) = "could hold"
             PROVE  /\ (Standing(feasibilityViolations(fleet, ask, o)) = "could hold")'
                    /\ schedule'.bookings = <<>> =>
                          feasibilityViolations(fleet, ask, [o EXCEPT !.available = TRUE])' = {}
  BY Zenon DEF WaitGoesOn
<1>1. o \in Offers
  BY OffersAreValid
<1>2. (Standing(feasibilityViolations(fleet, ask, o)) = "could hold")'
  <2>1. SameMachine(o, o)
    BY <1>1 DEF SameMachine
  <2>2. /\ feasibilityViolations(fleet, ask, o)' = scheduleRefusals(o)'
        /\ ~ (KeepsWhatItRuns(o) /\ o.rental /\ Exhausted(schedule', now'))
    BY Zenon, <1>1, <2>1, NothingElseIsHeldAgainstIt
  <2>3. scheduleRefusals(o)' \subseteq EndedByWaiting
    BY <2>2 DEF scheduleRefusals, EndedByWaiting, KeepsWhatItRuns
  <2>4. feasibilityViolations(fleet, ask, o)' \subseteq EndedByWaiting
    BY Zenon, <2>2, <2>3
  <2> QED
    BY Zenon, <2>4 DEF Standing, EndedByWaiting
<1>3. ASSUME schedule'.bookings = <<>>
      PROVE  feasibilityViolations(fleet, ask, [o EXCEPT !.available = TRUE])' = {}
  <2> DEFINE p == [o EXCEPT !.available = TRUE]
  <2>1. p \in Offers
    BY Zenon, <1>1 DEF Offers
  <2>2. SameMachine(o, p) /\ p.available
    BY <1>1, <2>1 DEF SameMachine, Offers
  <2> HIDE DEF p
  <2>3. /\ feasibilityViolations(fleet, ask, p)' = scheduleRefusals(p)'
        /\ ~ (KeepsWhatItRuns(p) /\ p.rental /\ Exhausted(schedule', now'))
    BY Zenon, <1>1, <2>2, NothingElseIsHeldAgainstIt
  <2>4. ~ (Len(schedule'.bookings) >= QueueCapacity + 1)
    BY Zenon, <1>3, EmptyHasRoom
  <2>5. scheduleRefusals(p)' = {}
    BY <2>2, <2>3, <2>4 DEF scheduleRefusals, KeepsWhatItRuns
  <2>6. feasibilityViolations(fleet, ask, p)' = {}
    BY Zenon, <2>3, <2>5
  <2> QED
    BY Zenon, <2>6 DEF p
<1> QED
  BY <1>2, <1>3

(***************************************************************************)
(* A wait that is quoted ends: as Bookings leave, for any offers, asks,    *)
(* durations and queue, a machine that could hold a Run without a budget   *)
(* goes on being one that could, and when the last Booking has left takes  *)
(* it as soon as it is available (scheduler.go feasibilityViolations,      *)
(* queueEstimate and establishedStart, RentalSchedule.Complete).           *)
(***************************************************************************)
THEOREM QuotedWaitsEnd == PlacementSpec => WaitsEnd
<1>1. IInv /\ Declared /\ [Next]_vars => [WaitGoesOn]_vars
  <2> SUFFICES ASSUME IInv, Declared, Next PROVE WaitGoesOn
    OBVIOUS
  <2>1. ASSUME NEW id \in BookingIDs, NEW r \in Runs, NEW rt \in Runtimes, ReserveBooking(id, r, rt)
        PROVE  WaitGoesOn
    <3>1. /\ Len(schedule.bookings) \in Nat
          /\ Len(schedule'.bookings) = Len(schedule.bookings) + 1
      BY Zenon, <2>1, ReserveOutcome
    <3>2. ~ Len(schedule'.bookings) < Len(schedule.bookings)
      BY <3>1
    <3> QED
      BY Zenon, <3>2 DEF WaitGoesOn
  <2>2. ASSUME NEW id \in BookingIDs, NEW at \in 0..now, WorkloadStarted(id, at)
        PROVE  WaitGoesOn
    <3>1. /\ Len(schedule.bookings) \in Nat
          /\ Len(schedule'.bookings) = Len(schedule.bookings)
      BY Zenon, <2>2, StartedOutcome
    <3>2. ~ Len(schedule'.bookings) < Len(schedule.bookings)
      BY <3>1
    <3> QED
      BY Zenon, <3>2 DEF WaitGoesOn
  <2>3. ASSUME NEW id \in BookingIDs, CompleteBooking(id) PROVE WaitGoesOn
    BY <2>3, CompleteGoesOn
  <2>4. CASE Tick
    <3>1. schedule' = schedule /\ schedule \in Schedule
      BY <2>4 DEF Tick, IInv, Typed
    <3>2. Len(schedule.bookings) \in Nat
      BY <3>1 DEF Schedule
    <3>3. ~ Len(schedule'.bookings) < Len(schedule.bookings)
      BY <3>1, <3>2
    <3> QED
      BY Zenon, <3>3 DEF WaitGoesOn
  <2> QED
    BY <2>1, <2>2, <2>3, <2>4 DEF Next
<1>2. PlacementSpec => Spec
  BY PlacingReserves, PTL DEF PlacementSpec, Spec
<1> QED
  BY <1>1, <1>2, Invariance, ProjectionsStayWithinBounds, PTL DEF Spec, WaitsEnd, WaitGoesOn

(***************************************************************************)
(* One node identity: its invitation, its enrolments and its sessions       *)
(* (NodeRegistry).                                                          *)
(***************************************************************************)
Row == [state : {"none", "enrolling", "ready", "lost", "retired"}, fencing : Nat,
        token : Nat, expires : Nat, lease : Nat]
Held == [minted : Nat, token : Nat, redeemed : BOOLEAN, enrolling : BOOLEAN, fencing : Nat]

Shape ==
    /\ clock \in Nat \ {0} /\ wait \in Nat
    /\ rec \in Row
    /\ machine \in [Machines -> Held]
    /\ conn \in [Conns -> [stage : {"idle", "authenticated", "open", "ended"}, fencing : Nat]]
    /\ current \in Conns \cup {NoConn}
    /\ draining \in BOOLEAN

(* A shutdown leaves nothing registered, and nothing registers after it. *)
Drained == draining => current = NoConn

(* An invitation the record names is the one its expiry derives, and it is the
   one every machine with an unspent, unlapsed invitation holds.  While one
   provisioning deadline governs the identity, it is the only expiry minted, so
   that what an overlapping attempt writes late is what the others hold. *)
Invitations ==
    /\ rec.token # 0 => rec.token = rec.expires
    /\ wait # 0 => rec.token \in {0, wait}
    /\ rec.state = "none" => rec.token = 0
    /\ \A m \in Machines :
        /\ rec.state = "none" => machine[m].token = 0
        /\ wait # 0 => machine[m].token \in {0, wait}
        /\ machine[m].minted # 0 => machine[m].minted = wait /\ rec.state # "none"
        /\ (machine[m].token > clock /\ ~machine[m].redeemed) => rec.token = machine[m].token

RegistryIInv == Shape /\ OnlyRegisteredIsOpen /\ Drained /\ Invitations

\* A deployment nobody enrolled in satisfies the invariant.
LEMMA InitHolds == RegistryInit => RegistryIInv
<1> SUFFICES ASSUME RegistryInit PROVE RegistryIInv OBVIOUS
<1> USE NodeRegistryConstants DEF RegistryInit
<1>1. rec \in Row /\ rec.token = 0 BY DEF Blank, Row
<1>2. machine \in [Machines -> Held] /\ \A m \in Machines : machine[m].token = 0 /\ machine[m].minted = 0
  BY DEF Held
<1>3. Shape
  <2>1. conn \in [Conns -> [stage : {"idle", "authenticated", "open", "ended"}, fencing : Nat]]
    OBVIOUS
  <2>2. clock \in Nat \ {0} /\ wait \in Nat /\ current = NoConn /\ draining = FALSE OBVIOUS
  <2> QED BY Zenon, <1>1, <1>2, <2>1, <2>2 DEF Shape
<1> QED BY <1>1, <1>2, <1>3 DEF RegistryIInv, OnlyRegisteredIsOpen, Drained, Invitations

(* Ending the registered session leaves every other handler as it was. *)
LEMMA CloseKeeps ==
    ASSUME RegistryIInv, closeSession
    PROVE  /\ conn' \in [Conns -> [stage : {"idle", "authenticated", "open", "ended"}, fencing : Nat]]
           /\ current' = NoConn /\ \A c \in Conns : conn'[c].stage # "open"
           /\ OnlyRegisteredIsOpen'
BY NodeRegistryConstants DEF RegistryIInv, Shape, closeSession, Ended, OnlyRegisteredIsOpen

\* Opening, registering and closing a session preserve the invariant.
LEMMA SessionsKeep ==
    ASSUME RegistryIInv, NEW c \in Conns,
           RegisterSession(c) \/ CloseSession(c) \/ \E m \in Machines : OpenSession(c, m)
    PROVE  RegistryIInv'
<1> USE NodeRegistryConstants DEF RegistryIInv, Shape, Row, Held
<1>1. UNCHANGED <<clock, wait, rec, machine, draining>>
  BY DEF RegisterSession, CloseSession, OpenSession
<1>2. Invitations' BY <1>1 DEF Invitations
<1>3. CASE RegisterSession(c)
  <2>1. CASE draining
    <3>1. /\ UNCHANGED current /\ conn' = [conn EXCEPT ![c].stage = "ended"]
          /\ conn[c].stage = "authenticated"
      BY <2>1, <1>3 DEF RegisterSession
    <3>2. OnlyRegisteredIsOpen' /\ Drained' BY <3>1, <1>1 DEF OnlyRegisteredIsOpen, Drained
    <3> QED BY <3>1, <3>2, <1>1, <1>2
  <2>2. CASE ~draining
    <3>1. conn' = [Ended(current, conn) EXCEPT ![c].stage = "open"] /\ current' = c
      BY <2>2, <1>3 DEF RegisterSession
    <3>2. CASE current = NoConn
      BY <3>1, <3>2, <2>2, <1>1, <1>2 DEF Ended, OnlyRegisteredIsOpen, Drained
    <3>3. CASE current \in Conns
      BY <3>1, <3>3, <2>2, <1>1, <1>2 DEF Ended, OnlyRegisteredIsOpen, Drained
    <3> QED BY <3>2, <3>3
  <2> QED BY <2>1, <2>2
<1>4. CASE CloseSession(c)
  BY <1>1, <1>2, <1>4 DEF CloseSession, OnlyRegisteredIsOpen, Drained
<1>5. CASE \E m \in Machines : OpenSession(c, m)
  BY <1>1, <1>2, <1>5 DEF OpenSession, OnlyRegisteredIsOpen, Drained
<1> QED BY <1>3, <1>4, <1>5

\* Inviting and redeeming an invitation preserve the invariant.
LEMMA InvitationsKeep ==
    ASSUME RegistryIInv, NEW m \in Machines,
           Invite(m) \/ Reinvite(m) \/ WriteInvitation(m) \/ Enroll(m)
    PROVE  RegistryIInv'
<1> USE NodeRegistryConstants DEF RegistryIInv, Shape, Row, Held
<1>1. UNCHANGED <<clock, wait, conn, current, draining>>
  BY DEF Invite, Reinvite, WriteInvitation, Enroll
<1>2. OnlyRegisteredIsOpen' /\ Drained' BY <1>1 DEF OnlyRegisteredIsOpen, Drained
<1>3. window \in Nat BY DEF window
<1>4. CASE Invite(m)
  <2>1. rec' = [rec EXCEPT !.state = "enrolling", !.token = window, !.expires = window]
        /\ machine' = [machine EXCEPT ![m].token = window, ![m].redeemed = FALSE]
    BY <1>4 DEF Invite
  <2>2. rec' \in Row BY Zenon, <2>1, <1>3
  <2>3. machine[m] \in Held /\ machine'[m] = [machine[m] EXCEPT !.token = window, !.redeemed = FALSE]
    BY <2>1
  <2>4. machine'[m] \in Held BY Zenon, <2>3, <1>3
  <2>5. rec' \in Row /\ machine' \in [Machines -> Held] BY <2>1, <2>2, <2>4
  <2>6. Shape' BY <1>1, <2>5
  <2>7. window # 0 /\ (wait # 0 => window = wait) BY DEF window
  <2>8. Invitations' BY <1>1, <1>3, <1>4, <2>7 DEF Invite, Invitations
  <2> QED BY <1>2, <2>6, <2>8
<1>5. CASE Reinvite(m)
  <2>1. CASE outstandingInvitation
    <3>1. /\ machine' = [machine EXCEPT ![m] = [machine[m] EXCEPT !.token = rec.token, !.redeemed = FALSE]]
          /\ UNCHANGED rec
      BY <1>5, <2>1 DEF Reinvite
    <3>2. machine[m] \in Held /\ rec.token \in Nat OBVIOUS
    <3>3. [machine[m] EXCEPT !.token = rec.token, !.redeemed = FALSE] \in Held BY Zenon, <3>2
    <3>4. Shape' BY <1>1, <3>1, <3>3
    <3>5. Invitations' BY <1>1, <3>1 DEF Invitations
    <3> QED BY <1>2, <3>4, <3>5
  <2>2. CASE ~outstandingInvitation
    <3>1. /\ machine' = [machine EXCEPT ![m] = [machine[m] EXCEPT !.minted = window]]
          /\ UNCHANGED rec /\ window = wait /\ rec.state # "none"
      BY <1>5, <2>2 DEF Reinvite, window
    <3>2. machine[m] \in Held OBVIOUS
    <3>3. [machine[m] EXCEPT !.minted = window] \in Held BY Zenon, <3>2, <1>3
    <3>4. Shape' BY <1>1, <3>1, <3>3
    <3>5. Invitations' BY <1>1, <3>1 DEF Invitations
    <3> QED BY <1>2, <3>4, <3>5
  <2> QED BY <2>1, <2>2
<1>7. CASE WriteInvitation(m)
  <2>1. /\ rec' = [rec EXCEPT !.token = wait, !.expires = wait]
        /\ machine' = [machine EXCEPT ![m] =
              [machine[m] EXCEPT !.minted = 0, !.token = wait, !.redeemed = FALSE]]
        /\ wait # 0 /\ rec.state # "none"
    BY <1>7 DEF WriteInvitation, Invitations
  <2>2. rec' \in Row BY Zenon, <2>1
  <2>3. machine[m] \in Held OBVIOUS
  <2>4. [machine[m] EXCEPT !.minted = 0, !.token = wait, !.redeemed = FALSE] \in Held BY Zenon, <2>3
  <2>5. Shape' BY <1>1, <2>1, <2>2, <2>4
  <2>6. Invitations' BY <1>1, <2>1 DEF Invitations
  <2> QED BY <1>2, <2>5, <2>6
<1>6. CASE Enroll(m)
  <2>1. /\ rec' = [rec EXCEPT !.state = "ready", !.fencing = rec.fencing + 1, !.token = 0,
                              !.lease = clock + Lease]
        /\ rec.token = machine[m].token
        /\ machine' = [n \in Machines |->
              IF n = m THEN [machine[m] EXCEPT !.enrolling = TRUE, !.redeemed = TRUE,
                                               !.fencing = rec.fencing + 1]
              ELSE IF machine[n].token = machine[m].token
                   THEN [machine[n] EXCEPT !.redeemed = TRUE] ELSE machine[n]]
    BY <1>6 DEF Enroll
  <2>2. Shape'
    <3>1. rec.fencing \in Nat /\ rec.fencing + 1 \in Nat /\ clock + Lease \in Nat BY DEF Row
    <3>2. rec' \in Row BY Zenon, <2>1, <3>1 DEF Row
    <3>3. \A n \in Machines : machine'[n] \in Held
      <4> SUFFICES ASSUME NEW n \in Machines PROVE machine'[n] \in Held OBVIOUS
      <4>0. machine[n] \in Held OBVIOUS
      <4>1. CASE n = m
        <5>1. machine'[n] = [machine[n] EXCEPT !.enrolling = TRUE, !.redeemed = TRUE,
                                               !.fencing = rec.fencing + 1]
          BY <2>1, <4>1
        <5> QED BY Zenon, <4>0, <5>1, <3>1 DEF Held
      <4>2. CASE n # m /\ machine[n].token = machine[m].token
        <5>1. machine'[n] = [machine[n] EXCEPT !.redeemed = TRUE] BY <2>1, <4>2
        <5> QED BY Zenon, <4>0, <5>1 DEF Held
      <4>3. CASE n # m /\ machine[n].token # machine[m].token BY <2>1, <4>0, <4>3
      <4> QED BY <4>1, <4>2, <4>3
    <3>4. machine' \in [Machines -> Held] BY <2>1, <3>3
    <3> QED BY <1>1, <3>2, <3>4
  <2>3. \A n \in Machines : /\ machine'[n].token = machine[n].token
                            /\ machine'[n].minted = machine[n].minted
                            /\ n = m \/ machine[n].token = rec.token => machine'[n].redeemed
                            /\ ~machine'[n].redeemed => ~machine[n].redeemed
    BY <2>1
  <2>4. Invitations' BY <1>1, <2>1, <2>3 DEF Invitations
  <2> QED BY <1>2, <2>2, <2>4
<1> QED BY <1>4, <1>5, <1>6, <1>7

\* Reports, sweeps, retirement, draining and the clock preserve the invariant.
LEMMA RestKeeps ==
    ASSUME RegistryIInv,
           \/ \E m \in Machines : EnrollCloses(m) \/ ReadHeartbeat(m)
           \/ Heartbeat \/ FindExpired \/ MarkLost \/ CloseLost \/ Retire \/ RetireCloses
           \/ Drain \/ Elapse \/ UNCHANGED registryVars
    PROVE  RegistryIInv'
<1> USE NodeRegistryConstants DEF RegistryIInv, Shape, Row, Held
<1>1. CASE \E m \in Machines : EnrollCloses(m)
  <2>0. machine' \in [Machines -> Held]
    <3>1. PICK m \in Machines : machine' = [machine EXCEPT ![m].enrolling = FALSE]
      BY Zenon, <1>1 DEF EnrollCloses
    <3>2. machine[m] \in Held OBVIOUS
    <3>3. [machine[m] EXCEPT !.enrolling = FALSE] \in Held BY Zenon, <3>2
    <3>4. machine' = [machine EXCEPT ![m] = [machine[m] EXCEPT !.enrolling = FALSE]] BY <3>1
    <3> QED BY <3>3, <3>4
  <2>1. Shape' BY <1>1, <2>0, CloseKeeps DEF EnrollCloses
  <2>2. Invitations' BY <1>1 DEF EnrollCloses, Invitations
  <2> QED BY <1>1, <2>1, <2>2, CloseKeeps DEF EnrollCloses, Drained
<1>2. CASE \/ \E m \in Machines : ReadHeartbeat(m)
           \/ Heartbeat \/ FindExpired \/ MarkLost \/ Retire \/ UNCHANGED registryVars
  <2>1. UNCHANGED <<clock, wait, machine, conn, current, draining>>
    BY <1>2 DEF ReadHeartbeat, Heartbeat, FindExpired, MarkLost, Retire, registryVars
  <2>2. clock + Lease \in Nat OBVIOUS
  <2>4. rec' \in Row /\ rec'.token = rec.token /\ rec'.expires = rec.expires
    <3>1. CASE Heartbeat BY Zenon, <3>1, <2>2 DEF Heartbeat, Row
    <3>2. CASE ~Heartbeat
      BY <1>2, <3>2 DEF ReadHeartbeat, FindExpired, MarkLost, Retire, registryVars, Row
    <3> QED BY <3>1, <3>2
  <2>3. rec'.state = "none" => rec.state = "none"
    BY Zenon, <1>2 DEF ReadHeartbeat, Heartbeat, FindExpired, MarkLost, Retire, registryVars
  <2> QED BY <2>1, <2>3, <2>4 DEF OnlyRegisteredIsOpen, Drained, Invitations
<1>3. CASE CloseLost \/ RetireCloses \/ Drain
  <2>1. closeSession /\ UNCHANGED <<clock, wait, rec, machine>> /\ draining' \in BOOLEAN
    BY Zenon, <1>3 DEF CloseLost, RetireCloses, Drain
  <2> QED BY <2>1, CloseKeeps DEF Drained, Invitations
<1>4. CASE Elapse
  BY <1>4 DEF Elapse, OnlyRegisteredIsOpen, Drained, Invitations
<1> QED BY <1>1, <1>2, <1>3, <1>4

\* Every step of the registry preserves the invariant.
LEMMA StepKeeps == RegistryIInv /\ [RegistryNext]_registryVars => RegistryIInv'
BY SessionsKeep, InvitationsKeep, RestKeeps DEF RegistryNext

\* The invariant holds in every state of the registry.
LEMMA Inductive == RegistrySpec => []RegistryIInv
BY InitHolds, StepKeeps, PTL DEF RegistrySpec

(* For any machines, connections and deadlines, the session deliver finds
   registered is the only open one, whatever OpenSession, CloseSession and a
   replaced session's late return did before. *)
THEOREM RegisteredIsTheOpenOne == RegistrySpec => []OnlyRegisteredIsOpen
<1>1. RegistryIInv => OnlyRegisteredIsOpen BY DEF RegistryIInv
<1> QED BY <1>1, Inductive, PTL

(* After Drain no session is open and none opens again, though an agent that
   authenticated before it may still be about to register. *)
THEOREM DrainIsFinal == RegistrySpec => []DrainedHoldsNothing
<1>1. RegistryIInv => DrainedHoldsNothing
  BY NodeRegistryConstants DEF RegistryIInv, Shape, OnlyRegisteredIsOpen, Drained, DrainedHoldsNothing
<1> QED BY <1>1, Inductive, PTL

(* Until it lapses or is redeemed, a machine's invitation is the one the record
   will accept: Reinvite hands an outstanding one back (outstandingInvitation),
   and what overlapping attempts mint is open until the one moment their deadline
   states (window), so the last of them to be written shuts no machine out. *)
THEOREM InvitationsStayRedeemable == RegistrySpec => []InvitationHeldIsRedeemable
<1>1. RegistryIInv => InvitationHeldIsRedeemable
  BY NodeRegistryConstants DEF RegistryIInv, Shape, Invitations, InvitationHeldIsRedeemable
<1> QED BY <1>1, Inductive, PTL
=============================================================================

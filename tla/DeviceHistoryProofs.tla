-------------------------- MODULE DeviceHistoryProofs --------------------------
(***************************************************************************)
(* For any devices and vehicles, any number of requests at once and a      *)
(* history of any length: where no Fit came late, no two fittings of a     *)
(* device or of a vehicle overlap and the questions asked of the history   *)
(* agree; with the clock's dates a settled past stands; and a listing is   *)
(* of one moment.                                                          *)
(***************************************************************************)
EXTENDS Views, FiniteSetTheorems, WellFoundedInduction, TLAPS

\* Rows a and b are both of x, the same device or the same vehicle.
BothOf(x, a, b) == (a.device = x /\ b.device = x) \/ (a.vehicle = x /\ b.vehicle = x)

\* A device, and a vehicle, has one open row: what Fit closes.
OneOpen == \A a, b \in rows : \A x : IsOpen(a) /\ IsOpen(b) /\ BothOf(x, a, b) => a = b

\* Two rows of a device or of a vehicle share no moment but the contested ones.
Disjoint ==
  \A a, b \in rows, t \in Time : \A x :
    BothOf(x, a, b) /\ Covers(a, t) /\ Covers(b, t) /\ <<x, t>> \notin contested => a = b

HistoryInv == TypeOK /\ IsFiniteSet(rows) /\ OneOpen /\ Disjoint

-----------------------------------------------------------------------------
\* What the dates of a request are.
LEMMA RequestDates ==
  ASSUME TypeOK
  PROVE  /\ DatesFor(Dates) \subseteq Dates /\ DatesFor(0 .. now + Slack) \subseteq Dates
         /\ Time \subseteq Dates
BY HistoryAssumption DEF TypeOK, DatesFor, Dates, Time

LEMMA CommitTypes ==
  ASSUME TypeOK, NEW r \in Requests, request[r].at \in Dates, NEW closed, NEW new \in SUBSET Row,
         NEW shortcuts \in [Vehicles -> SUBSET Devices], Commit(r, closed, new, shortcuts),
         contested' \in SUBSET ((Devices \cup Vehicles) \X Dates)
  PROVE  TypeOK'
<1> USE HistoryAssumption
<1>1. rows' \in SUBSET Row
  <2>1. \A a \in Row : Close(a, request[r].at) \in Row
    BY DEF Row, Close
  <2> QED
    BY <2>1 DEF TypeOK, Commit
<1>2. request' \in [Requests -> {NoRequest} \cup FitRequest \cup UnfitRequest]
  BY DEF TypeOK, Commit
<1> QED
  BY <1>1, <1>2 DEF TypeOK, Commit

\* What a request under way carries.
LEMMA Carries ==
  ASSUME TypeOK, NEW r \in Requests
  PROVE  /\ request[r].op = "fit" =>
              request[r].device \in Devices /\ request[r].vehicle \in Vehicles /\ request[r].at \in Dates
         /\ request[r].op = "unfit" => request[r].device \in Devices /\ request[r].at \in Dates
         /\ request[r] # NoRequest => request[r].at \in Dates
BY DEF TypeOK, NoRequest, FitRequest, UnfitRequest

\* The dates Fit and Unfit choose from are dates.
LEMMA TypesStep ==
  ASSUME TypeOK, [Next]_vars
  PROVE  TypeOK'
<1> USE HistoryAssumption
<1>1. CASE Tick
  BY <1>1 DEF Tick, TypeOK, Time
<1>2. ASSUME NEW r \in Requests, NEW d \in Devices, UnfitBegin(r, d) PROVE TypeOK'
  <2>1. PICK at0 \in Dates : Begin(r, [op |-> "unfit", device |-> d, at |-> at0])
    BY <1>2, RequestDates DEF UnfitBegin
  <2>2. [op |-> "unfit", device |-> d, at |-> at0] \in UnfitRequest
    BY DEF UnfitRequest
  <2> QED
    BY <1>2, <2>1, <2>2 DEF UnfitBegin, Begin, TypeOK
<1>3. ASSUME NEW r \in Requests, NEW d \in Devices, NEW v \in Vehicles, FitBegin(r, d, v)
      PROVE  TypeOK'
  <2>1. PICK at0 \in Dates : Begin(r, [op |-> "fit", device |-> d, vehicle |-> v, at |-> at0])
    BY <1>3, RequestDates DEF FitBegin
  <2>2. [op |-> "fit", device |-> d, vehicle |-> v, at |-> at0] \in FitRequest
    BY DEF FitRequest
  <2> QED
    BY <1>3, <2>1, <2>2 DEF FitBegin, Begin, TypeOK
<1>4. ASSUME NEW r \in Requests, UnfitCommit(r) PROVE TypeOK'
  <2>1. /\ request[r].device \in Devices /\ request[r].at \in Dates
        /\ Commit(r, {a \in rows : IsOpen(a) /\ a.device = request[r].device}, {}, Cleared(request[r].device))
        /\ contested' = contested
    BY <1>4, Carries DEF UnfitCommit
  <2>2. Cleared(request[r].device) \in [Vehicles -> SUBSET Devices]
    BY DEF Cleared, TypeOK
  <2>3. contested' \in SUBSET ((Devices \cup Vehicles) \X Dates)
    BY <2>1 DEF TypeOK
  <2> QED
    BY <2>1, <2>2, <2>3, CommitTypes
<1>5. ASSUME NEW r \in Requests, FitCommit(r) PROVE TypeOK'
  <2> DEFINE d == request[r].device
             v == request[r].vehicle
             new == {[device |-> d, vehicle |-> v, fittedAt |-> request[r].at, unfittedAt |-> Open]}
  <2>1. /\ d \in Devices /\ v \in Vehicles /\ request[r].at \in Dates
        /\ Commit(r, {a \in rows : IsOpen(a) /\ Displaced(a, d, v)}, new, Moved(d, v))
        /\ contested' = contested \cup Overtaken(d, request[r].at) \cup Overtaken(v, request[r].at)
    BY <1>5, Carries DEF FitCommit
  <2>2. Moved(d, v) \in [Vehicles -> SUBSET Devices]
    BY <2>1 DEF Moved, Cleared, TypeOK
  <2>3. contested' \in SUBSET ((Devices \cup Vehicles) \X Dates)
    BY <2>1 DEF TypeOK, Overtaken
  <2>4. new \in SUBSET Row
    BY <2>1 DEF Row
  <2> HIDE DEF new, d, v
  <2> QED
    BY <2>1, <2>2, <2>3, <2>4, CommitTypes
<1>6. ASSUME NEW r \in Requests, Refused(r) PROVE TypeOK'
  BY <1>6 DEF Refused, TypeOK
<1>7. CASE UNCHANGED vars
  BY <1>7 DEF vars, TypeOK
<1> QED
  BY <1>1, <1>2, <1>3, <1>4, <1>5, <1>6, <1>7 DEF Next, Others

\* Each variable keeps its type, backdating or not and with any number of
\* requests under way.
THEOREM HistoryTypes == Spec => []TypeOK
<1>1. Init => TypeOK
  BY HistoryAssumption DEF Init, TypeOK, Time
<1>2. TypeOK /\ [Next]_vars => TypeOK'
  BY TypesStep
<1> QED
  BY <1>1, <1>2, PTL DEF Spec

-----------------------------------------------------------------------------
\* Closing an open row: which moments it covers afterwards.
LEMMA Closing ==
  ASSUME TypeOK, NEW a \in rows, IsOpen(a), NEW date \in Dates
  PROVE  /\ Close(a, date) \in Row
         /\ ~IsOpen(Close(a, date))
         /\ Close(a, date).device = a.device /\ Close(a, date).vehicle = a.vehicle
         /\ Close(a, date).fittedAt = a.fittedAt /\ Close(a, date).unfittedAt = date
         /\ \A t \in Time : Covers(Close(a, date), t) <=> Covers(a, t) /\ t < date
  BY HistoryAssumption DEF TypeOK, Row, Close, IsOpen, Covers, Open, Dates, Time

\* What a step keeps that closes some open rows with one date and may add one
\* open row of that date, when no open row it leaves is of the same device or
\* vehicle, and the moments it overtakes are contested.
LEMMA Committed ==
  ASSUME HistoryInv, NEW date \in Dates,
         NEW closed \in SUBSET rows, \A a \in closed : IsOpen(a),
         NEW new \in SUBSET Row,
         \A a \in new : IsOpen(a) /\ a.fittedAt = date,
         \A a \in new, b \in new : a = b,
         \A a \in new, b \in rows \ closed : \A x : IsOpen(b) => ~BothOf(x, a, b),
         rows' = {IF a \in closed THEN Close(a, date) ELSE a : a \in rows} \cup new,
         contested \subseteq contested',
         \A a \in new : \A x \in {a.device, a.vehicle} : Overtaken(x, date) \subseteq contested'
  PROVE  /\ IsFiniteSet(rows') /\ OneOpen' /\ Disjoint'
         /\ \A d \in Devices, t \in Time : t < date => VehicleAt(d, t)' = VehicleAt(d, t)
<1> DEFINE Was(a) == IF a \in closed THEN Close(a, date) ELSE a
<1> USE HistoryAssumption
<1>1. /\ TypeOK /\ OneOpen /\ Disjoint /\ IsFiniteSet(rows)
      /\ \A a \in rows : a \in Row
      /\ date \in Int /\ Time \subseteq Dates /\ \A t \in Time : t \in Int
      /\ \A a \in Row : a.fittedAt \in Int /\ a.unfittedAt \in Int
      /\ \A a \in Row : IsOpen(a) \/ a.unfittedAt \in Dates
  BY DEF HistoryInv, TypeOK, Row, Time, Dates, Open, IsOpen
<1>2. \A a \in rows : /\ Was(a).device = a.device /\ Was(a).vehicle = a.vehicle
                      /\ Was(a).fittedAt = a.fittedAt
                      /\ IsOpen(Was(a)) => Was(a) = a /\ IsOpen(a) /\ a \notin closed
                      /\ \A t \in Time : Covers(Was(a), t) => Covers(a, t)
                      /\ \A t \in Time : t < date => (Covers(Was(a), t) <=> Covers(a, t))
                      /\ \A t \in Time : date <= t /\ Covers(Was(a), t) => Was(a) = a /\ a \notin closed
  <2> SUFFICES ASSUME NEW a \in rows
               PROVE  /\ Was(a).device = a.device /\ Was(a).vehicle = a.vehicle
                      /\ Was(a).fittedAt = a.fittedAt
                      /\ IsOpen(Was(a)) => Was(a) = a /\ IsOpen(a) /\ a \notin closed
                      /\ \A t \in Time : Covers(Was(a), t) => Covers(a, t)
                      /\ \A t \in Time : t < date => (Covers(Was(a), t) <=> Covers(a, t))
                      /\ \A t \in Time : date <= t /\ Covers(Was(a), t) => Was(a) = a /\ a \notin closed
    OBVIOUS
  <2>1. CASE a \in closed
    BY <1>1, <2>1, Closing
  <2>2. CASE a \notin closed
    BY <1>1, <2>2
  <2> QED
    BY <2>1, <2>2
<1>3. \A x \in rows' : (\E a \in rows : x = Was(a)) \/ x \in new
  OBVIOUS
<1>4. \A a \in new, t \in Time : Covers(a, t) <=> date <= t
  BY <1>1 DEF Covers
<1>5. IsFiniteSet(rows')
  <2> DEFINE image == {Was(a) : a \in rows}
             f == [a \in rows |-> Was(a)]
  <2>1. f \in Surjection(rows, image)
    BY DEF Surjection
  <2>2. IsFiniteSet(image)
    BY <1>1, <2>1, FS_Surjection
  <2>3. IsFiniteSet(new)
    <3>1. CASE new = {}
      BY <3>1, FS_EmptySet
    <3>2. CASE \E a : a \in new
      <4>1. PICK a : a \in new
        BY <3>2
      <4>2. new = {a}
        BY <4>1
      <4> QED
        BY <4>2, FS_Singleton
    <3> QED
      BY <3>1, <3>2
  <2> QED
    BY <2>2, <2>3, FS_Union
<1>6. OneOpen'
  <2> SUFFICES ASSUME NEW p \in rows', NEW q \in rows', NEW x, IsOpen(p), IsOpen(q), BothOf(x, p, q)
               PROVE  p = q
    BY DEF OneOpen, IsOpen, BothOf
  <2>1. CASE p \in new /\ q \in new
    BY <2>1
  <2>2. ASSUME NEW a \in rows, p = Was(a), q \in new PROVE FALSE
    <3>1. p = a /\ IsOpen(a) /\ a \in rows \ closed
      <4> HIDE DEF Was
      <4> QED BY <1>2, <2>2
    <3>2. BothOf(x, q, a)
      BY <3>1 DEF BothOf
    <3> QED BY <2>2, <3>1, <3>2
  <2>3. ASSUME NEW a \in rows, q = Was(a), p \in new PROVE FALSE
    <3>1. q = a /\ IsOpen(a) /\ a \in rows \ closed
      <4> HIDE DEF Was
      <4> QED BY <1>2, <2>3
    <3> QED BY <2>3, <3>1
  <2>4. ASSUME NEW a \in rows, NEW b \in rows, p = Was(a), q = Was(b) PROVE p = q
    <3> HIDE DEF Was
    <3>1. p = a /\ q = b /\ IsOpen(a) /\ IsOpen(b)
      BY <1>2, <2>4
    <3> QED BY <1>1, <3>1 DEF OneOpen
  <2> QED
    BY <1>3, <2>1, <2>2, <2>3, <2>4
<1>7. ASSUME NEW n \in new, NEW b \in rows, NEW t \in Time, NEW x, BothOf(x, n, b),
             date <= t, Covers(Was(b), t), <<x, t>> \notin contested'
      PROVE  FALSE
  <2>1. Was(b) = b /\ b \in rows \ closed /\ Covers(b, t)
    <3> HIDE DEF Was
    <3> QED BY <1>2, <1>7
  <2>2. x \in {n.device, n.vehicle} /\ x \in {b.device, b.vehicle}
    BY <1>7 DEF BothOf
  <2>3. <<x, t>> \notin Overtaken(x, date) /\ t \in Dates
    BY <1>1, <1>7, <2>2
  <2>4. \A s \in DatesOf(x) : ~(t < s)
    BY <1>7, <2>3 DEF Overtaken
  <2>5. ~IsOpen(b) => b.unfittedAt \in DatesOf(x)
    BY <2>1, <2>2 DEF DatesOf, IsOpen
  <2>6. IsOpen(b)
    BY <1>1, <2>1, <2>4, <2>5 DEF Covers
  <2> QED
    BY <1>7, <2>1, <2>6
<1>8. Disjoint'
  <2> SUFFICES ASSUME NEW p \in rows', NEW q \in rows', NEW t \in Time, NEW x,
                      BothOf(x, p, q), Covers(p, t), Covers(q, t), <<x, t>> \notin contested'
               PROVE  p = q
    BY DEF Disjoint, Covers, IsOpen, BothOf
  <2>1. CASE p \in new /\ q \in new
    BY <2>1
  <2>2. ASSUME NEW a \in rows, p = Was(a), q \in new PROVE FALSE
    <3>1. date <= t /\ BothOf(x, q, a)
      <4> HIDE DEF Was
      <4> QED BY <1>2, <1>4, <2>2 DEF BothOf
    <3> HIDE DEF Was
    <3> QED BY <1>7, <2>2, <3>1
  <2>3. ASSUME NEW a \in rows, q = Was(a), p \in new PROVE FALSE
    <3>1. date <= t /\ BothOf(x, p, a)
      <4> HIDE DEF Was
      <4> QED BY <1>2, <1>4, <2>3 DEF BothOf
    <3> HIDE DEF Was
    <3> QED BY <1>7, <2>3, <3>1
  <2>4. ASSUME NEW a \in rows, NEW b \in rows, p = Was(a), q = Was(b) PROVE p = q
    <3>1. BothOf(x, a, b) /\ Covers(a, t) /\ Covers(b, t) /\ <<x, t>> \notin contested
      <4> HIDE DEF Was
      <4> QED BY <1>2, <2>4 DEF BothOf
    <3>2. a = b
      BY <1>1, <3>1 DEF Disjoint
    <3> QED BY <2>4, <3>2
  <2> QED
    BY <1>3, <2>1, <2>2, <2>3, <2>4
<1>9. ASSUME NEW d \in Devices, NEW t \in Time, t < date PROVE VehicleAt(d, t)' = VehicleAt(d, t)
  <2>2. ASSUME NEW u, u \in VehicleAt(d, t)' PROVE u \in VehicleAt(d, t)
    <3>1. PICK x \in rows' : x.device = d /\ Covers(x, t) /\ u = x.vehicle
      BY <2>2 DEF VehicleAt, Covers, IsOpen
    <3>2. x \notin new
      BY <1>1, <1>4, <1>9, <3>1
    <3>3. PICK a \in rows : x = Was(a)
      BY <1>3, <3>2
    <3> HIDE DEF Was
    <3>4. a.device = d /\ Covers(a, t) /\ u = a.vehicle
      BY <1>2, <1>9, <3>1, <3>3
    <3> QED BY <3>4 DEF VehicleAt
  <2>3. ASSUME NEW u, u \in VehicleAt(d, t) PROVE u \in VehicleAt(d, t)'
    <3>1. PICK a \in rows : a.device = d /\ Covers(a, t) /\ u = a.vehicle
      BY <2>3 DEF VehicleAt
    <3>2. Was(a) \in rows'
      OBVIOUS
    <3> HIDE DEF Was
    <3>3. Was(a).device = d /\ Covers(Was(a), t) /\ u = Was(a).vehicle
      BY <1>2, <1>9, <3>1
    <3> QED BY <3>2, <3>3 DEF VehicleAt, Covers, IsOpen
  <2> QED
    BY <2>2, <2>3 DEF VehicleAt
<1> QED
  BY <1>5, <1>6, <1>8, <1>9

-----------------------------------------------------------------------------
\* Whatever its dates, a commit keeps open rows apart, and changes no answer
\* about a moment before the date it carries.
LEMMA HistoryStep ==
  ASSUME HistoryInv, TypeOK', [Next]_vars
  PROVE  /\ HistoryInv'
         /\ \A d \in Devices, t \in Time : Settled(t) => VehicleAt(d, t)' = VehicleAt(d, t)
<1> USE HistoryAssumption
<1>1. ASSUME rows' = rows, contested' = contested
      PROVE  /\ HistoryInv'
             /\ \A d \in Devices, t \in Time : Settled(t) => VehicleAt(d, t)' = VehicleAt(d, t)
  <2>1. OneOpen' /\ Disjoint' /\ IsFiniteSet(rows')
    BY <1>1 DEF HistoryInv, OneOpen, Disjoint, BothOf, Covers, IsOpen
  <2>2. \A d \in Devices, t \in Time : VehicleAt(d, t)' = VehicleAt(d, t)
    BY <1>1 DEF VehicleAt, Covers, IsOpen
  <2> QED BY <2>1, <2>2 DEF HistoryInv
<1>2. CASE Others /\ ~\E r \in Requests : UnfitCommit(r)
  <2>1. rows' = rows /\ contested' = contested
    BY <1>2 DEF Others, Tick, Refused, UnfitBegin, FitBegin, Begin
  <2> QED BY <1>1, <2>1
<1>3. ASSUME NEW r \in Requests, UnfitCommit(r)
      PROVE  /\ HistoryInv'
             /\ \A d \in Devices, t \in Time : Settled(t) => VehicleAt(d, t)' = VehicleAt(d, t)
  <2> DEFINE date == request[r].at
             closed == {a \in rows : IsOpen(a) /\ a.device = request[r].device}
             new == {}
  <2>1. /\ rows' = {IF a \in closed THEN Close(a, date) ELSE a : a \in rows} \cup new
        /\ contested' = contested /\ date \in Dates /\ request[r] # NoRequest
    BY <1>3, Carries DEF UnfitCommit, Commit, NoRequest, HistoryInv
  <2>2. closed \in SUBSET rows /\ \A a \in closed : IsOpen(a)
    OBVIOUS
  <2>3. /\ new \in SUBSET Row
        /\ \A a \in new : IsOpen(a) /\ a.fittedAt = date
        /\ \A a \in new, b \in new : a = b
        /\ \A a \in new, b \in rows \ closed : \A x : IsOpen(b) => ~BothOf(x, a, b)
        /\ contested \subseteq contested'
        /\ \A a \in new : \A x \in {a.device, a.vehicle} : Overtaken(x, date) \subseteq contested'
    BY <2>1
  <2> HIDE DEF closed, new, date
  <2>4. /\ IsFiniteSet(rows') /\ OneOpen' /\ Disjoint'
        /\ \A d \in Devices, t \in Time : t < date => VehicleAt(d, t)' = VehicleAt(d, t)
    BY <2>1, <2>2, <2>3, Committed
  <2>5. \A t : Settled(t) => t < date
    BY <2>1 DEF Settled, date
  <2> QED BY <2>4, <2>5 DEF HistoryInv
<1>4. ASSUME NEW r \in Requests, FitCommit(r)
      PROVE  /\ HistoryInv'
             /\ \A d \in Devices, t \in Time : Settled(t) => VehicleAt(d, t)' = VehicleAt(d, t)
  <2> DEFINE date == request[r].at
             e == request[r].device
             v == request[r].vehicle
             closed == {a \in rows : IsOpen(a) /\ Displaced(a, e, v)}
             new == {[device |-> e, vehicle |-> v, fittedAt |-> date, unfittedAt |-> Open]}
  <2>1. /\ rows' = {IF a \in closed THEN Close(a, date) ELSE a : a \in rows} \cup new
        /\ contested' = contested \cup Overtaken(e, date) \cup Overtaken(v, date)
        /\ date \in Dates /\ e \in Devices /\ v \in Vehicles /\ request[r] # NoRequest
    BY <1>4, Carries DEF FitCommit, Commit, NoRequest, HistoryInv
  <2>2. closed \in SUBSET rows /\ \A a \in closed : IsOpen(a)
    OBVIOUS
  <2>3. new \in SUBSET Row
    BY <2>1 DEF Row
  <2>4. /\ \A a \in new : IsOpen(a) /\ a.fittedAt = date /\ a.device = e /\ a.vehicle = v
        /\ \A a \in new, b \in new : a = b
    BY DEF IsOpen
  <2>5. \A a \in new, b \in rows \ closed : \A x : IsOpen(b) => ~BothOf(x, a, b)
    BY <2>4 DEF BothOf, Displaced
  <2> HIDE DEF closed, new, date, e, v
  <2>6. /\ contested \subseteq contested'
        /\ \A a \in new : \A x \in {a.device, a.vehicle} : Overtaken(x, date) \subseteq contested'
    BY <2>1, <2>4
  <2>7. /\ IsFiniteSet(rows') /\ OneOpen' /\ Disjoint'
        /\ \A d \in Devices, t \in Time : t < date => VehicleAt(d, t)' = VehicleAt(d, t)
    BY <2>1, <2>2, <2>3, <2>4, <2>5, <2>6, Committed
  <2>8. \A t : Settled(t) => t < date
    BY <2>1 DEF Settled, date
  <2> QED BY <2>7, <2>8 DEF HistoryInv
<1>5. CASE UNCHANGED vars
  BY <1>1, <1>5 DEF vars
<1> QED
  BY <1>2, <1>3, <1>4, <1>5 DEF Next

LEMMA HistoryInvariant == Spec => []HistoryInv
<1>1. Init => HistoryInv
  BY HistoryAssumption, FS_EmptySet DEF Init, HistoryInv, TypeOK, OneOpen, Disjoint, Time
<1>2. HistoryInv /\ TypeOK' /\ [Next]_vars => HistoryInv'
  BY HistoryStep
<1> QED
  BY <1>1, <1>2, HistoryTypes, PTL DEF Spec

\* A vehicle carries one device at every moment for which no Fit to it came late,
\* whatever dates the requests give and in whatever order they commit.
THEOREM OneDevice == Spec => []OneDeviceAtATime
<1>1. HistoryInv => OneDeviceAtATime
  BY DEF HistoryInv, Disjoint, BothOf, OneDeviceAtATime
<1> QED
  BY <1>1, HistoryInvariant, PTL

\* A device is on one vehicle at every moment for which no Fit of it came late.
THEOREM OneVehicle == Spec => []OneVehicleAtATime
<1>1. HistoryInv => OneVehicleAtATime
  BY DEF HistoryInv, Disjoint, BothOf, OneVehicleAtATime, VehicleAt
<1> QED
  BY <1>1, HistoryInvariant, PTL

\* When each date is the clock's, what is settled stays settled and no step changes
\* whom its positions belong to, however many requests are under way.
THEOREM ThePastStands == ASSUME ~Backdating PROVE Spec => PastStands
<1>1. ASSUME HistoryInv, TypeOK', [Next]_vars, NEW t \in Time, Settled(t) PROVE Settled(t)'
  <2> USE HistoryAssumption
  <2>0. now \in Int /\ t \in Int /\ t < now /\ request \in [Requests -> {NoRequest} \cup FitRequest \cup UnfitRequest]
        /\ \A r \in Requests : request[r] # NoRequest => t < request[r].at
    BY <1>1 DEF HistoryInv, TypeOK, Time, Settled
  <2> DEFINE Dated(req) == req # NoRequest => t < req.at
  <2>1. CASE Tick \/ UNCHANGED vars
    <3>1. request' = request /\ t < now'
      BY <2>0, <2>1 DEF Tick, vars
    <3> QED BY <2>0, <3>1 DEF Settled
  <2>2. ASSUME NEW r \in Requests, NEW req, request' = [request EXCEPT ![r] = req], now' = now,
               Dated(req)
        PROVE  Settled(t)'
    <3>1. \A q \in Requests : request'[q] = IF q = r THEN req ELSE request[q]
      BY <2>0, <2>2
    <3> QED BY <2>0, <2>2, <3>1 DEF Settled
  <2>3. ASSUME NEW r \in Requests, FitCommit(r) \/ UnfitCommit(r) \/ Refused(r) PROVE Settled(t)'
    <3>1. request' = [request EXCEPT ![r] = NoRequest] /\ now' = now
      BY <2>3 DEF FitCommit, UnfitCommit, Commit, Refused
    <3> QED BY <2>2, <3>1
  <2>4. ASSUME NEW r \in Requests, NEW d \in Devices, UnfitBegin(r, d) PROVE Settled(t)'
    <3>1. request' = [request EXCEPT ![r] = [op |-> "unfit", device |-> d, at |-> now]] /\ now' = now
      BY <2>4 DEF UnfitBegin, Begin, DatesFor
    <3> QED BY <2>0, <2>2, <3>1
  <2>5. ASSUME NEW r \in Requests, NEW d \in Devices, NEW v \in Vehicles, FitBegin(r, d, v)
        PROVE  Settled(t)'
    <3>1. request' = [request EXCEPT ![r] = [op |-> "fit", device |-> d, vehicle |-> v, at |-> now]]
          /\ now' = now
      BY <2>5 DEF FitBegin, Begin, DatesFor
    <3> QED BY <2>0, <2>2, <3>1
  <2> QED
    BY <1>1, <2>1, <2>3, <2>4, <2>5 DEF Next, Others
<1>2. HistoryInv /\ TypeOK' /\ [Next]_vars =>
        [\A t \in Time : Settled(t) =>
           Settled(t)' /\ \A d \in Devices : VehicleAt(d, t)' = VehicleAt(d, t)]_vars
  BY <1>1, HistoryStep
<1> QED
  BY <1>2, HistoryInvariant, HistoryTypes, PTL DEF Spec, PastStands

-----------------------------------------------------------------------------
(***************************************************************************)
(* One request at a time, dated by the clock: what is written is no later  *)
(* than the date of the request under way, so no Fit comes late and the    *)
(* theorems above are about every moment.                                  *)
(***************************************************************************)
Written == UNION {{a.fittedAt, a.unfittedAt} \ {Open} : a \in rows}

OrderInv ==
  /\ TypeOK /\ InOrder
  /\ \A date \in Written : date <= now
  /\ \A r \in Requests : request[r] # NoRequest =>
       request[r].at <= now /\ \A date \in Written : date <= request[r].at

THEOREM OneRequestInOrder ==
  ASSUME ~Backdating, \A r, s \in Requests : r = s
  PROVE  Spec => []InOrder
<1> USE HistoryAssumption
<1>1. Init => OrderInv
  BY DEF Init, OrderInv, TypeOK, InOrder, Written, Time
<1>2. OrderInv /\ TypeOK' /\ [Next]_vars => OrderInv'
  <2> SUFFICES ASSUME OrderInv, TypeOK', [Next]_vars PROVE OrderInv'
    OBVIOUS
  <2>0. /\ now \in Int /\ request \in [Requests -> {NoRequest} \cup FitRequest \cup UnfitRequest]
        /\ Written \subseteq Int /\ \A a \in rows : a \in Row
    BY DEF OrderInv, TypeOK, Time, Written, Row, Dates, Open
  <2>1. CASE Tick \/ UNCHANGED vars
    <3>1. rows' = rows /\ contested' = contested /\ request' = request /\ now <= now' /\ now' \in Int
      BY <2>0, <2>1 DEF Tick, vars
    <3>2. \A r \in Requests : request[r] # NoRequest => request[r].at \in Int
      BY Carries DEF OrderInv, Dates
    <3>3. Written' = Written /\ InOrder'
      BY <3>1 DEF Written, InOrder, OrderInv
    <3> QED
      BY <2>0, <3>1, <3>2, <3>3 DEF OrderInv
  <2>2. ASSUME NEW r \in Requests, NEW req, req = NoRequest \/ req.at = now, rows' = rows,
               contested' = contested, now' = now, request' = [request EXCEPT ![r] = req]
        PROVE  OrderInv'
    <3>1. \A q \in Requests : request'[q] = req
      BY <2>0, <2>2
    <3>2. Written' = Written /\ InOrder'
      BY <2>2 DEF Written, InOrder, OrderInv
    <3> QED
      BY <2>0, <2>2, <3>1, <3>2 DEF OrderInv
  <2>3. ASSUME NEW r \in Requests, Refused(r) PROVE OrderInv'
    BY <2>2, <2>3 DEF Refused
  <2>4. ASSUME NEW r \in Requests, NEW d \in Devices, UnfitBegin(r, d) PROVE OrderInv'
    <3>1. request' = [request EXCEPT ![r] = [op |-> "unfit", device |-> d, at |-> now]]
      BY <2>4 DEF UnfitBegin, Begin, DatesFor
    <3> QED BY <2>2, <2>4, <3>1 DEF UnfitBegin, Begin
  <2>5. ASSUME NEW r \in Requests, NEW d \in Devices, NEW v \in Vehicles, FitBegin(r, d, v)
        PROVE  OrderInv'
    <3>1. request' = [request EXCEPT ![r] = [op |-> "fit", device |-> d, vehicle |-> v, at |-> now]]
      BY <2>5 DEF FitBegin, Begin, DatesFor
    <3> QED BY <2>2, <2>5, <3>1 DEF FitBegin, Begin
  <2>6. ASSUME NEW r \in Requests, request[r] # NoRequest, NEW closed \in SUBSET rows,
               NEW new, NEW shortcuts,
               \A a \in new : a.fittedAt = request[r].at /\ IsOpen(a),
               Commit(r, closed, new, shortcuts), contested' = {}
        PROVE  OrderInv'
    <3>1. /\ request' = [request EXCEPT ![r] = NoRequest] /\ now' = now
          /\ rows' = {IF a \in closed THEN Close(a, request[r].at) ELSE a : a \in rows} \cup new
      BY <2>6 DEF Commit
    <3>2. \A q \in Requests : request'[q] = NoRequest
      BY <2>0, <3>1
    <3>3. request[r].at <= now /\ \A date \in Written : date <= now
      BY <2>6 DEF OrderInv
    <3>4. Written' \subseteq Written \cup {request[r].at}
      <4> SUFFICES ASSUME NEW b \in rows', NEW date \in {b.fittedAt, b.unfittedAt} \ {Open}
                   PROVE  date \in Written \cup {request[r].at}
        BY DEF Written
      <4>1. CASE b \in new
        BY <2>6, <4>1 DEF IsOpen
      <4>2. ASSUME NEW a \in rows, b = Close(a, request[r].at) PROVE date \in Written \cup {request[r].at}
        <5>1. b.fittedAt = a.fittedAt /\ b.unfittedAt = request[r].at
          BY <2>0, <4>2 DEF Close, Row
        <5> QED BY <5>1 DEF Written
      <4>3. CASE b \in rows
        BY <4>3 DEF Written
      <4> QED BY <3>1, <4>1, <4>2, <4>3
    <3> QED
      BY <2>6, <3>1, <3>2, <3>3, <3>4 DEF OrderInv, InOrder
  <2>7. ASSUME NEW r \in Requests, UnfitCommit(r) PROVE OrderInv'
    <3>1. request[r] # NoRequest /\ contested' = {}
      BY <2>7 DEF UnfitCommit, NoRequest, OrderInv, InOrder
    <3>2. PICK closed \in SUBSET rows : Commit(r, closed, {}, Cleared(request[r].device))
      BY <2>7 DEF UnfitCommit
    <3> QED BY <2>6, <3>1, <3>2
  <2>8. ASSUME NEW r \in Requests, FitCommit(r) PROVE OrderInv'
    <3> DEFINE e == request[r].device
               v == request[r].vehicle
               new == {[device |-> e, vehicle |-> v, fittedAt |-> request[r].at, unfittedAt |-> Open]}
    <3>1. /\ request[r] # NoRequest
          /\ Commit(r, {a \in rows : IsOpen(a) /\ Displaced(a, e, v)}, new, Moved(e, v))
          /\ contested' = contested \cup Overtaken(e, request[r].at) \cup Overtaken(v, request[r].at)
      BY <2>8 DEF FitCommit, NoRequest
    <3>2. \A a \in new : a.fittedAt = request[r].at /\ IsOpen(a)
      BY DEF IsOpen
    <3>3. request[r].at \in Int /\ \A date \in Written : date <= request[r].at
      BY <3>1, Carries DEF OrderInv, Dates
    <3>4. ASSUME NEW x PROVE Overtaken(x, request[r].at) = {}
      <4> SUFFICES ASSUME NEW p \in Overtaken(x, request[r].at) PROVE FALSE
        OBVIOUS
      <4>1. PICK date \in DatesOf(x) : request[r].at <= p[2] /\ p[2] < date
        BY DEF Overtaken
      <4>2. p[2] \in Int
        BY DEF Overtaken, Dates
      <4>3. date \in Written
        BY <4>1 DEF DatesOf, Written
      <4> QED BY <2>0, <3>3, <4>1, <4>2, <4>3
    <3>5. contested' = {}
      BY <3>1, <3>4 DEF OrderInv, InOrder
    <3> HIDE DEF new, e, v
    <3> QED BY <2>6, <3>1, <3>2, <3>5
  <2> QED
    BY <2>1, <2>3, <2>4, <2>5, <2>7, <2>8 DEF Next, Others
<1>3. OrderInv => InOrder
  BY DEF OrderInv
<1> QED
  BY <1>1, <1>2, <1>3, HistoryTypes, PTL DEF Spec

-----------------------------------------------------------------------------
(***************************************************************************)
(* The questions.  Whatever rows there are and in whatever order the       *)
(* cursor returns them, the answer of IMEIsAt is the device of a covering  *)
(* row: it is so after the first row, and no turn of the loop brings in    *)
(* another device.                                                         *)
(***************************************************************************)
\* The least of some numbers.
LEMMA Least ==
  ASSUME NEW T, T \subseteq Nat, T # {}
  PROVE  \E m \in T : \A k \in T : m <= k
<1>1. PICK m \in T : \A k \in T : ~(<<k, m>> \in OpToRel(<, Nat))
  BY NatLessThanWellFounded, WFMin
<1>2. ASSUME NEW k \in T PROVE m <= k
  <2>1. ~(k < m)
    BY <1>1 DEF OpToRel
  <2> QED BY <2>1
<1> QED
  BY <1>2

LEMMA AnswerIsCarried ==
  ASSUME IsFiniteSet(rows), NEW v, NEW t
  PROVE  IMEIsAt(v, t) \subseteq {a.device : a \in Carried(v, t)}
<1> DEFINE C == Carried(v, t)
           n == Cardinality(C)
<1>1. C \in SUBSET rows
  BY DEF Carried
<1>2. n \in Nat
  <2>1. IsFiniteSet(C)
    BY <1>1, FS_Subset
  <2> QED BY <2>1, FS_CardinalityType
<1> SUFFICES ASSUME NEW d \in IMEIsAt(v, t) PROVE d \in {a.device : a \in C}
  OBVIOUS
<1>3. PICK cursor \in Cursors(C), out \in [1 .. n -> Devices] :
        /\ n > 0 /\ out[1] = cursor[1].device
        /\ \A i \in 2 .. n : out[i] \in Turn(v, out[i - 1], cursor[i])
        /\ d = out[n]
  BY DEF IMEIsAt
<1>4. cursor \in [1 .. n -> C]
  BY DEF Cursors
<1> DEFINE Carrying == {a.device : a \in C}
           Strays == {i \in 1 .. n : out[i] \notin Carrying}
<1> HIDE DEF C, n
<1>5. Strays = {}
  <2> SUFFICES ASSUME Strays # {} PROVE FALSE
    OBVIOUS
  <2>1. Strays \subseteq Nat
    BY <1>2
  <2>2. PICK m \in Strays : \A k \in Strays : m <= k
    BY <2>1, Least
  <2>3. m \in 1 .. n /\ out[m] \notin Carrying
    OBVIOUS
  <2>4. cursor[m] \in C /\ cursor[m].device \in Carrying
    BY <1>4, <2>3
  <2>5. m # 1
    BY <1>3, <2>3, <2>4
  <2>6. m \in 2 .. n /\ m - 1 \in 1 .. n /\ m - 1 \notin Strays
    BY <1>2, <2>2, <2>3, <2>5
  <2>7. out[m - 1] \in Carrying
    BY <2>6
  <2>8. out[m] \in Turn(v, out[m - 1], cursor[m])
    BY <1>3, <2>6
  <2>9. out[m] \in {out[m - 1], cursor[m].device}
    BY <2>8 DEF Turn
  <2> QED
    BY <2>3, <2>4, <2>7, <2>9
<1>6. n \in 1 .. n
  BY <1>2, <1>3
<1> QED
  BY <1>3, <1>5, <1>6

\* One covering row, and the order of the cursor is nothing to the loop.
LEMMA OneTurn ==
  ASSUME HistoryInv, NEW v, NEW t, \A a, b \in Carried(v, t) : a = b
  PROVE  IMEIsAt(v, t) = {a.device : a \in Carried(v, t)}
<1>1. IMEIsAt(v, t) \subseteq {a.device : a \in Carried(v, t)}
  BY AnswerIsCarried DEF HistoryInv
<1>2. ASSUME NEW a \in Carried(v, t) PROVE a.device \in IMEIsAt(v, t)
  <2>1. Carried(v, t) = {a}
    OBVIOUS
  <2>2. Cardinality(Carried(v, t)) = 1
    BY <2>1, FS_Singleton
  <2>3. a.device \in Devices
    BY DEF Carried, HistoryInv, TypeOK, Row
  <2> DEFINE cursor == [i \in 1 .. 1 |-> a]
             out == [i \in 1 .. 1 |-> a.device]
  <2>4. cursor \in Cursors(Carried(v, t))
    BY <2>1, <2>2 DEF Cursors
  <2>5. out \in [1 .. 1 -> Devices] /\ out[1] = cursor[1].device /\ a.device = out[1]
    BY <2>3
  <2>6. \A i \in 2 .. 1 : out[i] \in Turn(v, out[i - 1], cursor[i])
    OBVIOUS
  <2> HIDE DEF cursor, out
  <2> QED
    BY <2>2, <2>3, <2>4, <2>5, <2>6 DEF IMEIsAt
<1> QED
  BY <1>1, <1>2

LEMMA OneCarried ==
  ASSUME HistoryInv, NEW v, NEW t \in Time, <<v, t>> \notin contested
  PROVE  /\ \A a, b \in Carried(v, t) : a = b
         /\ IMEIsAt(v, t) = {a.device : a \in Carried(v, t)}
<1>1. \A a, b \in Carried(v, t) : a = b
  BY DEF Carried, HistoryInv, Disjoint, BothOf
<1> QED
  BY <1>1, OneTurn

\* Where no Fit came late the device found on a vehicle is one that was on that
\* vehicle, and the other way round, in any history.
THEOREM TheQuestionsAgree == Spec => []QuestionsAgree
<1>1. HistoryInv => QuestionsAgree
  <2> SUFFICES ASSUME HistoryInv, NEW v \in Vehicles, NEW t \in Time, NEW d \in Devices,
                      <<d, t>> \notin contested, <<v, t>> \notin contested
               PROVE  IMEIsAt(v, t) = {d} <=> VehicleAt(d, t) = {v}
    BY DEF QuestionsAgree
  <2> DEFINE C == Carried(v, t)
             W == {b \in rows : b.device = d /\ Covers(b, t)}
  <2>1. (\A a, b \in C : a = b) /\ IMEIsAt(v, t) = {a.device : a \in C}
    BY OneCarried
  <2>2. (\A a, b \in W : a = b) /\ VehicleAt(d, t) = {a.vehicle : a \in W}
    BY DEF HistoryInv, Disjoint, BothOf, VehicleAt
  <2>3. \A a : a \in C /\ a.device = d <=> a \in W /\ a.vehicle = v
    BY DEF Carried
  <2> HIDE DEF C, W
  <2>4. ASSUME IMEIsAt(v, t) = {d} PROVE VehicleAt(d, t) = {v}
    <3>1. PICK a \in C : a.device = d
      BY <2>1, <2>4
    <3>2. a \in W /\ a.vehicle = v
      BY <2>3, <3>1
    <3> QED
      BY <2>2, <3>2
  <2>5. ASSUME VehicleAt(d, t) = {v} PROVE IMEIsAt(v, t) = {d}
    <3>1. PICK a \in W : a.vehicle = v
      BY <2>2, <2>5
    <3>2. a \in C /\ a.device = d
      BY <2>3, <3>1
    <3> QED
      BY <2>1, <3>2
  <2> QED
    BY <2>4, <2>5
<1> QED
  BY <1>1, HistoryInvariant, PTL

\* The periods of any window around a moment hold the device of the moment, in
\* any history, contested or not.
THEOREM ThePeriodsAreComplete == Spec => []PeriodsComplete
<1>1. HistoryInv => PeriodsComplete
  <2> SUFFICES ASSUME HistoryInv, NEW v \in Vehicles, NEW t \in Time,
                      NEW from \in 0 .. t, NEW to \in t .. MaxTime, NEW d \in IMEIsAt(v, t)
               PROVE  \E a \in PeriodsFor(v, from, to) : Covers(a, t) /\ a.device = d
    BY DEF PeriodsComplete
  <2>1. PICK a \in rows : a.vehicle = v /\ Covers(a, t) /\ a.device = d
    BY AnswerIsCarried DEF Carried, HistoryInv
  <2>2. a.fittedAt \in Int /\ a.unfittedAt \in Int /\ t \in Int
    BY HistoryAssumption DEF HistoryInv, TypeOK, Row, Time, Dates, Open
  <2>3. a \in PeriodsFor(v, from, to)
    BY <2>1, <2>2, HistoryAssumption DEF PeriodsFor, Covers
  <2> QED
    BY <2>1, <2>3
<1> QED
  BY <1>1, HistoryInvariant, PTL

-----------------------------------------------------------------------------
(***************************************************************************)
(* The listings.  Edits of vehicles write trackerId and nothing else the   *)
(* history has, so what is known of the rows holds beside them.            *)
(***************************************************************************)
EditTypes ==
  /\ copy \in [Editors -> {NoCopy} \cup (Vehicles \X SUBSET Devices)]
  /\ stale \subseteq Vehicles

\* A vehicle that is not stale names the device that is fitted to it.
ShortcutsTrue == \A v \in Vehicles \ stale : trackerId[v] = FittedOn(v)

RegisterInv == HistoryInv /\ EditTypes /\ ShortcutsTrue

\* What is open after a commit: the rows it has not closed, and the new.
LEMMA OpenAfter ==
  ASSUME TypeOK, NEW r \in Requests, request[r].at \in Dates,
         NEW closed \in SUBSET rows, \A a \in closed : IsOpen(a),
         NEW new, \A a \in new : IsOpen(a), NEW shortcuts, Commit(r, closed, new, shortcuts)
  PROVE  FittedNow' = (FittedNow \ closed) \cup new
<1>1. rows' = {IF a \in closed THEN Close(a, request[r].at) ELSE a : a \in rows} \cup new
  BY DEF Commit
<1>2. FittedNow' = {a \in rows' : IsOpen(a)}
  BY DEF FittedNow, IsOpen
<1>3. \A a \in closed : ~IsOpen(Close(a, request[r].at))
  BY Closing
<1> QED
  BY <1>1, <1>2, <1>3 DEF FittedNow

\* A Fit or an Unfit leaves true what the shortcuts say.
LEMMA ShortcutsStep ==
  ASSUME RegisterInv, Registering
  PROVE  ShortcutsTrue'
<1>0. TypeOK /\ ShortcutsTrue /\ trackerId \in [Vehicles -> SUBSET Devices]
  BY DEF RegisterInv, HistoryInv, TypeOK
<1>1. \A u : FittedOn(u)' = {a.device : a \in {b \in FittedNow' : b.vehicle = u}}
  BY DEF FittedOn
<1>2. CASE Others /\ UNCHANGED stale /\ ~\E r \in Requests : UnfitCommit(r)
  <2>1. rows' = rows /\ trackerId' = trackerId /\ stale' = stale
    BY <1>2 DEF Others, Tick, Refused, UnfitBegin, FitBegin, Begin
  <2> QED BY <1>0, <2>1 DEF ShortcutsTrue, FittedOn, FittedNow, IsOpen
<1>3. ASSUME NEW r \in Requests, UnfitCommit(r), UNCHANGED stale PROVE ShortcutsTrue'
  <2> DEFINE d == request[r].device
             closed == {a \in rows : IsOpen(a) /\ a.device = d}
             none == {}
  <2>1. Commit(r, closed, none, Cleared(d)) /\ request[r].at \in Dates
    BY <1>0, <1>3, Carries DEF UnfitCommit
  <2>2. /\ closed \in SUBSET rows /\ \A a \in closed : IsOpen(a)
        /\ \A a \in none : IsOpen(a)
        /\ FittedNow \ closed = {a \in FittedNow : a.device # d}
    BY DEF FittedNow
  <2>3. trackerId' = Cleared(d)
    BY <2>1 DEF Commit
  <2> HIDE DEF closed, none, d
  <2>4. FittedNow' = (FittedNow \ closed) \cup none
    BY <1>0, <2>1, <2>2, OpenAfter
  <2>5. ASSUME NEW u \in Vehicles \ stale' PROVE trackerId'[u] = FittedOn(u)'
    <3>1. trackerId'[u] = trackerId[u] \ {d} /\ trackerId[u] = FittedOn(u)
      BY <1>0, <1>3, <2>3 DEF Cleared, ShortcutsTrue
    <3>2. FittedNow' = {a \in FittedNow : a.device # d}
      BY <2>2, <2>4 DEF none
    <3> QED BY <1>1, <3>1, <3>2 DEF FittedOn
  <2> QED BY <2>5 DEF ShortcutsTrue
<1>4. ASSUME NEW r \in Requests, FitCommit(r), stale' = stale \ {request[r].vehicle}
      PROVE  ShortcutsTrue'
  <2> DEFINE d == request[r].device
             v == request[r].vehicle
             row == [device |-> d, vehicle |-> v, fittedAt |-> request[r].at, unfittedAt |-> Open]
             closed == {a \in rows : IsOpen(a) /\ Displaced(a, d, v)}
  <2>1. /\ Commit(r, closed, {row}, Moved(d, v)) /\ request[r].at \in Dates
        /\ d \in Devices /\ v \in Vehicles
    BY <1>0, <1>4, Carries DEF FitCommit
  <2>2. /\ closed \in SUBSET rows /\ \A a \in closed : IsOpen(a)
        /\ \A a \in {row} : IsOpen(a)
        /\ FittedNow \ closed = {a \in FittedNow : a.device # d /\ a.vehicle # v}
        /\ row.device = d /\ row.vehicle = v
    BY DEF FittedNow, Displaced, IsOpen
  <2>3. trackerId' = Moved(d, v)
    BY <2>1 DEF Commit
  <2>6. stale' = stale \ {v}
    BY <1>4
  <2> HIDE DEF closed, row, d, v
  <2>4. FittedNow' = (FittedNow \ closed) \cup {row}
    BY <1>0, <2>1, <2>2, OpenAfter
  <2>5. ASSUME NEW u \in Vehicles \ stale' PROVE trackerId'[u] = FittedOn(u)'
    <3>1. CASE u = v
      <4>1. trackerId'[u] = {d}
        BY <2>1, <2>3, <3>1 DEF Moved, Cleared
      <4>2. {b \in FittedNow' : b.vehicle = u} = {row}
        BY <2>2, <2>4, <3>1
      <4> QED BY <1>1, <2>2, <4>1, <4>2
    <3>2. CASE u # v
      <4>1. trackerId'[u] = trackerId[u] \ {d} /\ trackerId[u] = FittedOn(u)
        BY <1>0, <2>1, <2>3, <2>6, <3>2 DEF Moved, Cleared, ShortcutsTrue
      <4>2. {b \in FittedNow' : b.vehicle = u} = {b \in FittedNow : b.vehicle = u /\ b.device # d}
        BY <2>2, <2>4, <3>2
      <4> QED BY <1>1, <4>1, <4>2 DEF FittedOn
    <3> QED BY <3>1, <3>2
  <2> QED BY <2>5 DEF ShortcutsTrue
<1> QED
  BY <1>2, <1>3, <1>4 DEF Registering, Others

LEMMA RegisterStep ==
  ASSUME RegisterInv, [ViewNext]_viewVars
  PROVE  RegisterInv'
<1>0. TypeOK /\ HistoryInv /\ EditTypes /\ ShortcutsTrue
  BY DEF RegisterInv, HistoryInv
<1>1. ASSUME UNCHANGED <<now, rows, request, fits, contested>>,
             trackerId' \in [Vehicles -> SUBSET Devices]
      PROVE  HistoryInv'
  BY <1>0, <1>1 DEF HistoryInv, TypeOK, OneOpen, Disjoint, BothOf, Covers, IsOpen
<1>2. CASE Registering /\ UNCHANGED <<copy, reader>>
  <2>1. Next /\ stale' \subseteq Vehicles /\ copy' = copy
    BY <1>0, <1>2 DEF Registering, Next, EditTypes
  <2>2. TypeOK'
    BY <1>0, <2>1, TypesStep
  <2>3. HistoryInv'
    BY <1>0, <2>1, <2>2, HistoryStep
  <2> QED
    BY <1>0, <1>2, <2>1, <2>3, ShortcutsStep DEF RegisterInv, EditTypes
<1>3. CASE Listings \/ UNCHANGED viewVars
  <2>1. UNCHANGED vars /\ UNCHANGED edits
    BY <1>3 DEF Listings, LookTrucks, LookVehicles, LookTrackers, Look, Clock, WithDevices,
                ResolveVehicles, ResolveTrackers, Answer, Read, viewVars, vars, edits
  <2>2. /\ now' = now /\ rows' = rows /\ trackerId' = trackerId /\ request' = request
        /\ fits' = fits /\ contested' = contested /\ copy' = copy /\ stale' = stale
    BY <2>1 DEF vars, edits
  <2>3. HistoryInv'
    BY <1>0, <1>1, <2>2 DEF TypeOK
  <2> QED
    BY <1>0, <2>2, <2>3 DEF RegisterInv, EditTypes, ShortcutsTrue, FittedOn, FittedNow, IsOpen
<1>4. ASSUME NEW e \in Editors, NEW v \in Vehicles, UpdateVehicleRead(e, v) PROVE RegisterInv'
  <2>1. /\ now' = now /\ rows' = rows /\ trackerId' = trackerId /\ request' = request
        /\ fits' = fits /\ contested' = contested /\ stale' = stale
        /\ copy' = [copy EXCEPT ![e] = <<v, trackerId[v]>>]
    BY <1>4 DEF UpdateVehicleRead, vars
  <2>2. <<v, trackerId[v]>> \in Vehicles \X SUBSET Devices
    BY <1>0 DEF TypeOK
  <2>3. HistoryInv'
    BY <1>0, <1>1, <2>1 DEF TypeOK
  <2>4. EditTypes'
    BY <1>0, <2>1, <2>2 DEF EditTypes
  <2> QED
    BY <1>0, <2>1, <2>3, <2>4 DEF RegisterInv, ShortcutsTrue, FittedOn, FittedNow, IsOpen
<1>5. ASSUME NEW e \in Editors, UpdateVehicleFails(e) PROVE RegisterInv'
  <2>1. /\ now' = now /\ rows' = rows /\ trackerId' = trackerId /\ request' = request
        /\ fits' = fits /\ contested' = contested /\ stale' = stale
        /\ copy' = [copy EXCEPT ![e] = NoCopy]
    BY <1>5 DEF UpdateVehicleFails, vars
  <2>3. HistoryInv'
    BY <1>0, <1>1, <2>1 DEF TypeOK
  <2>4. EditTypes'
    BY <1>0, <2>1 DEF EditTypes
  <2> QED
    BY <1>0, <2>1, <2>3, <2>4 DEF RegisterInv, ShortcutsTrue, FittedOn, FittedNow, IsOpen
<1>6. ASSUME NEW e \in Editors, UpdateVehicleReplace(e) PROVE RegisterInv'
  <2>1. copy[e] \in Vehicles \X SUBSET Devices
    BY <1>0, <1>6 DEF UpdateVehicleReplace, EditTypes
  <2>2. PICK v \in Vehicles, device \in SUBSET Devices : copy[e] = <<v, device>>
    BY <2>1
  <2>3. /\ now' = now /\ rows' = rows /\ request' = request /\ fits' = fits /\ contested' = contested
        /\ copy' = [copy EXCEPT ![e] = NoCopy]
        /\ trackerId' = [trackerId EXCEPT ![v] = device]
        /\ stale' = IF device = trackerId[v] THEN stale ELSE stale \cup {v}
    BY <1>6, <2>2 DEF UpdateVehicleReplace
  <2>4. HistoryInv'
    <3>1. trackerId' \in [Vehicles -> SUBSET Devices]
      BY <1>0, <2>3 DEF TypeOK
    <3> QED BY <1>1, <2>3, <3>1
  <2>5. EditTypes'
    BY <1>0, <2>3 DEF EditTypes
  <2>6. ASSUME NEW u \in Vehicles \ stale' PROVE trackerId'[u] = FittedOn(u)'
    <3>1. u \notin stale /\ trackerId'[u] = trackerId[u]
      BY <1>0, <2>3 DEF TypeOK
    <3>2. FittedOn(u)' = FittedOn(u)
      BY <2>3 DEF FittedOn, FittedNow, IsOpen
    <3> QED BY <1>0, <3>1, <3>2 DEF ShortcutsTrue
  <2> QED
    BY <2>4, <2>5, <2>6 DEF RegisterInv, ShortcutsTrue
<1> QED
  BY <1>2, <1>3, <1>4, <1>5, <1>6 DEF ViewNext, Edits

LEMMA RegisterInvariant == ViewSpec => []RegisterInv
<1>1. ViewInit => RegisterInv
  BY HistoryAssumption, FS_EmptySet
     DEF ViewInit, Init, RegisterInv, HistoryInv, TypeOK, OneOpen, Disjoint, Time, EditTypes,
         ShortcutsTrue, FittedOn, FittedNow
<1>2. RegisterInv /\ [ViewNext]_viewVars => RegisterInv'
  BY RegisterStep
<1> QED
  BY <1>1, <1>2, PTL DEF ViewSpec

-----------------------------------------------------------------------------
\* ListVehicles carries what its first statement found to its answer, and two
\* vehicles carried nothing in common then.
ListInv ==
  op = "ListVehicles" =>
    /\ step = "query" =>
         \A p \in page : p[1] \in DOMAIN carried => p[2] = carried[p[1]]
    /\ \A u, v \in DOMAIN carried : carried[u] \cap carried[v] # {} => u = v
    /\ step # "clock"
    /\ step = "answered" => ListsWhatIsFitted

\* Nothing but the steps of a listing changes what it holds.
LEMMA ListStays ==
  ASSUME ListInv, UNCHANGED reader
  PROVE  ListInv'
<1>1. /\ step' = step /\ op' = op /\ page' = page /\ answer' = answer /\ carried' = carried
  BY DEF reader
<1> QED
  BY <1>1 DEF ListInv, ListsWhatIsFitted

\* Of a vehicle that no edit has given an outdated copy ListVehicles shows the
\* device that was fitted when it looked, while fittings and edits go on, whatever
\* their dates and however many are under way.
THEOREM ListedAsFitted == ViewSpec => []ListsWhatIsFitted
<1>1. ViewInit => ListInv
  BY DEF ViewInit, ListInv
<1>2. RegisterInv /\ ListInv /\ [ViewNext]_viewVars => ListInv'
  <2> SUFFICES ASSUME RegisterInv, ListInv, [ViewNext]_viewVars PROVE ListInv'
    OBVIOUS
  <2>1. CASE LookVehicles
    <3>1. PICK found \in SUBSET Vehicles : Look("ListVehicles", {<<v, trackerId[v]>> : v \in found}, "query")
      BY <2>1 DEF LookVehicles
    <3>2. /\ step' = "query" /\ page' = {<<v, trackerId[v]>> : v \in found}
          /\ carried' = [v \in Vehicles \ stale |-> FittedOn(v)]
      BY <2>1, <3>1 DEF LookVehicles, Look
    <3>3. \A p \in page' : p[1] \in DOMAIN carried' => p[2] = carried'[p[1]]
      BY <3>2 DEF RegisterInv, ShortcutsTrue
    <3>4. \A u, v \in DOMAIN carried' : carried'[u] \cap carried'[v] # {} => u = v
      <4> SUFFICES ASSUME NEW u, NEW v, NEW d, d \in FittedOn(u), d \in FittedOn(v) PROVE u = v
        BY <3>2
      <4> QED
        BY DEF FittedOn, FittedNow, RegisterInv, HistoryInv, OneOpen, BothOf
    <3> QED
      BY <3>2, <3>3, <3>4 DEF ListInv
  <2>2. CASE LookTrucks \/ LookTrackers
    BY <2>2 DEF LookTrucks, LookTrackers, Look, ListInv
  <2>3. CASE Clock \/ Read
    BY <2>3 DEF Clock, Read, ListInv
  <2>4. CASE WithDevices \/ ResolveTrackers
    BY <2>4 DEF WithDevices, ResolveTrackers, TruckListings, Answer, ListInv
  <2>5. CASE ResolveVehicles
    <3>1. PICK messages : /\ Answer(messages)
                          /\ \/ messages = {VehicleView(p[1], p[2]) : p \in page}
                             \/ messages = {VehicleView(p[1], {}) : p \in page}
      BY <2>5 DEF ResolveVehicles
    <3>2. /\ op = "ListVehicles" /\ op' = op /\ answer' = messages /\ step = "query"
          /\ carried' = carried /\ step' = "answered"
      BY <2>5, <3>1 DEF ResolveVehicles, Answer
    <3>3. ASSUME NEW m \in messages, m.id \in DOMAIN carried PROVE m.tracker \in {carried[m.id], {}}
      <4>1. PICK p \in page : m = VehicleView(p[1], p[2]) \/ m = VehicleView(p[1], {})
        BY <3>1, <3>3
      <4> QED
        BY <3>2, <3>3, <4>1 DEF VehicleView, ListInv
    <3>4. ASSUME NEW m \in messages, NEW n \in messages, m.id \in DOMAIN carried,
                 n.id \in DOMAIN carried, m.tracker \cap n.tracker # {}
          PROVE  m.id = n.id
      <4>1. m.tracker = carried[m.id] /\ n.tracker = carried[n.id]
        BY <3>3, <3>4
      <4> QED
        BY <3>2, <3>4, <4>1 DEF ListInv
    <3>5. ListsWhatIsFitted'
      BY <3>2, <3>3, <3>4 DEF ListsWhatIsFitted
    <3> QED
      BY <3>2, <3>5 DEF ListInv
  <2>6. CASE Edits \/ (Registering /\ UNCHANGED <<copy, reader>>) \/ UNCHANGED viewVars
    <3>1. UNCHANGED reader
      BY <2>6 DEF Edits, UpdateVehicleRead, UpdateVehicleReplace, UpdateVehicleFails, viewVars, reader
    <3> QED BY <3>1, ListStays
  <2> QED
    BY <2>1, <2>2, <2>3, <2>4, <2>5, <2>6 DEF ViewNext, Listings
<1>3. ListInv => ListsWhatIsFitted
  BY DEF ListInv, ListsWhatIsFitted
<1> QED
  BY <1>1, <1>2, <1>3, RegisterInvariant, PTL DEF ViewSpec
-----------------------------------------------------------------------------
\* What a message shows is what was put into it, or nothing.
LEMMA GetSent ==
  ASSUME NEW type, NEW m, NEW f \in DOMAIN m
  PROVE  Get(type, Sent(type, m), f) \in {m[f], type[f]}
BY DEF Get, Sent

LEMMA TruckShows ==
  ASSUME NEW v, NEW imei
  PROVE  LET m == toProtoTruck(VehicleDoc(v), imei)
         IN Get(Truck, m, "id") \in {v, Text} /\ Get(Truck, m, "imei") \in {imei, Text}
<1> DEFINE doc == VehicleDoc(v)
<1>1. doc.id = v
  BY DEF VehicleDoc, Whole
<1> HIDE DEF doc
<1>2. PICK m : /\ toProtoTruck(doc, imei) = Sent(Truck, m)
               /\ {"id", "imei"} \subseteq DOMAIN m /\ m["id"] = doc.id /\ m["imei"] = imei
  BY DEF toProtoTruck
<1>3. Truck["id"] = Text /\ Truck["imei"] = Text
  BY DEF Truck
<1>4. /\ Get(Truck, Sent(Truck, m), "id") \in {v, Text}
      /\ Get(Truck, Sent(Truck, m), "imei") \in {imei, Text}
  BY <1>1, <1>2, <1>3, GetSent
<1> QED
  BY <1>2, <1>4 DEF doc

LEMMA TrackerShows ==
  ASSUME NEW d, NEW vehicle, NEW date
  PROVE  LET m == toProtoTracker(TrackerDoc(d), vehicle, date)
         IN /\ Get(Tracker, m, "device_id") \in {d, Text}
            /\ Get(Tracker, m, "current_vehicle_id") \in {deref(vehicle), Text}
<1> DEFINE doc == TrackerDoc(d)
<1>1. doc.deviceId = d
  BY DEF TrackerDoc, Whole
<1> HIDE DEF doc
<1>2. PICK m : /\ toProtoTracker(doc, vehicle, date) = Sent(Tracker, m)
               /\ {"device_id", "current_vehicle_id"} \subseteq DOMAIN m
               /\ m["device_id"] = doc.deviceId /\ m["current_vehicle_id"] = deref(vehicle)
  BY DEF toProtoTracker
<1>3. Tracker["device_id"] = Text /\ Tracker["current_vehicle_id"] = Text
  BY DEF Tracker
<1>4. /\ Get(Tracker, Sent(Tracker, m), "device_id") \in {d, Text}
      /\ Get(Tracker, Sent(Tracker, m), "current_vehicle_id") \in {deref(vehicle), Text}
  BY <1>1, <1>2, <1>3, GetSent
<1> QED
  BY <1>2, <1>4 DEF doc

\* With the clock's dates nothing is dated after the clock, and the moment a
\* listing of trucks asks about lies between its first statement and its last.
DatesPast ==
  /\ \A a \in rows : a.fittedAt <= now
  /\ \A r \in Requests : request[r] # NoRequest => request[r].at <= now

ReaderInv ==
  /\ since \in Nat /\ since <= now
  /\ step = "clock" => op \in TruckListings
  /\ step = "query" /\ op \in TruckListings => at \in since .. now

LEMMA DatesStep ==
  ASSUME ~Backdating, HistoryInv, HistoryInv', DatesPast, Next
  PROVE  DatesPast' /\ now <= now'
<1> USE HistoryAssumption
<1>0. /\ TypeOK /\ TypeOK' /\ now \in Int /\ now' \in Int
      /\ request \in [Requests -> {NoRequest} \cup FitRequest \cup UnfitRequest]
      /\ \A a \in rows : a.fittedAt \in Int
      /\ \A r \in Requests : request[r] # NoRequest => request[r].at \in Int
  BY Carries DEF HistoryInv, TypeOK, Time, Row, Dates
<1>1. CASE Tick
  BY <1>0, <1>1 DEF Tick, DatesPast
<1>2. ASSUME NEW r \in Requests, NEW req, req.at = now, Begin(r, req) PROVE DatesPast' /\ now <= now'
  BY <1>0, <1>2 DEF Begin, DatesPast
<1>3. ASSUME NEW r \in Requests, NEW d \in Devices, UnfitBegin(r, d) PROVE DatesPast' /\ now <= now'
  <2>1. Begin(r, [op |-> "unfit", device |-> d, at |-> now])
    BY <1>3 DEF UnfitBegin, DatesFor
  <2> QED BY <1>2, <2>1
<1>4. ASSUME NEW r \in Requests, NEW d \in Devices, NEW v \in Vehicles, FitBegin(r, d, v)
      PROVE  DatesPast' /\ now <= now'
  <2>1. Begin(r, [op |-> "fit", device |-> d, vehicle |-> v, at |-> now])
    BY <1>4 DEF FitBegin, DatesFor
  <2> QED BY <1>2, <2>1
<1>5. ASSUME NEW r \in Requests, Refused(r) PROVE DatesPast' /\ now <= now'
  BY <1>0, <1>5 DEF Refused, DatesPast
<1>6. ASSUME NEW r \in Requests, NEW closed, NEW new, NEW shortcuts,
             Commit(r, closed, new, shortcuts), \A a \in new : a.fittedAt <= now
      PROVE  DatesPast' /\ now <= now'
  <2>1. /\ now' = now /\ request' = [request EXCEPT ![r] = NoRequest]
        /\ rows' = {IF a \in closed THEN Close(a, request[r].at) ELSE a : a \in rows} \cup new
    BY <1>6 DEF Commit
  <2>2. \A a \in rows : Close(a, request[r].at).fittedAt = a.fittedAt
    BY <1>0 DEF Close, TypeOK, Row
  <2>3. \A a \in rows' : a.fittedAt <= now
    BY <1>6, <2>1, <2>2 DEF DatesPast
  <2> QED BY <1>0, <2>1, <2>3 DEF DatesPast
<1>7. ASSUME NEW r \in Requests, UnfitCommit(r) PROVE DatesPast' /\ now <= now'
  <2>1. \E closed : Commit(r, closed, {}, Cleared(request[r].device))
    BY <1>7 DEF UnfitCommit
  <2> QED BY <1>6, <2>1
<1>8. ASSUME NEW r \in Requests, FitCommit(r) PROVE DatesPast' /\ now <= now'
  <2> DEFINE new == {[device |-> request[r].device, vehicle |-> request[r].vehicle,
                      fittedAt |-> request[r].at, unfittedAt |-> Open]}
  <2>1. \E closed, shortcuts : Commit(r, closed, new, shortcuts)
    BY <1>8 DEF FitCommit
  <2>2. \A a \in new : a.fittedAt <= now
    BY <1>8 DEF FitCommit, NoRequest, DatesPast
  <2> HIDE DEF new
  <2> QED BY <1>6, <2>1, <2>2
<1> QED
  BY <1>1, <1>3, <1>4, <1>5, <1>7, <1>8 DEF Next, Others

LEMMA ReaderStep ==
  ASSUME ~Backdating, RegisterInv, RegisterInv', DatesPast, ReaderInv, [ViewNext]_viewVars
  PROVE  DatesPast' /\ ReaderInv'
<1>0. now \in Nat /\ now' \in Nat
  BY HistoryAssumption DEF RegisterInv, HistoryInv, TypeOK, Time
<1>1. CASE Registering /\ UNCHANGED <<copy, reader>>
  <2>1. Next /\ UNCHANGED reader
    BY <1>1 DEF Registering, Next
  <2>2. DatesPast' /\ now <= now'
    BY <2>1, DatesStep DEF RegisterInv
  <2> QED
    BY <1>0, <2>1, <2>2 DEF ReaderInv, reader
<1>2. CASE Edits \/ UNCHANGED viewVars
  <2>1. /\ now' = now /\ rows' = rows /\ request' = request /\ since' = since /\ at' = at
        /\ step' = step /\ op' = op
    BY <1>2 DEF Edits, UpdateVehicleRead, UpdateVehicleReplace, UpdateVehicleFails, viewVars, vars, reader
  <2> QED BY <2>1 DEF DatesPast, ReaderInv
<1>3. CASE Listings
  <2>1. now' = now /\ rows' = rows /\ request' = request
    BY <1>3 DEF Listings, LookTrucks, LookVehicles, LookTrackers, Look, Clock, WithDevices,
                ResolveVehicles, ResolveTrackers, Answer, Read, vars
  <2>2. CASE LookTrucks
    BY <1>0, <2>1, <2>2 DEF LookTrucks, Look, ReaderInv, DatesPast, TruckListings
  <2>3. CASE LookVehicles \/ LookTrackers
    BY <1>0, <2>1, <2>3 DEF LookVehicles, LookTrackers, Look, ReaderInv, DatesPast, TruckListings
  <2>4. CASE Clock
    BY <1>0, <2>1, <2>4 DEF Clock, ReaderInv, DatesPast
  <2>5. CASE WithDevices \/ ResolveVehicles \/ ResolveTrackers
    BY <1>0, <2>1, <2>5 DEF WithDevices, ResolveVehicles, ResolveTrackers, Answer, ReaderInv, DatesPast
  <2>6. CASE Read
    BY <1>0, <2>1, <2>6 DEF Read, ReaderInv, DatesPast
  <2> QED BY <1>3, <2>2, <2>3, <2>4, <2>5, <2>6 DEF Listings
<1> QED
  BY <1>1, <1>2, <1>3 DEF ViewNext

\* What an answer must be for the moment t.
OfMoment(shown, t) ==
  /\ \A p \in shown : \E a \in rows : a.vehicle = p[1] /\ a.device = p[2] /\ Covers(a, t)
  /\ \A p, q \in shown : p[2] = q[2] /\ p[1] # q[1] => <<p[2], t>> \in contested

\* Of all the trucks of a page the devices are asked for at one moment.
LEMMA TrucksAnswered ==
  ASSUME HistoryInv, ReaderInv, WithDevices
  PROVE  \E t \in since .. now : OfMoment(Shown', t)
<1>1. PICK imei \in [page -> Devices \cup {Text}] :
        /\ \/ \A v \in page : imei[v] \in OrNone(Found(v, at))
           \/ \A v \in page : imei[v] = Text
        /\ Answer({toProtoTruck(VehicleDoc(v), imei[v]) : v \in page})
  BY DEF WithDevices
<1>2. /\ op' = op /\ op \in TruckListings /\ at \in since .. now
      /\ answer' = {toProtoTruck(VehicleDoc(v), imei[v]) : v \in page}
  BY <1>1 DEF WithDevices, Answer, ReaderInv
<1>3. at \in Time
  BY <1>2, HistoryAssumption DEF ReaderInv, HistoryInv, TypeOK, Time
<1>4. \A p \in Shown' : \E v \in page : p = <<v, imei[v]>> /\ imei[v] # Text
  <2> SUFFICES ASSUME NEW p \in Shown'
               PROVE  \E v \in page : p = <<v, imei[v]>> /\ imei[v] # Text
    OBVIOUS
  <2>1. PICK m \in answer' : /\ p = <<Get(Truck, m, "id"), Get(Truck, m, "imei")>>
                             /\ Text \notin {p[1], p[2]}
    BY <1>2 DEF Shown, TruckListings
  <2>2. PICK v \in page : m = toProtoTruck(VehicleDoc(v), imei[v])
    BY <1>2, <2>1
  <2>3. Get(Truck, m, "id") \in {v, Text} /\ Get(Truck, m, "imei") \in {imei[v], Text}
    BY <2>2, TruckShows
  <2> QED
    BY <2>1, <2>3
<1>5. \A p \in Shown' : \E a \in rows : a.vehicle = p[1] /\ a.device = p[2] /\ Covers(a, at)
  <2> SUFFICES ASSUME NEW p \in Shown'
               PROVE  \E a \in rows : a.vehicle = p[1] /\ a.device = p[2] /\ Covers(a, at)
    OBVIOUS
  <2>1. PICK v \in page : p = <<v, imei[v]>> /\ imei[v] # Text
    BY <1>4
  <2>2. imei[v] \in IMEIsAt(v, at)
    BY <1>1, <2>1 DEF OrNone, Found
  <2>3. imei[v] \in {a.device : a \in Carried(v, at)}
    BY <2>2, AnswerIsCarried DEF HistoryInv
  <2> QED
    BY <2>1, <2>3 DEF Carried
<1>6. \A p, q \in Shown' : p[2] = q[2] /\ p[1] # q[1] => <<p[2], at>> \in contested
  BY <1>3, <1>5 DEF HistoryInv, Disjoint, BothOf
<1> QED
  BY <1>2, <1>5, <1>6 DEF OfMoment

\* ListTrackers shows the moment of its last statement.
LEMMA TrackersAnswered ==
  ASSUME HistoryInv, DatesPast, ReaderInv, ResolveTrackers
  PROVE  \E t \in since .. now : OfMoment(Shown', t)
<1>1. PICK messages :
        /\ Answer(messages)
        /\ \A m \in messages : \E d \in page :
             m = Unfitted(d) \/ \E a \in Fitting(d) : m = TrackerMessage(d, a)
  <2>1. CASE Answer({Unfitted(d) : d \in page})
    BY <2>1
  <2>2. CASE Answer(UNION {IF Fitting(d) = {} THEN {Unfitted(d)}
                           ELSE {TrackerMessage(d, a) : a \in Fitting(d)} : d \in page})
    <3> DEFINE M == UNION {IF Fitting(d) = {} THEN {Unfitted(d)}
                           ELSE {TrackerMessage(d, a) : a \in Fitting(d)} : d \in page}
    <3>1. \A m \in M : \E d \in page :
            m = Unfitted(d) \/ \E a \in Fitting(d) : m = TrackerMessage(d, a)
      OBVIOUS
    <3> HIDE DEF M
    <3> QED
      BY <2>2, <3>1 DEF M
  <2> QED
    BY <2>1, <2>2 DEF ResolveTrackers
<1>2. op' = op /\ op = "ListTrackers" /\ answer' = messages
  BY <1>1 DEF ResolveTrackers, Answer
<1>3. \A p \in Shown' : \E a \in FittedNow : p[1] = a.vehicle /\ p[2] = a.device
  <2> SUFFICES ASSUME NEW p \in Shown'
               PROVE  \E a \in FittedNow : p[1] = a.vehicle /\ p[2] = a.device
    OBVIOUS
  <2>1. PICK m \in messages :
          /\ p = <<Get(Tracker, m, "current_vehicle_id"), Get(Tracker, m, "device_id")>>
          /\ Text \notin {p[1], p[2]}
    BY <1>2 DEF Shown, TruckListings
  <2>2. PICK d \in page : m = Unfitted(d) \/ \E a \in Fitting(d) : m = TrackerMessage(d, a)
    BY <1>1, <2>1
  <2>3. m # Unfitted(d)
    BY <2>1, TrackerShows DEF Unfitted, deref
  <2>4. PICK a \in Fitting(d) : m = TrackerMessage(d, a)
    BY <2>2, <2>3
  <2>5. p[1] = a.vehicle /\ p[2] = d
    BY <2>1, <2>4, TrackerShows DEF TrackerMessage, deref
  <2> QED
    BY <2>4, <2>5 DEF Fitting
<1>4. \A a \in FittedNow : a \in rows /\ Covers(a, now)
  BY DEF FittedNow, DatesPast, Covers
<1>5. \A a, b \in FittedNow : a.device = b.device => a = b
  BY DEF FittedNow, HistoryInv, OneOpen, BothOf
<1>6. now \in since .. now
  BY HistoryAssumption DEF ReaderInv, HistoryInv, TypeOK, Time
<1>7. OfMoment(Shown', now)
  BY <1>3, <1>4, <1>5 DEF OfMoment
<1> QED
  BY <1>6, <1>7

\* Of a listing that asks for the fittings every answer is of one moment, with the
\* clock's dates: for any page, while devices are fitted and removed and vehicles
\* edited between its statements.
THEOREM ListingsAreOfAMoment == ASSUME ~Backdating PROVE ViewSpec => ListingIsOfAMoment
<1>1. ViewInit => DatesPast /\ ReaderInv
  BY DEF ViewInit, Init, DatesPast, ReaderInv
<1>2. RegisterInv /\ RegisterInv' /\ DatesPast /\ ReaderInv /\ [ViewNext]_viewVars
        => DatesPast' /\ ReaderInv'
  BY ReaderStep
<1>3. ASSUME RegisterInv, DatesPast, ReaderInv, [ViewNext]_viewVars,
             step = "query", step' = "answered", op # "ListVehicles"
      PROVE  \E t \in since .. now :
               /\ \A p \in Shown' : \E a \in rows : a.vehicle = p[1] /\ a.device = p[2] /\ Covers(a, t)
               /\ \A p, q \in Shown' : p[2] = q[2] /\ p[1] # q[1] => <<p[2], t>> \in contested
  <2>1. WithDevices \/ ResolveTrackers
    <3>1. step' # step
      BY <1>3
    <3>2. Listings
      BY <1>3, <3>1 DEF ViewNext, Edits, UpdateVehicleRead, UpdateVehicleReplace,
                        UpdateVehicleFails, viewVars, reader
    <3> QED
      BY <1>3, <3>2 DEF Listings, LookTrucks, LookVehicles, LookTrackers, Look, Clock,
                        ResolveVehicles, Read
  <2>2. \E t \in since .. now : OfMoment(Shown', t)
    BY <1>3, <2>1, TrucksAnswered, TrackersAnswered DEF RegisterInv
  <2> QED
    BY <2>2 DEF OfMoment
<1>4. RegisterInv /\ DatesPast /\ ReaderInv /\ [ViewNext]_viewVars =>
        [step = "query" /\ step' = "answered" /\ op # "ListVehicles" =>
           \E t \in since .. now :
             /\ \A p \in Shown' : \E a \in rows : a.vehicle = p[1] /\ a.device = p[2] /\ Covers(a, t)
             /\ \A p, q \in Shown' : p[2] = q[2] /\ p[1] # q[1] => <<p[2], t>> \in contested]_viewVars
  BY <1>3
<1> QED
  BY <1>1, <1>2, <1>4, RegisterInvariant, PTL DEF ViewSpec, ListingIsOfAMoment
=============================================================================

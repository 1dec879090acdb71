---------------------------- MODULE DeviceHistory ----------------------------
(***************************************************************************)
(* The history of fittings and the questions asked of it: Fit and Unfit of *)
(* internal/services/registry.go with their dates, and the DeviceResolver  *)
(* of internal/repository/devices.go, which answers which device a vehicle *)
(* carried, which vehicle carried a device, and for which periods.         *)
(*                                                                         *)
(* Only GPS devices: a dashcam has no IMEI and every question skips it.  A *)
(* request takes its date from the clock, or from the client, when it      *)
(* begins, and its transaction commits any time later, so dates need not   *)
(* come in the order in which they are written.  The commit is one step:   *)
(* the statements of a transaction, its conflicts and retries, and what    *)
(* happens without transactions are in Fitting.                            *)
(***************************************************************************)
EXTENDS Integers, FiniteSets

CONSTANTS
  Requests,    \* requests that may be under way at once
  Devices, Vehicles,
  Backdating,  \* TRUE: clients send fittedAt and unfittedAt; FALSE: never
  Slack,       \* how far ahead of the clock Fit lets fittedAt be: a minute
  MaxTime,     \* bound: the clock stops here
  MaxFits      \* bound: fittings

Time == 0 .. MaxTime
Open == MaxTime + Slack + 1     \* unfittedAt of a device still fitted
Dates == 0 .. MaxTime + Slack

ASSUME HistoryAssumption ==
  /\ Backdating \in BOOLEAN
  /\ Slack \in Nat /\ MaxTime \in Nat /\ MaxFits \in Nat

VARIABLES
  now,
  rows,       \* tracker_assignments
  trackerId,  \* vehicles.trackerId: the device as a set, empty for null
  request,    \* the date each request has taken, and what it is to write
  fits,
  contested   \* history: the moments of a device or a vehicle for which a Fit
              \* came late, after a later date had been written

vars == <<now, rows, trackerId, request, fits, contested>>

Row == [device: Devices, vehicle: Vehicles, fittedAt: Dates, unfittedAt: Dates \cup {Open}]

NoRequest == [op |-> "none"]
FitRequest == [op: {"fit"}, device: Devices, vehicle: Vehicles, at: Dates]
UnfitRequest == [op: {"unfit"}, device: Devices, at: Dates]

\* Every variable has its type.
TypeOK ==
  /\ now \in Time /\ fits \in 0 .. MaxFits
  /\ rows \in SUBSET Row
  /\ trackerId \in [Vehicles -> SUBSET Devices]
  /\ request \in [Requests -> {NoRequest} \cup FitRequest \cup UnfitRequest]
  /\ contested \in SUBSET ((Devices \cup Vehicles) \X Dates)

\* No device has been fitted yet.
Init ==
  /\ now = 0 /\ fits = 0
  /\ rows = {}
  /\ trackerId = [v \in Vehicles |-> {}]
  /\ request = [r \in Requests |-> NoRequest]
  /\ contested = {}

-----------------------------------------------------------------------------
\* The dates a request may carry; without one the clock's is taken.
DatesFor(given) == {now} \cup (IF Backdating THEN given ELSE {})

Begin(r, req) ==
  /\ request[r] = NoRequest
  /\ request' = [request EXCEPT ![r] = req]
  /\ UNCHANGED <<now, rows, trackerId, contested>>

FitBegin(r, d, v) ==
  /\ fits < MaxFits
  /\ fits' = fits + 1
  /\ \E at \in DatesFor(0 .. now + Slack) :
       Begin(r, [op |-> "fit", device |-> d, vehicle |-> v, at |-> at])

\* Unfit takes any date.
UnfitBegin(r, d) ==
  /\ \E at \in DatesFor(Dates) : Begin(r, [op |-> "unfit", device |-> d, at |-> at])
  /\ UNCHANGED fits

IsOpen(a) == a.unfittedAt = Open
CloseBefore(a, at) == [a EXCEPT !.unfittedAt = at - 1]
Close(a, at) == [a EXCEPT !.unfittedAt = at]

\* What Fit closes: the device's open row, and the vehicle's.
DeviceOnly(a, d, v) == a.device = d
VehicleOnly(a, d, v) == a.vehicle = v
Displaced(a, d, v) == a.device = d \/ a.vehicle = v

\* The dates in the rows of a device or of a vehicle.
DatesOf(x) ==
  UNION {{a.fittedAt, a.unfittedAt} \ {Open} : a \in {b \in rows : x \in {b.device, b.vehicle}}}

\* The moments of x from a date on that come before another date of x.
Overtaken(x, at) ==
  {p \in {x} \X Dates : at <= p[2] /\ \E date \in DatesOf(x) : p[2] < date}

\* A commit closes some open rows, adds the new ones and sets the shortcuts.
Commit(r, closed, new, shortcuts) ==
  /\ rows' = {IF a \in closed THEN Close(a, request[r].at) ELSE a : a \in rows} \cup new
  /\ trackerId' = shortcuts
  /\ request' = [request EXCEPT ![r] = NoRequest]
  /\ UNCHANGED <<now, fits>>

\* The vehicles' shortcut once a device has left them all, and when it has come to one.
SetOnly(d, v) == [trackerId EXCEPT ![v] = {d}]
Cleared(d) == [v \in Vehicles |-> trackerId[v] \ {d}]
Moved(d, v) == [Cleared(d) EXCEPT ![v] = {d}]

FitCommit(r) ==
  /\ request[r].op = "fit"
  /\ LET d == request[r].device
         v == request[r].vehicle
     IN /\ Commit(r, {a \in rows : IsOpen(a) /\ Displaced(a, d, v)},
                  {[device |-> d, vehicle |-> v, fittedAt |-> request[r].at, unfittedAt |-> Open]},
                  Moved(d, v))
        /\ contested' = contested \cup Overtaken(d, request[r].at) \cup Overtaken(v, request[r].at)

\* Refused when there is no open row.
UnfitCommit(r) ==
  /\ request[r].op = "unfit"
  /\ LET d == request[r].device
         open == {a \in rows : IsOpen(a) /\ a.device = d}
     IN open # {} /\ Commit(r, open, {}, Cleared(d))
  /\ UNCHANGED contested

\* A request that is refused or whose transaction fails has written nothing.
Refused(r) ==
  /\ request[r] # NoRequest
  /\ request' = [request EXCEPT ![r] = NoRequest]
  /\ UNCHANGED <<now, rows, trackerId, fits, contested>>

Tick ==
  /\ now < MaxTime
  /\ now' = now + 1
  /\ UNCHANGED <<rows, trackerId, request, fits, contested>>

\* All that happens but for a Fit's commit.
Others ==
  \/ Tick
  \/ \E r \in Requests :
       \/ UnfitCommit(r) \/ Refused(r)
       \/ \E d \in Devices : UnfitBegin(r, d) \/ \E v \in Vehicles : FitBegin(r, d, v)

Next == Others \/ \E r \in Requests : FitCommit(r)

Spec == Init /\ [][Next]_vars

-----------------------------------------------------------------------------
(***************************************************************************)
(* The questions.  No query says in which order its rows come back, so an  *)
(* answer that depends on it is one of several.                            *)
(***************************************************************************)
\* The filter of IMEIsAt and VehicleAt.
StartOnly(a, t) == a.fittedAt <= t
Covers(a, t) == a.fittedAt <= t /\ (IsOpen(a) \/ a.unfittedAt > t)

\* fittedAtOf: of any row of the vehicle with that device.
fittedAtOf(v, d) == {a.fittedAt : a \in {b \in rows : b.vehicle = v /\ b.device = d}}

\* One turn of the loop of IMEIsAt: the devices that may be the answer after
\* row a, when d was the answer before it.
Turn(v, d, a) ==
  IF d = a.device THEN {d}
  ELSE {IF prev > a.fittedAt THEN d ELSE a.device : prev \in fittedAtOf(v, d)}

\* The orders in which a cursor may return rows.
Cursors(S) == {f \in [1 .. Cardinality(S) -> S] : \A i, j \in DOMAIN f : f[i] = f[j] => i = j}

\* What IMEIsAt may answer for a vehicle: its loop over the covering rows, where
\* out[i] is the answer after the i-th.
Carried(v, t) == {a \in rows : a.vehicle = v /\ Covers(a, t)}
IMEIsAt(v, t) ==
  LET n == Cardinality(Carried(v, t))
  IN {d \in Devices :
        \E cursor \in Cursors(Carried(v, t)), out \in [1 .. n -> Devices] :
          /\ n > 0 /\ out[1] = cursor[1].device
          /\ \A i \in 2 .. n : out[i] \in Turn(v, out[i - 1], cursor[i])
          /\ d = out[n]}

\* What VehicleAt may answer for a device.
VehicleAt(d, t) == {a.vehicle : a \in {b \in rows : b.device = d /\ Covers(b, t)}}

\* PeriodsFor a vehicle in a window.
Contained(v, from, to) ==
  {a \in rows : a.vehicle = v /\ a.fittedAt >= from /\ a.unfittedAt <= to}
PeriodsFor(v, from, to) ==
  {a \in rows : /\ a.vehicle = v
                /\ a.fittedAt <= to
                /\ IsOpen(a) \/ a.unfittedAt > from}

-----------------------------------------------------------------------------
(***************************************************************************)
(* What must hold.                                                         *)
(***************************************************************************)
\* A device reports for one vehicle at a time (uq_assignment_live: "what stops
\* the same device reporting for two vehicles at once"), at every moment but
\* those for which a Fit of the device came late: from the date of the Fit to a
\* later date that had been written before it.
OneVehicleAtATime ==
  \A d \in Devices, t \in Time :
    <<d, t>> \notin contested => \A u, v \in VehicleAt(d, t) : u = v

\* A vehicle holds one device at a time (IMEIsAt: "A vehicle should hold one
\* device at a time"), at every moment but those for which a Fit to the vehicle
\* came late.
OneDeviceAtATime ==
  \A a, b \in rows, t \in Time :
    /\ a.vehicle = b.vehicle /\ Covers(a, t) /\ Covers(b, t)
    /\ <<a.vehicle, t>> \notin contested
    => a = b

\* The two questions agree: the device found on a vehicle is found to have been
\* on that vehicle, at every moment for which no Fit of either came late.
QuestionsAgree ==
  \A v \in Vehicles, t \in Time :
    LET found == IMEIsAt(v, t) IN
    \A d \in Devices :
      {<<d, t>>, <<v, t>>} \cap contested = {} => (found = {d} <=> VehicleAt(d, t) = {v})

\* Walking the periods of a window finds the device of each of its moments
\* (PeriodsFor: "Overlap, not containment").
PeriodsComplete ==
  \A v \in Vehicles, t \in Time :
    LET found == IMEIsAt(v, t) IN
    \A from \in 0 .. t, to \in t .. MaxTime :
      found \subseteq {a.device : a \in {b \in PeriodsFor(v, from, to) : Covers(b, t)}}

\* A moment is settled when it is past and every request under way is dated
\* after it.
Settled(t) ==
  /\ t < now
  /\ \A r \in Requests : request[r] # NoRequest => t < request[r].at

\* The past stands once it is settled: no step unsettles it or changes which
\* vehicle a device's positions of that moment belong to (TrackerAssignment: "a
\* trip report for one truck silently includes another's journeys").
PastStands ==
  [][\A t \in Time : Settled(t) =>
       Settled(t)' /\ \A d \in Devices : VehicleAt(d, t)' = VehicleAt(d, t)]_vars

\* When rows overlap the later fitting wins, whatever the order of the cursor
\* (IMEIsAt: "the later fitting wins").
LaterFittingWins ==
  \A v \in Vehicles, t \in Time :
    \A d \in IMEIsAt(v, t) :
      \E a \in rows : /\ a.vehicle = v /\ a.device = d /\ Covers(a, t)
                      /\ \A b \in rows : b.vehicle = v /\ Covers(b, t) => b.fittedAt <= a.fittedAt

\* No moment is exempt: a device is on one vehicle at every moment.
NeverOnTwoVehicles == \A d \in Devices, t \in Time : \A u, v \in VehicleAt(d, t) : u = v

\* A fitting ends no earlier than it began.
EndsAfterItBegan == \A a \in rows : a.fittedAt <= a.unfittedAt

\* No Fit comes late, and no moment is exempt.
InOrder == contested = {}
=============================================================================

# A TLA+ verification of the master data service

This directory models the service whose source is in `src/` (Go, MongoDB, an
optional Redis): the register of vehicles, drivers and tracking devices of road
hauliers, the reference lists they use, the documents of vehicles and drivers,
the process that serves them over HTTP and gRPC, and the library with which it
refuses revoked tokens. The modules are checked with TLC on small instances and, in the
`*Proofs` modules, proved with TLAPS for every value of the constants.

## 1. The system

### Components

| Component | State it keeps | Operations | Properties that make it correct |
|---|---|---|---|
| Fittings (`services/registry.go`) | `trackers`, `vehicles.trackerId`, rows of `tracker_assignments` (open while `unfittedAt` is null) | `Fit`, `Unfit`, `transact`; create, update, delete of vehicles and trackers | a device is on one vehicle; a vehicle carries one device of each kind; `trackerId` is a copy of the open GPS row; nothing retired is fitted; a Fit looks like one move |
| Pairing (`registry.go`, `catalog.go`) | `vehicles.currentDriverId`, `currentDriverUserId`, `truckGroupId`; `drivers`; `vehicle_groups` | `setDriver`, `unpairDriverElsewhere`, `checkGroup`, `ungroupVehicles`; writes of vehicles, drivers, groups; change notices | one truck per driver; the two halves of a pairing agree; no retired driver or group is named; what is written is announced |
| Revocation (`platform/revocation`) | Redis keys with a time to live, a channel, a list in memory | `Publish`, `Watch`, `resync`, `Apply`, `Replace`, `Prune`, `Revoked` | a refused token stays refused until it expires; a recorded revocation reaches the list |
| Catalogues (`services/catalog*.go`, `platform/cache`) | documents of some twenty kinds, a cache in Redis | `List`, `Get`, `Resolve`, `Validate`, `Create`, `Update`, `Delete`, `invalidate` | nobody is served another company's entry; the cache answers what the database would; a company writes its own entries only |
| Device history (`repository/devices.go`, `registry.go`) | all rows of `tracker_assignments`, with their dates | `Fit` and `Unfit` with the date each takes before its transaction; `IMEIsAt`, `VehicleAt`, `PeriodsFor` | one device per vehicle and one vehicle per device at every moment for which no Fit came late; the three questions agree; a settled past does not change |
| Document store (`repository/repository.go`) | `deleted` and `updatedAt` of every document | `Create`, `Update` (full replace), `SoftDelete`, `FindByID`, `List` | what changed since a moment can be found by its stamp |
| Sites (`services/site_write.go`) | `sites`, each with a list of contacts, one of them the default, and two older fields | `CreateSite`, `UpdateSite`, `DeleteSite`, `ApplyPICs` | one default; the older fields mirror it; only the owner writes a site |
| Access control (`platform/authctx`, `handlers.go`) | none | `RequireAuth`, `RequireModule`, `RequireAnyOf`, `HasPermission`, `UnaryServerInterceptor`, `caller`, `trackerScope` | a handler runs only for a principal that may call it, on the data of its company; a displaced session is refused; the gRPC port is open to services only |
| Routes, handlers and methods (`routes.go`, `handlers`, `grpcserver`) | none | 35 routes, the methods of the gRPC service, the conversions to its messages | every route has a handler and asks for a key that exists; a request acts for its caller's company |
| Vehicle and driver documents (`registry.go:1165`) | `documents`, each of one owner | `CreateDocument`, `UpdateDocument`, `DeleteDocument` | exactly one owner, of the same company; a document does not move |
| Views (`fleet.go`, `registry.go`) | none | `ListTrucks`, `GetTruck`, `TrucksByDriver`, `ListVehicles`, `ListTrackers`, `withDevices`, `resolveVehicles`, `resolveTrackers` | a listing that asks for the fittings shows the devices as they were at one moment; the copy in a vehicle's document, which `ListVehicles` shows, is what is fitted |
| The process (`cmd/server/main.go`, `config`, `platform/grpcutil`, `logger`) | the configuration, two listeners, the health it reports, the requests under way | start-up in its order, `Load`, `guardTarget`, the signal, the shutdown and its deadline, the deferred calls | what is under way is cut off only at the deadline; a signal ends the process |
| Seeding (`internal/seed`) | the shared entries of the reference lists | `Run`, kind by kind, each entry matched by code or name and updated or inserted; a rehearsal | a run that went through has taken, and may be repeated |
| Listings (`platform/query`, `helpers.go`, the `List…` operations) | none | `Parse`, `FromProto`, `findOptions`, `page`, `ListDriversForSync` | the pages of a listing show every document once; the feed of drivers misses none |
| The rest | none | formats of log lines and responses, generated code | see section 8 |

### How they interact

HTTP and gRPC handlers bind a request, take the caller's company from the
principal and call one service operation. Operations share state only through
MongoDB and Redis; the process holds no lock around them. `Fit` and `Unfit`
are the only operations wrapped in a transaction, and only where the server is a
replica set: on a standalone server `transact` runs the same statements
unwrapped. All other operations read a document, edit the copy and replace the
whole document by id. `DeleteDriver` writes vehicles, `Delete` of a vehicle
group writes vehicles, and setting a driver on one vehicle writes others. Each
write is followed by a notice to a message broker. The catalogues answer through
a cache that reads fill and writes sweep.

### What is hard

Requests interleave between any two statements; a copy read early is written
late; a transaction conflicts and is run again; a process dies between two
statements that no transaction joins; fills and sweeps of the cache cross;
announcements are lost and keys expire; dates are given by callers, or taken
long before they are written, and do not come in order; a reader pages through documents that change between its pages, or joins
collections read at different moments; a session
ends while its token still verifies; a signal, a failing listener or a panic comes
while requests are under way; a seeding task stops in the middle and is run again
over what people have edited. `PROJECT.json` lists each such hazard at its line with the properties
that would catch it.

## 2. The modules

| Module | What it is |
|---|---|
| `Fitting` | the register of fittings, statement by statement |
| `FittingPromise` | the abstract specification: GPS units move between vehicles in single steps |
| `FittingProofs` | its theorems, for any interleaving, for one request at a time and for requests that have the register to themselves |
| `Pairing` | drivers, vehicles, groups and notices |
| `PairingProofs` | its theorems, for any interleaving and for requests one at a time |
| `Revocation`, `RevocationProofs` | publishers, Redis, one service's `Watch` goroutine and list; its theorems |
| `Catalog`, `CatalogProofs` | documents, cache and requests; its theorems |
| `DeviceHistory` | requests that take a date and commit later, the dated rows, the vehicles' shortcuts and the three questions |
| `Gate` | operators: what admits a request to a handler, and for which company |
| `Contacts` | operators: what becomes of a site's contacts |
| `Sites`, `SitesProofs` | the sites and their requests, composing `Gate` and `Contacts`; its theorems |
| `Listing` | operators: how a listing request is read and paged |
| `Feed`, `FeedProofs` | documents, their stamped writes and a paging reader, over `Listing`; its theorems |
| `Views` | listings that join vehicles, devices and fittings in several statements, and edits that replace whole vehicles, over `DeviceHistory` and `Wire` |
| `DeviceHistoryProofs` | the theorems of `DeviceHistory` and of `Views` |
| `Documents` | the documents of vehicles and drivers, read and written in two steps |
| `Wire` | operators: the messages of the gRPC contract and the conversions into them |
| `Surface` | operators: the routes with their keys, the handlers with the company each works for, the gRPC methods, over `Gate` and `Wire` |
| `Server` | one process from start to exit, with the requests under way, over `Surface` |
| `Seed` | the seeding task and the people who edit the lists meanwhile |
| `Deployment`, `DeploymentProofs` | the binary: `Server`, `Seed` and `Documents` composed; its theorems |
| `MCFitting`, `MCPairing`, `MCRevocation`, `MCCatalog`, `MCHistory`, `MCViews`, `MCSites`, `MCFeed`, `MCDeployment` | instances for TLC: symmetry, and functions a `.cfg` cannot write |

`PROJECT.json` gives for every definition the lines it stands for.

### Fitting

A request is a process with a label `pc[r]` and the copies it carries in
`local[r]`. One action is one MongoDB statement that writes, or a group of reads
nobody can tell apart: `Fit`'s three reads before its transaction are one action
(`FitRead`), the transaction is `FitBegin` (its first statement takes the
snapshot), then `FitCommit` or `FitConflict`. The MongoDB part is external to
`src/`: snapshot isolation with first-committer-wins, modelled by `snap` (what
the transaction sees) and `missed` (documents others wrote since). A conflict runs
the function again, as `WithTransaction` does. With `Transactional = FALSE` the
same statements are separate actions, and `Fail` may strike between any two. An
`UpdateMany` is atomic in the model. The retirement of a vehicle has the count of
open rows and the soft delete as separate steps, as in the code; the deletion of
group memberships that follows touches nothing the module keeps.
Only open rows are state here. `setDriver`'s writes to other vehicles are in
`Pairing`. Staff acting for a company are that company as a caller; staff acting
for nobody may re-own a device (`UpdateTrackerRead` with scope `None`).
The requests of `Lone` have the register to themselves (`InTurn`) and call any
operation, while the others interleave and die: what "the next Fit" of `Fit`'s
comment finds is then whatever races and crashes have left. A `Fit` that is itself
raced is no repair, and `FittingDashcamRace` of section 4 shows one. With `Lone` empty
every request may race; with `Lone` all of them they come one at a time.

### Pairing

The statements of `CreateVehicle` and `UpdateVehicle` follow the code's order:
`checkGroup`, `setDriver` (with its early returns), the search for other
vehicles, the `UpdateMany`, their notices, the write, its own notice.
`unannounced` holds the documents written since the last notice about them, and
the history variable `released` the vehicles that had been announced when
`DeleteDriver` took their driver and of which nothing was written since: those, and no
others, may stay unannounced.
`Fail` ends a request anywhere; it stays `failed`, so that no later state counts as
one in which nothing went wrong. `GoesOn` is the other reaction to a failed
statement: the release of a retired driver's vehicles and the ungrouping of a
retired group's are best effort, and the notice is sent all the same
(`announceAnyway`). `OneByOne` is the specification with requests one at a time:
each begins when the one before has answered or failed.
Every filter carries the company, so one company is modelled.

### Revocation

Time is counted in ticks, `Second` ticks to a second, because a token's issue
time has whole seconds and a cutoff does not. The goroutine `Watch` is a process:
resync (scan, one `Get` per key, swap), subscribe, resync, then a loop over the
ticker, messages, pruning and a closed channel. Lost messages, a link that breaks
and comes back, failing reads and restarts are actions. This service wires the
authentication middleware without the list (`routes.go:81` passes a nil checker);
the library is modelled as the package defines it, for the services that use it.

### Catalog

Callers are companies, staff, and services that name no company. A read checks
the cache, queries, and fills; a write loads, checks the owner, replaces, and
sweeps one or two prefixes, each a `SCAN` and a `DEL`. A handler reads a written
entry back, which fills the cache again (`ReadBack`). `Create` of a kind without
owners returns before the sweep, as the code does. The total of a page, its
filters and sorts, and the parent of an entry are left out: they are part of the
key in the code, and two listings that differ in them behave as two keys.
`Clients` bounds which of the callers make requests in an instance.

### DeviceHistory

`Fit` and `Unfit` take their date first, from the clock or from the client
(`registry.go:966`, `:1054`), then read, and only then run a transaction that may be
retried (`:1036`, `:1065`). So `FitBegin` and `UnfitBegin` take the date and `FitCommit`
and `UnfitCommit` write with it, any time later; in between the clock ticks and other
requests take later dates and commit first. The commit is one step, with the rows it
closes, the row it adds and the shortcuts it moves: the statements inside, their
conflicts and what is left without transactions are in `Fitting`. `Refused` is a
request that is refused or fails and has written nothing.

A `Fit` that commits after a later date has been written for its device or its
vehicle may overlap a row, with or without dates of clients. `contested` is a history
variable with the moments this concerns: from the date of such a `Fit` to the latest
date written before it. The properties exempt these moments and no others; what the
code does in them is in section 4 (`HistoryBackdated`, `HistoryOvertaken`,
`HistoryInverted`).

A query that gives no order may return its rows in any: `IMEIsAt` is the set of
answers its loop may give over every order of its cursor (`Cursors`, `Turn`), and
`VehicleAt` the set of vehicles its `FindOne` may find.

### Views

A listing finds its page, may read the clock, and asks where the devices are: three
steps, between which devices are fitted and removed. The page is any subset a
search, a driver or a page size may leave. `WithDevices` asks once for the whole
page, `ResolveVehicles` takes the device the vehicle's own document named when the page
was found, and `ResolveTrackers` looks for the open rows. Each query may fail, which leaves the
devices out, as the code does. What a reader sees is what the getters of the
messages return (`Wire`), where a field of the zero value is not sent. `since` is
history: the moment of the first statement.

The device a vehicle's document names is a stored copy, `trackerId`: `Fit` and `Unfit`
set it, and `UpdateVehicle`, in two steps, replaces the whole document with a copy it
read before (`UpdateVehicleRead`, `UpdateVehicleReplace`), which may put an old device
back. The history variable `stale` has the vehicles where an edit has done so and no
`Fit` has set the copy since; `ListsWhatIsFitted` is about the others, and
`ViewsStaleShortcut` of section 4 shows what is listed of these. The commits of
`DeviceHistory` are those of a replica set: the copies that a crash without transactions
leaves behind are in `Fitting`.

### Gate, Contacts and Sites

`Gate` follows a request from its token to a handler: local verification, the
authentication service for anything but a plain token of this issuer, the
permission the route asks for (which a company must also have bought), and the
company the request is for, where the header is looked at before the token's own
company. A token is a name and `PrincipalOf` says what it decodes to. The
authentication service is external: it knows the sessions that have ended, and
when it does not answer the request is refused. `routes.go:81` wires
`RequireAuth` without the revocation list, so `Gate` has none. Keys are of a
product (`tms`, `fms`), and a key may be gated by a feature of the product that the
company must hold.

`Contacts` is `ApplyPICs`: a list replaces the contacts, a single-contact form
edits the default, and the older fields are written from the result. The entries a
list form keeps are stated by their places (`Kept`): the k-th kept is the one with k
entries to keep up to it. `Sites` puts
both around the documents. `CreateSite` and `DeleteSite` are one statement each;
`UpdateSite` reads, edits its copy and replaces by id (`UpdateSiteRead`,
`UpdateSiteReplace`), and `edit[r]` is the copy in between. `late` and `wrote` are
history variables: who was let in after the session had ended, and whose request
the last write was. A name is unique among a customer's live sites by an index
over the normalised name.

### Listing and Feed

`Listing` keeps what decides which rows a page has: page size and its limits,
offset, the fields a caller may name, the operators and their spellings, the
clauses and sorts that survive, and skip and limit over the order the database
returns. A sort leaves rows it does not tell apart in any order, and without a
sort the order is by `_id`. HTTP refuses what it does not understand and gRPC
passes over it, as the code does.

`Feed` has one company's documents, each with one field that a listing narrows and
sorts by, and writes in two steps: `Begin` stamps, `Land` reaches the database. A
reader asks one query and follows it to its end: a listing by the page count it is
given, the feed until a page comes back short. Every page is a count and a find,
for devices asked for by what they are on (fitted, spare, or on one vehicle) with a
`Distinct` before them. Devices asked for by kind are a set of documents of their own,
since no edit changes a device's kind (`registry.go:768`). `walk` is the reader;
its `start`, `left` and `steady` record what the properties compare with: the
documents there were, whether one has left, and whether anything has changed. For
such devices any device that comes or goes is a change (`Undisturbed`),
since a page of them goes by ids that the `Distinct` statement read: a retired device
that an update still under way brings back between two statements is in none of
those ids, and a listing that matched the same devices before and after would
miss it. One
writer's actions, those of drivers, stand for all kinds, since all go through the
same store.

### Wire, Surface, Server, Seed, Documents and Deployment

`Wire` has the messages as functions on the fields that were set, and a getter as
the value or its type's zero. `Surface` is the table of routes: for each handler
the keys any of which lets in, the company it works for, what it reads of the
request and the status of each outcome; and for gRPC the interceptor, the
company of a call and the codes. What can be said of these tables without a run is
an `ASSUME` that TLC evaluates: no key is gated by a feature nobody sells
(`GatesAreSellable`), a route asks for keys its product has (`RoutesAskForKeys`),
routes and handlers correspond (`EveryRouteServed`), and a principal rebuilt from
the authentication service's answer may do what the one in the token may
(`RemoteAgrees`).

`Server` has the main goroutine as `phase`, in the order of `run`: load, log,
connect, task, verify, wire, start, wait, and on the way out drain gRPC, drain
HTTP, deferred calls, `main`. Beside it are the serving goroutines, which may
run late or fail; the signal, whose effect depends on whether `Notify` was
reached; the timer of the shutdown; and the requests, each of which is accepted,
let in or refused, and answered, cut off, or never answered. An environment is a
record of what the configuration looks at, each field with the values it tells
apart.

`Seed` is the loop of `seed.Run` with one action per statement: the match by code
or name, the update, the insert (the match and the insert of an upsert are two
steps where no index holds them together), the failure on a duplicate key, and
people's edits between any two. `Documents` has the two halves of each operation.
`Deployment` puts the three together: a process started with `seed` seeds and may
be started again; another serves, and the requests that reach the documents work on
them. The other services answer any of their outcomes.

## 3. The runs

| Run | Bounds | What it shows |
|---|---|---|
| `FittingTxn` | 2 requests, 2 GPS units and a dashcam, 2 vehicles | `ShortcutAgrees`, `OneGPSPerVehicle` and `KeepsPromise` with transactions, conflicts, retries and failures |
| `FittingStandalone` | 2 requests at once that fit, remove, edit and retire, and a third of any operation with the register to itself, 2 GPS units, 2 vehicles | `FitRepairs` and `FitsNothingRetired` of the third, without transactions, after any race and after deaths at any statement |
| `PairingOneByOne` | 2 requests, one at a time (a failed one stays failed, the other goes on), 2 drivers, 2 vehicles, a group and a login, every operation | `OneTruckPerDriver`, `NoRetiredDriverNamed`, `GroupIsThere`, `AllButReleasesAnnounced` |
| `RevocationWatch` | 1 publisher, 1 cutoff id and 1 session id, 2 events, clock to 5 with tokens of 2 ticks | `RefusedStaysRefused`, across resyncs, pruning, expiry and late messages |
| `RevocationReaches` | the same with failing reads and a restart, clock to 2 | `EveryRevocationTakesEffect` (liveness) |
| `CatalogOneByOne` | 1 request at a time, 2 companies, staff and a service, 2 entries, 2 names, 1 write after any reads | `CacheCurrent` |
| `CatalogConcurrent` | 2 requests at once of 2 companies and a service, 1 entry of either company or shared, 2 names, 2 writes, failures | `NoLeak`, `WritesItsOwn`, `CacheRecovers` (liveness) |
| `HistoryDated` | 2 requests at once, 2 devices, 2 vehicles, 3 fittings, clock to 1, dates of clients up to 1 ahead | `OneDeviceAtATime`, `OneVehicleAtATime`, `QuestionsAgree`, `PeriodsComplete` |
| `Views` | 2 requests and 1 edit at once, 2 devices, 2 vehicles, 2 fittings, clock to 1, dates of the clock, one listing at a time | `ListsWhatIsFitted`, `ListingIsOfAMoment`, `PastStands` |
| `Sites` | 4 tokens (a user with one device, an administrator, one without the entitlement, staff), 2 companies, 2 sites, 1 edit in flight, 8 bodies | `OneDefault`, `OlderReadersSeeTheDefault`, `DisplacedIsRefused`, `OnlyTheOwnerWrites` while sessions end, expire and begin again |
| `Feed` | 3 documents, 2 writes at a time and 2 in all, 2 instants, 14 queries over HTTP and gRPC with pages of 1 and 2 | `WalkIsExact`, `SyncMissesNothing` |
| `Deployment` | 16 environments, 16 workloads of 2 requests over HTTP and gRPC, seeding run twice with 1 edit by hand | `NeverOpen`, `ActsWithinScope`, `NoneCutEarly`, `OneOwnerEach`, `DocumentsStayPut`, `SeedTakes`, `ShutdownEnds` (liveness) |

`TypeOK` is checked in the runs `RevocationWatch`, `Sites` and `Feed`, and is a
theorem of every module that has theorems but those of `Deployment`. Every property has a mutant in
`PROJECT.json`: a plausible slip in the code that makes TLC refute it.

*Why the bounds are enough to be interesting.* Two requests produce every
interference between two operations under way, with any number of completed ones
before and between them, since a request returns to idle and starts anew without
bound; for more requests at once the theorems of section 5 speak. Two GPS units and a
dashcam on two vehicles make a device move, displace one, and leave the other
kind alone. In `FittingStandalone` two requests interleave and die in every way,
any number of times, before the third begins. In `CatalogOneByOne` one write is enough because the documents in
`Init` are arbitrary: but for retired entries, which no read sees, every state a longer
sequence of writes could have left in the database, with a cold cache, is an initial
state, and reads before the write warm it. In `CatalogConcurrent` two writes let a
retirement or an edit fall between the load and the replace of another, while one
company's reads, and those of a service that names none, fill the cache beside the
other's. One entry is enough there: no property relates two, and the races are those
about one. Staff multiply the keys beyond what liveness can be checked on; they are in
`CatalogOneByOne`, and in the theorems on `NoLeak` and `WritesItsOwn`. In `RevocationWatch` the clock goes past two token lives, so that an entry
is published, pruned and published again. In `Sites` one edit in flight meets any
number of creations and retirements and of ended sessions; two are covered by the
theorem. The bodies hold every shape the forms take: no contacts, a list with two
flags, blanks and an entry to drop, the single-contact form, an empty list, and
each refusal. In `Feed` three documents make pages that are short, exactly full
and empty; the documents of `Init` are arbitrary, so two writes after it are enough
for one to overtake the other, and for one document to leave and another to come.
In `HistoryDated` three fittings of two devices make a device move and
come back, or two swap; two requests at once are enough for one to take its date first
and commit last, after the other and any number of removals. In `Views` two fittings
and any number of removals and edits fall between the statements of a listing, and
a moment is settled once the requests dated in it are through and may be disturbed
by those that come after. In `Deployment` the
environments are good ones and ones in which each thing `Load`, the guard and
start-up ask for is missing or blank; the workloads pair the callers so that one
request is under way on each listener, or two on one, when the signal, the failing
listener or the panic comes, and two edits of one document meet. Two runs of the
seed make one start over what the other left; more requests are covered by the
theorems.

*Deadlock.* It is checked in the runs of `Revocation*`, `Catalog*`, `HistoryDated`, `Views`,
`Sites` and `Feed`. `Deployment` ends: a
process that has exited does nothing. In the other runs a register whose
every document id has been used and retired has
nothing left to do; that is the bound on ids, not a wait.

*Fairness.* `RevocationReaches`: the goroutine keeps running, so a swap, a
subscription and a tick of the ticker that `select` can take are taken in the
end (weak fairness); Redis, asked again and again, answers some time (strong
fairness of a scan and of a read). Nothing is assumed of messages, of the link
or of publishers. `CatalogConcurrent`: a request that has begun takes its steps, and
a cached key expires in the end (`catalogTTL`); clients need not call.
`Deployment`: the main goroutine takes its steps and the timer of the shutdown's
context fires (weak fairness); of handlers, serving goroutines and signals nothing
is assumed, so that a handler that never returns is among the behaviours.

## 4. Where code and comments disagree

Reading the code into a model brought up places where a comment promises more than
the code keeps. Each row below is one, with the property TLC refutes in a regular
configuration with other constants, given under the table. None is part of the
regular runs, all of which pass.

| Counterexample (module `MC…`) | Property refuted | The code | The words |
|---|---|---|---|
| `FittingVehicleEdit` | `QuietShortcutAgrees` | `registry.go:541`: UpdateVehicle replaces the whole document with a copy it read before a Fit committed, and writes the old trackerId back. | models.go:439: "every writer must, and a writer that forgets shows a device on the wrong truck" |
| `FittingDashcamRace` | `OneDevicePerKind` | `registry.go:1011`: Two concurrent Fits of two dashcams to one vehicle each close the open rows they see and insert their own; neither writes a document the other writes, so under snapshot isolation both commit and the vehicle carries two. | registry.go:946: "a vehicle carries one GPS and one dashcam, not two of either" |
| `FittingRetireRace` | `NothingFittedOnRetired` | `registry.go:623`: DeleteVehicle counts the open rows, and a Fit that commits before its soft delete leaves a device fitted on a retired vehicle. | registry.go:615: "Refused while a device is fitted: the fitting has to be closed first" |
| `FittingLateDevice` | `OneGPSPerVehicle` | `registry.go:975`: Fit lists the devices of its kind before its transaction starts; a GPS unit registered and fitted to the vehicle in between is not in the list, and its row stays open. | registry.go:946: "a vehicle carries one GPS and one dashcam, not two of either" |
| `FittingCrash` | `QuietShortcutAgrees` | `registry.go:1005`: Without transactions, a Fit that dies after it closed a row and before it cleared the shortcuts leaves a vehicle naming a device it no longer carries. | registry.go:949: "a failure part-way leaves a state the next Fit repairs rather than one that lies" |
| `FittingReown` | `DeployedWhereFitted` | `registry.go:874`: updateTracker re-owns a fitted device without looking at its open row, which stays on the first company's vehicle. | src/schema/master_data.js:619: "Where the device is DEPLOYED" |
| `FittingResurrect` | `RetiredStaysRetired` | `registry.go:541`, `:887`: UpdateVehicle and updateTracker replace by id alone a copy read before the document was retired, and it is live again. | registry.go:615: "DeleteVehicle retires a vehicle" |
| `FittingNotice` | `EveryVehicleWriteAnnounced` | `registry.go:1041`: Fit clears the shortcut of the vehicle the device was on and announces only the vehicle it goes to. | registry.go:49: "every vehicle and driver write is announced on" |
| `PairingTwoTrucks` | `OneTruckPerDriver` | `registry.go:578`: Two requests pairing one driver with two vehicles each look for the other's pairing before either is written, and both vehicles name the driver. | registry.go:575: "two trucks both claiming the same driver is exactly the inconsistency the register exists to prevent" |
| `PairingRetiredDriver` | `NoRetiredDriverNamed` | `registry.go:560`: setDriver reads a live driver, DeleteDriver retires it and releases its vehicles, and the vehicle is written afterwards. | registry.go:274: "so no truck keeps naming a driver that no longer exists" |
| `PairingLostGroup` | `GroupIsThere` | `registry.go:1150`: checkGroup finds the group, the group is retired and its vehicles ungrouped, and the vehicle is written afterwards. | registry.go:1141: "a vehicle can never point at a group that is not there" |
| `PairingRelink` | `HalvesAgree` | `registry.go:571`: UpdateDriver changes a driver's login and writes no vehicle; setting the same driver again returns early and does not copy the new one. | registry.go:548: "It writes both halves" ... "so the two cannot disagree" |
| `PairingSilentRelease` | `EveryWriteAnnounced` | `registry.go:286`: DeleteDriver clears the driver from every vehicle that names it and announces only the driver. | registry.go:49: "every vehicle and driver write is announced on" |
| `RevocationOverwrite` | `RefusedStaysRefused` | `redis.go:64`: Publish overwrites the key whatever it holds; when two publishers revoke one user and the earlier event is stored last, the next resync replaces the later cutoff. | revocation.go:134: "Two revocations for one person must not let the earlier one narrow the later" |
| `RevocationLostRead` | `RefusedStaysRefused` | `redis.go:91`: All skips a key whose Get fails for any reason, and Replace then drops the entry without marking the list degraded. | redis.go:92: "Expired between the scan and the read, which is ordinary" |
| `RevocationStart` | `RightFromTheStart` | `redis.go:210`: FromEnv returns the list while the first resync is still running in a goroutine, and the empty list refuses nothing. | redis.go:113: "a service is correct from the moment it starts" |
| `RevocationSameSecond` | `SigningInAgainWorks` | `revocation.go:113`: A token's issue time has whole seconds and the cutoff does not, so a token minted after the cutoff in the same second is refused. | revocation.go:109: "Tokens minted afterwards — a fresh login by the same person — are unaffected" |
| `CatalogUnowned` | `CacheCurrent` | `catalog.go:346`: Create of a kind without owners returns before invalidate, and listings cached earlier lack the entry until they expire. | catalog.go:201: "Writes through this service invalidate explicitly, so in practice a change is visible on the next read" |
| `CatalogLateFill` | `CacheCurrent` | `catalog.go:551`: A read that queried before a write sets the cache after the write's sweep, and the old answer stays for up to catalogTTL. | catalog.go:201: "Writes through this service invalidate explicitly, so in practice a change is visible on the next read" |
| `CatalogResurrect` | `RetiredStaysRetired` | `catalog_write.go:149`: Update replaces by id alone the document it loaded, so an entry retired in between comes back live. | catalog_write.go:121: "Read the current document first, so the update is a full replace of a document that EXISTS" |
| `CatalogNameKept` | `RetiredNameIsFree` | `master_data.js:601`: uq_tracker_model (and uq_sensor_code, line 695) have no partial filter, so a retired entry keeps its name. | catalog_write.go:160: "every partial unique index filters on `deleted`, so removing an entry frees its name for reuse" |
| `CatalogRetiredReference` | `RetiredKeepsResolving` | `catalog.go:620`: Resolve filters retired entries out, and Validate reports them invalid. | catalog_write.go:161: "while the documents that reference it keep resolving" |
| `HistoryBackdated` | `NeverOnTwoVehicles` | `registry.go:970`: Fit refuses a date in the future and nothing else, so a fitting dated before an earlier one's end overlaps it, and VehicleAt answers whichever row it finds. | src/schema/master_data.js:763: "This is what stops the same device reporting for two vehicles at once" |
| `HistoryOvertaken` | `NeverOnTwoVehicles` | `registry.go:966`: without any date of a client, a Fit takes its date and commits after a later-dated Fit of the same device, which has closed the row before; the device is on two vehicles between the two dates. | the same line |
| `HistoryInverted` | `EndsAfterItBegan` | `registry.go:1007`, `:1068`: for the same reason a Fit or an Unfit closes a row at a date before the row began, and the row covers no moment. | devices.go:52: "An assignment covers `at` when it was fitted by then and either has not been removed or was removed afterwards" |
| `ViewsStaleShortcut` | `AlwaysListsWhatIsFitted` | `registry.go:541`, `:457`: UpdateVehicle writes back the trackerId it read before the device was taken off, and ListVehicles shows the device on the vehicle from then on. | models.go:439: "a writer that forgets shows a device on the wrong truck" |
| `HistoryLaterFitting` | `LaterFittingWins` | `devices.go:98`: fittedAtOf compares with any row of that vehicle and device, which may be an older or a later fitting than the one in force. | devices.go:80: "If the data says otherwise the later fitting wins" |
| `SitesEnded` | `EndedIsRefused` | `routes.go:81`: the routes authenticate without the revocation list, so the token of an ended session that is not single-device is let in until it expires. | middleware.go:52: "The one check that stands between a locally-verified token and two hours of access it should no longer have" |
| `SitesResurrect` | `RetiredStaysRetired` | `site_write.go:253`: UpdateSite replaces by id a copy it read before DeleteSite, and the site is live again. | site_write.go:266: "Soft, like every other removal here" ... "the name frees up because the unique index filters on `deleted`" |
| `FeedSkips` | `NothingSkipped` | `registry.go:105`: pages are skips over what is there at the time, so a document that leaves between two pages moves another over the boundary. | helpers.go:39: "can show the same document on two pages and skip another, which reads as data appearing and vanishing" |
| `FeedTies` | `NothingTwice` | `helpers.go:34`: a caller's sort is used without a tie-break, and rows it does not tell apart may come in another order for each page. | the same lines |
| `FeedFiltered` | `FiltersHold` | `registry.go:198`: ListDrivers (and the listings of vehicles and devices) accept `filtered` and do not look at it. | query.go:65: "a filter that is quietly ignored turns a filtered list into an unfiltered one" |
| `FeedDropped` | `FiltersHold` | `query.go:394`: FromProto passes over a clause on a field not offered, and `customerCompanyId` is not offered over gRPC. | query.go:374: "applying the same allowlist and clamping as the HTTP path"; server.go:560: "The gRPC allowlists mirror the HTTP ones" |
| `FeedSince` | `SinceMissesNothing` | `repository.go:120`: the stamp is taken before the write, so an older stamp may land over a newer one and takes the driver out of what changed since. | repository.go:216: "\"what changed recently\" silently misses rows" |

How to see each: the configuration named, checking the property of the row alone,
with these constants (those not named stay as they are).

| Row | Configuration | Constants |
|---|---|---|
| `FittingVehicleEdit` | `FittingTxn` | `Trackers` `{g1}`, `Dashcams` `{}`, `Vehicles` `{v1}`, `CanFail` `FALSE`, `Ops` `{"Fit", "UpdateVehicle"}` |
| `FittingDashcamRace` | `FittingTxn` | `Trackers` and `Dashcams` `{c1, c2}`, `Vehicles` `{v1}`, `Ops` `{"Fit"}` |
| `FittingRetireRace` | `FittingTxn` | `Trackers` `{g1}`, `Dashcams` `{}`, `Vehicles` `{v1}`, `Ops` `{"Fit", "DeleteVehicle"}` |
| `FittingLateDevice` | `FittingTxn` | `Trackers` `{g1, g2}`, `Dashcams` `{}`, `Vehicles` `{v1}`, `Ops` `{"Fit", "CreateTracker"}` |
| `FittingCrash` | `FittingStandalone` | `Requests` `{r1}`, `Lone` `{}`, `Ops` `{"Fit"}` |
| `FittingReown` | `FittingTxn` | `Requests` `{r1}`, `Companies` `{A, B}`, `Trackers` `{g1}`, `Dashcams` `{}`, `Vehicles` `{v1}`, `CanFail` `FALSE`, `Ops` `{"Fit", "UpdateTracker"}` |
| `FittingResurrect` | `FittingTxn` | `Trackers` `{g1}`, `Dashcams` `{}`, `Vehicles` `{v1}`, `Ops` `{"UpdateVehicle", "DeleteVehicle"}`, or the same of trackers |
| `FittingNotice` | `FittingTxn` | `Requests` `{r1}`, `Trackers` `{g1}`, `Dashcams` `{}`, `CanFail` `FALSE`, `Ops` `{"Fit"}` |
| `PairingTwoTrucks` | `PairingOneByOne` | `SPECIFICATION Spec`, `Drivers` `{d1}`, `Groups` `{}`, `CanFail` `FALSE`, `Ops` `{"CreateVehicle", "UpdateVehicle", "CreateDriver"}` |
| `PairingRetiredDriver` | `PairingOneByOne` | the same with `Vehicles` `{v1}` and `"DeleteDriver"` |
| `PairingLostGroup` | `PairingOneByOne` | `SPECIFICATION Spec`, `Drivers` and `Users` `{}`, `Vehicles` `{v1}`, `CanFail` `FALSE`, `Ops` `{"CreateVehicle", "UpdateVehicle", "CreateGroup", "DeleteGroup"}` |
| `PairingRelink` | `PairingOneByOne` | `Drivers` `{d1}`, `Vehicles` `{v1}`, `Groups` `{}`, `Users` `{u1, u2}`, `Ops` `{"CreateVehicle", "UpdateVehicle", "CreateDriver", "UpdateDriver"}` |
| `PairingSilentRelease` | `PairingOneByOne` | `Drivers` `{d1}`, `Vehicles` `{v1}`, `Groups` `{}`, `CanFail` `FALSE`, `Ops` `{"CreateVehicle", "CreateDriver", "DeleteDriver"}` |
| `RevocationOverwrite` | `RevocationWatch` | `Publishers` `{p1, p2}`, `Sessions` `{}`, `Second` 1, `FlakyLink` `FALSE`, `MaxTime` 3 |
| `RevocationLostRead` | `RevocationWatch` | `FlakyReads` `TRUE`, `Sessions` `{}`, `Second` 1, `FlakyLink` `FALSE`, `MaxTime` 2, `MaxPublishes` 1 |
| `RevocationStart` | `RevocationWatch` | `Sessions` `{}`, `Second` 1, `FlakyLink` `FALSE`, `MaxTime` 2, `MaxPublishes` 1, `MaxRestarts` 1, deadlock not checked |
| `RevocationSameSecond` | `RevocationWatch` | `Sessions` `{}`, `FlakyLink` `FALSE`, `MaxTime` 3, `MaxPublishes` 1, deadlock not checked |
| `CatalogUnowned` | `CatalogOneByOne` | `Kinds` `{sensor}`, `Owned` and `Shareable` `{}`, `Ids` `{i1}`, `Names` `{n1}`, `MaxWrites` 2 |
| `CatalogLateFill` | `CatalogOneByOne` | `Requests` `{r1, r2}`, `Concurrent` `TRUE`, `Companies` `{c1}`, `Clients` `{c1, Staff, Nobody}`, `Ids` `{i1}`, `Names` `{n1}`, `MaxWrites` 2 |
| `CatalogResurrect` | `CatalogConcurrent` | as they are |
| `CatalogNameKept` | `CatalogOneByOne` | `Kinds` `{sensor}`, `Owned` and `Shareable` `{}`, `Names` `{n1}`, `MaxWrites` 2 |
| `CatalogRetiredReference` | `CatalogOneByOne` | `Ids` `{i1}`, `Names` `{n1}`, `MaxWrites` 2 |
| `HistoryBackdated`, `HistoryLaterFitting` | `HistoryDated` | as they are |
| `HistoryOvertaken`, `HistoryInverted` | `HistoryDated` | `Backdating` `FALSE`, `Slack` 0, `MaxTime` 3 |
| `ViewsStaleShortcut` | `Views` | as they are |
| `SitesEnded`, `SitesResurrect` | `Sites` | without `SYMMETRY` |
| `FeedSkips` | `Feed` without `SYMMETRY` | `Queries <- MCById`, `Writers` `{w1}` |
| `FeedTies` | `Feed` without `SYMMETRY` | `Queries <- MCByStatus`, `Writers` `{w1}`, `MaxWrites` 0 |
| `FeedFiltered`, `FeedDropped` | `Feed` without `SYMMETRY` | the same with `MCFiltered`, `MCDropped` |
| `FeedSince` | `Feed` without `SYMMETRY` | `Queries <- MCSince`, `MaxWrites` 4 |

Also seen while reading, and true of the models where they have the part:

- *Fleet reads.* `GetTrucksByDriver` over gRPC passes the company `""` to
  `withDevices`, so its IMEI is always empty (`fleet.go:189`, against `fleet.go:61`).
  `GetTruck` does not apply `haulingUnits`, and answers a trailer as a truck.
  `ListTrackers` with no company lists every company's devices
  (`registry.go:668-674`), where `server.go:288` says it "lists Karlo's own stock";
  narrowed by vehicle, it may list a device for a vehicle it is no longer on,
  because the fittings are resolved later. `updateTracker` announces a re-owned
  device to its new owner only.
- *Contract.* `deleted` and `documents` of a truck, `deleted` of a warehouse and the
  dates of a catalogue item are in the messages and never set; a site's customer and
  district do not travel (`Wire`, at `ContractKept`). `FromProto` never sets `Err`, so
  the checks of it in the gRPC methods are dead code. `groupRefs` labels an id that
  is asked for under two kinds with the last one.
- *Gate.* Staff who name no company are refused on every catalogue route, and with
  the header they are not staff any more (`handlers.go:43`, `:175`, against
  `routes.go:89-91`). `trackerScope` does not trim `X-Acting-For`, `caller` does.
  gRPC reflection is a stream, which the unary interceptor does not see. Swagger is
  served in production too.
- *Process.* A listener that fails ends the process without a drain, and the client
  of the authentication service is closed beneath requests under way; HTTP requests
  accepted while gRPC drains may be left no time at all; the health may be
  set to serving after not serving; the last line of a failed start does not reach
  a closed collector. `RequestLogger` "emits one structured line per request" but
  none when a handler panics, and `writeError` reads `request_id` where the logger
  sets `requestID`. A write that went through may answer 404, when its read-back
  finds the entry gone.
- *Documents.* `UpdateDocument` replaces by id and brings back a document deleted
  meanwhile; one may be created for an owner retired meanwhile; those of a retired
  vehicle stay in the expiry sweep. A comment of `models.Document` says "VEHICLES
  ONLY", and drivers have documents.
- *Seed.* `README.md:66-68` describes a dry run by default and `-confirm`; the code
  writes unless it is told to rehearse. `seed.go`'s header says entries are matched by
  collection and code, the code matches code or name: an entry found by code and
  another by name end in a duplicate key or in two entries of one code. Two seeds
  at once, or a seed and an edit, may insert an entry twice where no index stands
  (`NothingTwice` of `Seed`). Nothing sweeps the cache after seeding. The
  `Makefile` runs a `cmd/seed` that is not there, and the README's prefix `md_` is
  empty in the code.
- *Others.* `UpdateSite` does not write `CustomerCompanyID`, which `site_write.go:54`
  says is "Sent as \"\" on update to clear", and `Unfit` accepts a date before the
  fitting began or in the future.

## 5. What is proved

All theorems hold for every value of the constants that satisfies the named
assumptions (`ReferencesAssumption`, `PairingAssumption`, `RevocationAssumption`,
`CatalogAssumption`, `HistoryAssumption`, `GateAssumption`, `SubjectAssumption`,
`SitesAssumption`, `ListingAssumption`, `FeedAssumption`, `DocumentsAssumption`,
`SurfaceAssumption`, `ServerAssumption`, `CallsAssumption`, `SeedAssumption`, and the
`DeploymentAssumption` of `Fitting` and of `Deployment`), which say what the constants
are; what a theorem assumes beyond them is in its statement. Any number of requests,
documents and companies, any failure and any interleaving, but where a theorem says
that requests come one at a time. Every safety property that a run checks is stated by
a theorem.

**FittingProofs.** `TypeCorrect` needs `TypeInv`: `TypeOK` and, for each label,
that the references the next statement uses are not null. `OneLiveRow` needs
`RowInv`: a transaction's snapshot of the rows is current for every device not in
its `missed` set (`RowsCurrent`), and transactional labels occur only with
transactions (`ModeOK`); the commit then closes every row of the device there is.
`ShortcutInStep` and `OneGPS` need `ShortcutInv`: the snapshot itself satisfies
`ShortcutAgrees` (`SnapshotAgrees`), it is current for every vehicle not in
`missed` (`VehiclesCurrent`), and the deployment has transactions and the
operations `SafeOps`, which leave out `UpdateVehicle`, `CreateTracker` and
`DeleteTracker` (`SafeRun`: the list of devices a Fit read is still the list of
live ones). With `UpdateVehicle` the property is false, as
`FittingVehicleEdit` of section 4 shows, and with `CreateTracker` two GPS units end up on
one vehicle, as `FittingLateDevice` of section 4 shows.
`FittingKeepsPromise` shows under the same assumptions that every step maps to
a step of `FittingPromise` or to a stutter, with `device <- trackerId`.

One request at a time (`OneRequest`), with and without
transactions and with failures after any statement: `OneOfEachKind` and
`NothingOnRetired`. `AloneInv` says at each
label what is known to have been done and can no longer be undone by others: the
vehicle and device that were read are still live (`StillThere`), the rows and
shortcuts that earlier statements closed are closed (`DoneSoFar`), a snapshot is
the database (`SeesAll`), and what is about to be retired carries nothing (`Unused`).
With two requests
`FittingDashcamRace` and `FittingRetireRace` refute the two.

`TheNextFitRepairs` and `AloneFitsNothingRetired` are about the requests of `Lone`, among any
number of others that race and die. `RepairInv` assumes nothing of the rows and the
shortcuts such a request finds: it says at each label what its own statements have put
right (`Repairing`), that what it read and counted still holds (`StillThere`, `SeesAll`,
`Unused`), and that nobody else is under way to undo it (`NobodyElse`).

**PairingProofs.** `PairingTypes` strengthens `TypeOK` with what each label's copy
holds. `HalvesInStep` needs `HalvesInv`: besides the vehicles, every copy in
flight has halves that agree (`CopyAgrees`), and neither names a driver that has
no document yet; it assumes that drivers are not edited
(`"UpdateDriver" \notin Ops`), without which `PairingRelink` of section 4 refutes it.

With `OneByOne`, any number of requests of which one acts
at a time: `OneTruckEach` needs `TruckInv`, that the driver of the copy about to be
written is on no other vehicle in service (`CopyFree`), which `unpair` establishes
and which holds wherever an earlier request failed. `OnlyLiveDrivers`,
`OnlyLiveGroups` and `AnnouncedButReleases` need `SettledInv`: while no request has
failed, what is unfinished is the business of the request under way, at a label
after which it is settled (`LiveFor`, `GroupFor`, `ToldFor`); of the notices, that a
document not announced is in `released` or among those the request is still to announce. With two at once
`PairingTwoTrucks`, `PairingRetiredDriver` and `PairingLostGroup` refute the first three.

**CatalogProofs.** `CatalogTypes` keeps what a request carries typed (`Carries`).
`TenantsApart` needs `LeakInv`: not only cached answers but the answers in the
hands of a request about to fill are fit for the scope they were asked in; owners
never change once an id is minted (`OwnersStand`), which is what makes an old
answer safe. `CompaniesWriteTheirOwn` needs `CopyInv`: the copy a request loaded
has the owner the document has, whatever was written since.
`CacheFollowsWrites` assumes that requests come one at a time and that no cache call
fails. It needs `CurrentInv`: an answer on its way to the cache is still the database's
(`AnswerStands`), and every cached key is fresh or the sweep under way is still to come
to it (`FreshOrSwept`), so that it is fresh when the sweep is over. The
theorem is for the kinds a company can own (`Kinds = Owned`), because a `Create` of
any other kind sweeps nothing.

**RevocationProofs.** `RevocationTypes` is for any number of publishers, failing reads
and restarts. `NothingUnrevoked` needs `KeptInv`: whatever the service has heard of, or
will hear of, is in Redis, or a later revocation of the same id is, or the tokens it
refuses have expired (`ListKept`, `QueueKept`, `PubKept`); a key outlives those tokens
(`KeysLast`); and a resync has read, of every key it is done with, at least what the
list had (`ResyncCovers`), so that replacing the list loses nothing. It assumes one
publisher (two may set a key in the other order than they took their times), that
a key that is there can be read (`redis.go` skips one whose `Get` fails), and that
the service does not restart, since its list is empty until the first resync ends.

**DeviceHistoryProofs.** `OneDevice`, `OneVehicle`, `TheQuestionsAgree` and
`ThePeriodsAreComplete` are for any number of requests that commit in any order, with
any dates clients send. They rest on `HistoryTypes` and `HistoryInv`: a device and a vehicle have one open
row (`OneOpen`), and two rows of one device or vehicle share no moment but the
contested ones (`Disjoint`). A commit can only add an overlap by its new row, from its
own date on, with a row that ends later; that end is a date written before, so the
moments of the overlap are among those the commit contests. `IMEIsAt` is a loop
over the rows that cover a moment, of which there is at most one where nothing is
contested (`OneCarried`, `OneTurn`). `PeriodsComplete` holds of overlapping rows too: whatever
row the loop ends with, it is one that covers the moment.

With dates of the clock (`~Backdating`) `ThePastStands` says what may still change: a
commit changes no moment before its date, and a request that begins takes the present.
`OneRequestInOrder` says that with one request at a time nothing is ever contested
(`OrderInv`: the date of the request under way is no earlier than any written), so that
the first theorems are then about every moment. With two requests `HistoryOvertaken` of
section 4 shows that something is, and with dates of clients `HistoryBackdated` does.

`ListedAsFitted` is about `Views` and needs `RegisterInv`: on a vehicle that is not
stale the copy is what is fitted (`ShortcutsTrue`), whatever edits hold copies; and
`ListInv`, that a listing carries what its first statement found to its answer.
`ListingsAreOfAMoment` needs `ReaderInv`: the moment `ListTrucks` asks about lies between its
first statement and its last, and nothing is dated after the clock (`DatesPast`); an
edit changes no row, so it disturbs neither.

**SitesProofs.** `OwnersOnly` needs `OwnerInv`: a copy in flight is of a site that
is still there, of the company the request was let in for, and its token may write
that company's sites (`Held`). The gate is only looked at when the copy is read,
and a replace goes by id alone; that no write ever moves a site to another company
is what carries the check to the replace. `AdmittedMayWrite` is the lemma about
the gate itself. `DisplacedSessions` is inductive as it stands.
`SitesTypes`, `AlwaysOneDefault` and `OlderReaders` need `SitesGood`: every site, and
every copy in a request's hands, has its fields, one flagged contact if it has any, and
older fields that are written from the flagged one (`GoodSite`). Under it lie lemmas
about `ApplyPICs` for any list of contacts, and that the kept entries make a list without
gaps (`KeptIsAList`): the places are counted, and that each is taken
(`EveryPlaceIsTaken`) goes by the least entry that reaches it.

**FeedProofs.** Every page is counted and sorted afresh, so an invariant cannot speak of
the list the pages are cut from. `TheListingIsExact` needs `FirstPages`, which speaks of
what has been shown as a set: it has as many documents as the pages so far hold, and
each of them comes before each one not shown. In whatever list the next page is
cut from these are the first (`ShownIsFirst`, from `SameFirst`: two such sets of a size are
one). `FilteredIsStart` says that the ids a `Distinct` read are still the right ones.
`TheFeedIsComplete` needs `Awaited`: of a document not yet shown, as many documents come
before it as the pages hold. Writes between pages only add to these, and a page takes
as many as it holds (`CountBefore`). The arithmetic of `TotalPages` is the
lemma `PageCount`. `FeedTypes` needs `WalkGood`, the shape of `walk` and where its pages
have got to.

**DeploymentProofs.** A first lemma reduces every step of the composition to what it
does to one request: it comes, is let in, is answered or is cut off (`Moves`).
`ThePortIsNeverOpen` needs `Loaded`: a process that serves has passed `Load` and was
not started to seed. `RequestsStayWithinScope` rests on lemmas about `caller` and
`trackerScope` for any principal and any header. `NothingCutEarly` needs `ShutInv`: past
the phase that drains a listener either the listener has nothing under way or the
deadline has passed (`Orderly`), and a request has been cut off only after the deadline
or by an exit that no signal caused (`CutLate`). `OneOwnerAlways` and `DocumentsKeepTheirPlace` need `DocInv`: every stored
document has one owner (`Filed`), and a copy in a request's hands has the company and
the owner of the document it will replace (`Copies`).
`TheSeedTakes` needs `SeedInv`: what is left of a kind is the end of its list in the file,
and provinces come before all else (`OnItsWay`); and while nobody edits, every entry
behind the task is shown by a document of the store, a province under the id the task
remembers, a city pointing at it (`Written`). That two entries of a file never write the
same document is from the assumption that no two of a kind have a code or a name in common.

## 6. What is only model-checked

- Liveness (`EveryRevocationTakesEffect`, `CacheRecovers`, `ShutdownEnds`) and anything with
  `ENABLED`: beyond the proof system's reach.
- What `SelectSeq` keeps (`FromProto` in `Listing`): it is recursive and opaque to the
  provers. The theorems of `Feed` hold whatever it returns; that gRPC passes over exactly
  the clauses not offered is left to the runs.
- Which of the covering rows `IMEIsAt` answers with when rows overlap (`HistoryLaterFitting`);
  that it is one of them is proved.
- The refutations of section 4.

## 7. Plan

Done in order of importance: `Fitting`, `Pairing`, `Revocation`, `Catalog`,
`DeviceHistory`, `Gate` with `Contacts` and `Sites`, `Listing` with `Feed`, `Views`,
`Wire` and `Surface`, `Server`, `Seed` and `Documents` with `Deployment`; then the theorems.
Left:

1. Weaker assumptions: `NothingUnrevoked` between restarts, `CacheFollowsWrites` with
   failing reads of the cache.
2. `Gate` composed with `Revocation`'s list: the wiring of the services that do use
   it, which is not in this repository.

## 8. Not modelled

- Formats: the lines and fields of the log, the wording and layout of responses and
  of errors. That a request is logged and a panic answered is in `Server`.
- The decoding of JSON and the normalisation of text, which work on strings: a
  normalised name is an opaque value (`Norm` in `Seed`), a body a member of a small
  set.
- Generated code, about half of all lines: marshalling, client and server stubs and
  the Swagger text. Of it the fields and getters of this service's messages are in
  `Wire`. The messages of the notification and business services are not used by
  this service.
- `.superseded`, about a seventh of all lines, which no build includes.
- Limits of message sizes, keepalives and the retries of connections, which gRPC, the
  MongoDB driver and the Redis client do out of the code's sight.

# cee-exporter in TLA+

cee-exporter receives file audit events from Dell storage (CEPA: PowerStore, OneFS and the
Dell CEE framework) over HTTP and forwards them to a SIEM: GELF, syslog, Beats, `.evtx`
files or the Windows Event Log. Its publishers forget an event once it is acknowledged, so
what matters is that an acknowledged event is forwarded or *counted* as lost, that shutdown
does not lose events silently, and that publishers are always answered in time.

The modules here model that path and are kept beside the code: a change to a mapped function
(`PROJECT.json`, "map") should be followed by a change to its definition.

## The system

| Component | State | Operations | What is hard |
|---|---|---|---|
| Event queue, `pkg/queue` | bounded channel, read-write lock, closed flag, wait group, in-flight counter | `Enqueue`, `Start`, `work`/`nextBatch`/`writeBatch`, `Stop` | handlers against `Stop`, partial batches at shutdown, drain deadline against a stuck writer, counters read in pieces |
| CEPA handler, `pkg/server` | slot semaphore, two sampling counters | `ServeHTTP`, `acquireSlot`, `respond`, `enqueue` | liveness must not wait behind events, replies before work, failures after the acknowledgement, stalled bodies |
| Metrics store, `pkg/metrics` | atomic counters, gauges, peer table, two breakdown maps | `Record*`, `SetQueueDepth`, snapshots | double-checked locks, caps, stores out of order |
| Writers, `pkg/evtx` | a connection or a file, a mutex | `WriteEvent`, `WriteBatch`, `Rotate`, `Close` | partial writes, reconnect and retry, one failed event of a batch, one failed target of several |
| Parsers, `pkg/parser` | none | `Classify`, decode and parse functions | byte orders, odd lengths and split surrogates, payloads cut anywhere, time stamps at 32- and 64-bit limits, numbers in two bases |
| Mapper, `pkg/mapper` | none | `Map` | three tables that must agree |
| Prometheus, `pkg/prometheus`; health | none | render the counters | the help texts promise what the series mean |
| Lifecycle, `cmd/cee-exporter` | signals, contexts, HTTP servers | `run`, SIGHUP, Windows service `Start`/`Stop` | shutdown order, exits that skip the drain, rotation against writes |
| Configuration, TLS/ACME, logging | none after start-up | | |

**Interactions.** `net/http` runs one goroutine for each connection; each is a *handler* that
calls `Handler.ServeHTTP`. A handler takes a slot, replies, parses, and calls `Queue.Enqueue`
once for each event. Queue *workers* take events from the channel and call
`Writer.WriteBatch`. `main.run` waits for a signal, calls `http.Server.Shutdown` (30 s), and
then `Queue.Stop` whether or not handlers are still running. All of them share `metrics.M`.

`PROJECT.json` lists every component with what is modelled of it, and under "hazards" what a
test of this code hardly reaches, each at its line, with the properties that cover it.

## Modules

| Module | Stands for |
|---|---|
| `Queue` | `pkg/queue/queue.go`: one action for each access to shared state another goroutine can tell |
| `QueueProps` | what the queue guarantees, its fairness, and a statement of the source it does not keep |
| `EventLedger` | the abstract specification: events are pending, then written or failed; nothing opens again |
| `MCQueue` | model values and symmetry for TLC |
| `QueueProofs` | type correctness; the lock excludes sends after the close; custody, order, cancellation and the close of the writer; `Queue` implements `EventLedger`; its counters are exact |
| `Ingress` | `pkg/server/server.go`: concurrent `ServeHTTP` calls, slots, replies, dialects, `enqueue` |
| `IngressProps` | what the handler guarantees, its fairness, and a statement it does not keep |
| `MCIngress` | the requests and handlers of the TLC instances |
| `IngressProofs` | the semaphore, the bound on bodies, acknowledged events, and the balance of the counters |
| `Writers` | `pkg/evtx`: concurrent `WriteBatch` calls on a backend or a `MultiWriter` |
| `WritersProps`, `MCWriters` | what the backends guarantee to the queue; the TLC instance |
| `WritersProofs` | connections are not leaked; what becomes of the events of a batch on every backend |
| `Metrics` | `pkg/metrics`: the peer table and the two event breakdowns |
| `MetricsProps`, `MCMetrics` | what the labelled series say of the calls; the TLC instance |
| `MetricsProofs` | types and caps; exactness of the peers' counters, of the two breakdowns and of the drop counters |
| `Lifecycle` | `cmd/cee-exporter`: `run`, signals, SIGHUP rotation, the Windows service manager |
| `LifecycleProps`, `MCLifecycle` | what starting and ending the process guarantees, its fairness, and a statement it does not keep; the TLC instance |
| `LifecycleProofs` | orderly shutdown, and the exits that lose events |
| `Wire` | `pkg/parser/utf16.go` and `classify.go` on bytes: detection, decoding, encoding, the root element |
| `Payload` | `checkevent.go`, `onefs.go`, `parser.go` and `pkg/mapper`: from the attributes of an event to its Windows event |
| `Delivery` | one payload through `ServeHTTP`, in the order of its steps: classified, answered, parsed, mapped |
| `DeliveryProps`, `MCDelivery` | that the outcome is what the publisher meant; the TLC instance |
| `DeliveryProofs` | what UTF-8, UTF-16 and numerals do to any text and number, cut anywhere; from it all six properties of `Delivery` |
| `Budget` | `pkg/evtx/writer_evtx_notwindows.go`: cutting the fields of an event until they fit one record |
| `BudgetProps`, `MCBudget` | what a record has to be; the TLC instance |
| `BudgetProofs` | the record fits, long fields go first, truncations are counted |
| `SumTheorems` | lemmas on sums over finite sets, and the smallest counterexamples they are proved with |

A definition marked FAULT in a comment is not part of a `Next`: it is a plausible mistake
(a dropped guard, a missing reset) used to show that a property notices it.

### Queue

The variables are the fields of `Queue` under their own names (`ch`, `closed`, `inFlight`),
the lock (`readers`, `lockWriter`: Go's `RWMutex` refuses new readers once a writer has
announced itself), control points and locals of each goroutine (`pcP`/`lenP`,
`pcW`/`batch`/`more`/`lenW`, `pcS`/`done`/`timedOut`/`undrained`), the counters of `metrics.M`
and four history variables (`offered`, `accepted`, `written`, `failed`). An event is the number
of its acceptance, so custody and order can be stated without payloads.

`SetQueueDepth(len(q.ch))` is two steps, a read and a store; so is the drain report,
`len(q.ch)` and `inFlight`. `writeBatch` adds to `inFlight`, calls the writer, counts the
outcome, and only then runs the deferred subtraction. The writer is external: it returns nil,
returns an error, or (no fairness) never returns. A drain deadline may pass at any moment
while `Stop` waits. `Stop` may run without `Start`, twice, or concurrently.

### Ingress

A handler is a goroutine serving one request at a time, `pc` its place in `ServeHTTP`. A
request is a record of what the handler tells apart: method, dialect, length, whether it is
UTF-16, and the number of events parsing it returns (or that it fails). `slots` and `waiters`
are the buffered channel `h.slots` and the senders parked on it, which Go serves first come
first served: a release hands the place to the first of them. `reply` is what has been written
to the `ResponseWriter`, `sent` whether it has left the buffer of net/http (on a flush, or when
the handler returns; every reply of this program is below the 4 KiB at which net/http sends by
itself). `took` and `lost` are history: what became of the current request's events.
The queue is what `Queue` promises: it takes an event, or refuses it and counts a drop.

### Writers

`targets` is the list a `MultiWriter` walks, each backend one of four protocols: GELF and syslog
differ only in the layout of a message, so both are `tcp` or `udp`; `beats` is the Lumberjack
client; `serial` is `writeBatchSerially`, the write path of the `.evtx` file and of the Windows
Event Log. A worker's `frames` are the writes it still has to make: one for the batch on TCP and
Beats, one for each event elsewhere. Events that cannot be encoded are chosen freely. The transport
is external: an open connection takes a write whole, or fails having taken a part of it
(`TakenByFailure`); a dial succeeds or fails. `taken` is what the transport took, so `WrittenIsTaken`
says that `WriteBatch` never returns nil for an event no transport took; it says nothing of a
receiver that loses what it took. The difference between the reconnects is kept: GELF and syslog dial
and then close, Beats closes and then dials. The context of `WriteBatch` matters only to the Beats
TLS dial, which it can fail; a failed dial is among the outcomes already. The protocol that calls `Close` only after the last write is
proved of `Queue` (`CloseComesLast`) and assumed by the guard of `Close` here.

### Metrics

A Go map of counters is the set of its keys and a count for each key. `RecordPeerRequestAt` and
`recordBreakdown` look under a read lock, and then act after it: those are separate actions, so that
other handlers run between them. The fast path of `recordBreakdown` is three steps, an add for each
pointer it read and one for what was dropped; the slow path is one, under the write lock. History
variables count the calls made, whatever became of them. `Registration` and `Heartbeat` follow the
handler's own request, as in `ServeHTTP`.

### Lifecycle

`run` is the control point of `main.run`, whose steps follow the order of the function: the
configuration is validated, the backends are opened one by one, SIGHUP is wired, the queue and the
HTTP server start, and only then is `signal.Notify` called for SIGTERM, so an earlier one takes the
default action. `exit` says which of the ends of the process was taken, one of the `os.Exit` calls
among them. The queue and its workers are reduced to what `Queue` promises: `pending` is what was
accepted and not settled, `Stop` waits for it up to a deadline. `due` is history: the `.evtx`
backends that have not been asked to rotate since the last SIGHUP. The channel of installSIGHUP holds
one signal. net/http, os/signal and the service library are external: `Shutdown` closes the listener
and waits for the handlers, `service.Run` returns after `Stop` did, which is how the library behaves
when the service manager asks for a stop. Targets of a MultiWriter are never themselves `multi`, and
the commands that are not the daemon (install, uninstall, `-emit-test-events`) are left out, as are
the metrics server, which shares no state with `run`, and a Ctrl-C in a Windows console.

### Budget

A value is the sequence of the widths of its runes in UTF-8, all that `truncateField` and
`enforceEncodedBudget` look at: a rune of four bytes is two units of UTF-16. Clipping all fields is
one step, each round of the loop another; of several longest values any may be halved, because Go
does not fix the order of a map. The constants are scaled down (a cap of 12 bytes, a marker of 3),
and the budget takes two values, one that can be met and one that cannot. `Roomy` is the
condition under which the record has to fit: values of up to two markers never shrink any further. For the
real constants it holds, with 19 fields and a marker of 14 bytes: 19 * (4 + 4 * 14) = 1140 <= 60900.

### Wire, Payload and Delivery

`Ingress` knows of a payload only its dialect and how many events it yields; these three modules say
what it becomes. `Wire` works on real bytes, because its hazards are those of bytes: the branches of
`DecodeBody`, UTF-16 in either order, surrogate pairs, the UTF-8 that results. Names of elements
are shortened to one letter and `<?xml` to `<?`. `Payload` has numbers as their digits with or
without `0x`, in words of `Word` values (2^32 in the code), where a 64-bit number is two words: a packed Dell CEE
time stamp has its seconds in the upper one. An attribute in base64 is the bytes it stands for.
`encoding/xml` is external: it returns the document if the bytes up to the end of its root element
arrived, else an error. It refuses a declaration of an encoding other than UTF-8 or of a version other
than 1.0; a document says which kind its declaration is, so that what `rootIs` skips and the parsers refuse
is not taken for readable. The server of a Dell CEE event is a text, and loses the white space of Unicode
at its ends (`strings.TrimSpace`); that of OneFS comes in base64 and is not trimmed. An empty name in base64 is an
error: a OneFS event without a path is dropped, one without a server has an empty one.

A *publication* in `Delivery` is an event together with the way its publisher writes it: with or
without `0x`, seconds or packed, a path plain, in base64, in an encoding the program does not know.
`Element` turns it into attributes, so a property can compare the record that is queued with the
event that was meant, across all the conversions between them. A document is sent whole or cut at any
byte, in UTF-8 or in one of the four forms of UTF-16. `IsDocument` says what publishers send, and
`DeliveryAssumption` that `Documents` are such; TLC evaluates it for the documents of its instance. A
document is a text of code points without zero and surrogates; before its root there is white space or one
declaration, of either kind; it is ASCII up to the root's name, which ends there; a `>` ends the root, and only white space
follows. A handshake is one empty element, without another `>`. The events of a document are those of
its publisher: VCAPS has a vocabulary of its own, in which none of the mapper's descriptions occurs, user
ids are Dell CEE's, and a path, or a server of OneFS, begins with a character of Latin-1. What the handler does concurrently, its slots and its
failing replies, is in `Ingress`.

## Runs

| Run | Shows | Bounds |
|---|---|---|
| `queue` | all safety properties of the queue and that it implements `EventLedger` | 2 handlers, 2 workers, 2 Stops, channel of 2, batches of 2, 4 offers |
| `queue_live` | `Enqueue` and `Stop` return although the writer may hang; accepted events settle if writes return | 1 handler, 1 worker, 2 Stops, channel of 1, batches of 2, 3 offers |
| `queue_report` | *violated*: the drain report covers every unwritten event | 1 of each |
| `ingress` | all safety properties of the handler | 2 handlers, 1 slot, channel of 2, 3 requests out of 13 kinds |
| `ingress_live` | heartbeats are answered while bodies stall; nobody waits for a slot for ever | 3 handlers, 1 slot, 3 requests |
| `ingress_ack` | *violated*: a reply is on the wire before its events are queued | 1 handler |
| `writers` | nil means taken by every backend, every event is tried everywhere, a retry repeats its own write at most once, batches do not mix, one connection | 2 workers, 6 configurations of backends, batches of 1 or 2, 3 events |
| `metrics` | series that are shown are exact, drop counters account for the rest, caps hold | 2 handlers, 3 publishers for 2 places, 2 types and 2 servers for 1 place each, 5 calls |
| `lifecycle` | an orderly shutdown loses nothing; which ends of the process lose events; signals take effect | both platforms, 7 output sections, 2 handlers, 3 events, 2 SIGHUPs |
| `lifecycle_service` | *violated*: a stop by the Windows service manager drains the queue | 1 handler, 1 event |
| `budget` | the record fits if it can, no rune is split, short fields outlive longer ones, the counter tells, the loop ends | 3 fields over 9 values, 2 budgets |
| `delivery` | what is decoded is what arrived; a cut payload makes nothing; each is answered as what it is, readably; the records have the time, object, actor, server and kind of the events that were sent | words of 4096 values, event codes of bits 0 to 21 and two without a meaning, 10 skeletons of documents cut at every byte, each with a declaration that is read and one that is refused, 9 servers with and without white space, empty names, 5 encodings, 1 or 2 events |

*Why the bounds are enough.* With a channel and batches of 2 and 4 offers, the channel is
full, empty and in between, a batch is full, partial and last, an event waits behind a batch in
either worker, and an offer meets a full, an open, a closing and a closed queue; two Stops are
the second call and the concurrent one. All safety properties of the passing runs are proved without
bounds as well. For the handler, one slot and two handlers make every
acquisition contended or free; three handlers make two waiters, so the order of waiting counts.
For the writers, a batch of two is what makes a failure partial, and a third event belongs to the
other worker, before, between or after. For the metrics, every table can be empty, filling and full,
with the race of two inserts of one label and of two labels for the last place.
Two SIGHUPs are one that comes during the rotation for another, three events one settled, one
in a handler and one in the queue; the seven output sections are every kind of backend alone, valid
and not, and a MultiWriter with and without a backend that cannot be opened. For the budget, three
fields are the longest, one that ties with it and a short one; the values lie below, at and above the
cap, and those of wide runes make a cut fall inside a rune. For the payloads, the seconds are the
first, the last and those around the sign bit of a word; the lower word and the microseconds are zero,
their largest, and one above; the codes go one bit past the table; the texts have characters of one, two, three
and four bytes of UTF-8, so that a cut falls inside a unit, a pair and an encoded rune.
Lengths 1, 2-3 and 4 stand for a body whole in the probe, within the cap, and over it.
`CHECK_DEADLOCK FALSE` is set because the offers, requests, events and Stops of a behaviour run out, or
its one payload ends, and the system then rests.

*What the violated properties say.* Each is a statement of a comment or a document of the
repository, quoted under "findings":
- the drain report can miss a batch between the channel and `inFlight` (`queue.go:359`), so a
  timed-out shutdown may report fewer lost events than it lost;
- the OneFS reply is not flushed before parse and enqueue, unlike that of Dell CEE;
- a stop by the Windows service manager cancels the context of `run` and does not wait for it
  (`service_windows.go:33`): `main` may return while the queue is still being drained.

*Where two comments disagree.* A OneFS heartbeat (`CheckFileRequest`, action 9) is counted by
`RecordPeerHeartbeat` (`server.go:437`), and `AnsweredAsAsked` says so. The comment of that method
(`metrics.go:373-375`) and `CHANGELOG.md:130` agree. The comment of `RecordPeerRegistration`
(`metrics.go:355-357`: "in either dialect: PowerStore's `<RegisterRequest>` or PowerScale's `<CheckFileRequest>`
with action 9") and `operator-guide.md:427` are out of date: `cee_cepa_registrations_total` of a
PowerScale publisher stays 0.

### Fairness

`QueueProps!FairSpec`: a goroutine that can run does (weak fairness of each handler's Enqueue
once called, each worker, each Stop once called), and a timer that is running fires. Nothing is
assumed of callers, and nothing of the writer: `CallsReturn`, of `Enqueue` and of `Stop`, holds even if
`WriteBatch` never returns. `AcceptedIsSettled` assumes that it does (`WritesReturn`), which the
write deadlines of the socket writers justify, on Linux file writes the operating system.
A send on a channel, `RLock` and `wg.Wait` are disabled or enabled as in Go; weak fairness is
enough because nothing that enables them is taken away again for ever.

`IngressProps!FairSpec`: a handler that can go on does. Reading the rest of a body is left out,
because a publisher may stall it; `EveryRequestEnds` assumes that bodies end (`BodiesEnd`: the
server's 10 s `ReadTimeout`). Parked handlers are woken by the release itself, in order, as Go's
channels do.

`LifecycleProps!FairSpec`: `run`, the SIGHUP goroutine and the return of `service.Run` go on when they
can, and the two deadlines of shutdown pass. Nothing is assumed of handlers and of the queue's workers:
`StopEndsProcess` holds although both may hang. `BudgetProps!FairSpec`: the loop is sequential and goes
on while it can.

## Proofs

The theorems about the queue assume only `QueueAssumption`: finite sets of goroutines, at least one worker
(`withDefaults` replaces a smaller number), a channel and a batch limit of at least one.

- `TypeCorrect`: `Spec => []TypeOK`, by a lemma for each group of actions.
- `SendsPrecedeClose`: `Spec => []NoSendOnClosedChannel`. The property is not inductive; `LockInv`
  adds that a handler between the check of `closed` and its return holds the read lock
  (`ReadersHoldLock`), and that a Stop that drains has closed the channel, alone
  (`DrainFollowsClose`).
- `EventsInCustody` and `EventsInOrder`: from `CustodyInv`. The channel is always the last
  `Len(ch)` numbers of `1..accepted`, in order (`ChannelIsSuffix`), batches are increasing and
  hold only numbers already taken (`BatchesAreTaken`), and a taken event is held or settled
  (`TakenIsHeldOrSettled`); from these follow that no event is in two places and none is missing.
- `WritesAreNotCutShort` and `CloseComesLast`: from `DrainInv` and `WorkersEnd`: a done channel is closed
  only when no worker runs, a worker exits only when the channel is closed and empty, and workers
  never start again.
- `QueueRefinesLedger`: `Spec => ImplementsLedger`. The pending events of the ledger are mapped to what
  the channel and the workers hold. `PendingIsUnsettled` shows, from `CustodyInv`, that this is
  `1..accepted` without what was written and failed, so a step of the queue is a step of the ledger
  as soon as it changes those three as the ledger does. Two facts are needed besides: a batch is never longer
  than the batch limit and not empty where it is written (`BatchSizes`), and the number of
  accepted events stays within the offers (`OffersBound`). `LedgerStep` then goes through the actions: an acceptance opens an
  event, the return of `WriteBatch` settles a batch, and every other step is a stutter.
- `CountersAreExact`: `Spec => []CountersMatchEvents`, and from it `NothingUnaccounted`:
  `Spec => []CleanStopBalances`. Each counter has an invariant of its own: `OutcomesCounted` (a batch adds to a
  counter exactly the events it adds to `written` or `failed`, which are new to it by custody),
  `InFlightCounted` (the sum of the batches between the add and the deferred subtraction),
  `DropsCounted` (what was refused, and what every Stop reported), and the bounds of the batches. A Stop that returned
  in time has found the workers gone and, by `ReportInv`, reported nothing, so that with no call in progress the
  counters add up to what was offered.

The theorems about the handler assume only `IngressAssumption`.

- `SemaphoreBalances`: `Spec => []SlotsBalance`, by `SlotInv`: the property with the types, at most
  `MaxConcurrentRequests` slots, and that a handler at a place that has a slot is one of the holders
  (`WorkersHold`). Most actions leave the semaphore alone (`Quiet`, one lemma for all of them); the rest
  are the grant, the park, the release and the hand-over to the first waiter, a lemma for each.
- `BodiesAreBounded`: what is at a long body holds a slot, and slots are counted.
- `AcknowledgedEvents`: `Spec => []AcknowledgedIsAccounted`, by an account for each handler
  (`Accounts`): nothing is parsed unless its reply was written; in the loop of `enqueue`, what was queued,
  what was counted as dropped and what is left are together the events of the request; and at the return all of
  them are queued or dropped, or the payload did not parse and is one drop.
- `IngressCountersBalance`: `Spec => []CountersBalance`, by `CounterInv`: a handler outside the loop of `enqueue` has
  nothing left (`LoopsOnly`), so that the start of a loop and each of its turns move one number between the two sides
  (`LoopStep`), and a drop is counted together with its cause (`DropStep`).

The theorems about the writers assume only `WritersAssumption` and hold for any number of workers, any list of
targets and any batches.

- `ConnectionsAreNotLeaked`: `Spec => []OneConnection`. `ConnInv` adds to the property that
  nobody is inside a backend after `Close` (`NobodyAfterClose`), so that no reconnect opens one again. The dial and
  the close of the old connection are one step of the model, because both are made under the mutex of the backend.
- `WrittenWasTaken`, `NothingIsSkipped`, `RetriedOnce` and `BatchesAreNotMixed` (`WrittenIsTaken`,
  `EveryEventIsTried`, `ReplayedAtMostOnce`, `FramesStayTogether`) rest on one invariant, `WritersInv`. None of the four is
  inductive: they say what holds at the return, or of what was taken, and the reasons lie in the writes that are still
  to be made. The invariant says that batches have no event in common (`BatchesApart`), and for each worker
  (`EventsInv`) that its pending writes hold events of its own batch, each once (`FramesOf`); that an event of the batch was
  tried on every backend passed, and on the present one was tried or is pending (`TriedSoFar`); the same of
  what was taken, as long as no error was joined (`TakenSoFar`); that what is pending was not
  taken yet, and during a retry once at most (`FreshFor`); and that who is past `Lock` holds the mutex and has made the
  last write (`HoldsMutex`). The fourteen steps of `WriteBatch` are reduced to five kinds (`Prepares`, `Advances`,
  `Handles`, `Lock`, `Return`), and the other workers are shown to be `Undisturbed` by each. That `Encoded` leaves out
  what cannot be encoded and nothing else is `EncodedKeeps`, an argument on the turns of its loop.

`OrderlyShutdown` and `LosingExits` hold for any number of handlers, events and signals. The order of `run` is what they rest on:
`ServesAfterNotBefore` and `OpenWhileServing` (nothing is accepted before the queue starts and the writer
stays open while it is), `NobodyIsLate` (after `Shutdown` no handler is left unless its deadline
passed), `ReturnsDrained` (`Stop` returned with nothing pending unless its own did), and `EndsWhere`
(at which control points `run` is when the process has ended in each way).

The theorems about the metrics assume only `MetricsAssumption`: finite sets, caps that are naturals
(zero included) and an empty server that is no label.

- `MetricsTypeCorrect`: `Spec => []TypeOK`, which holds the three caps; `BumpLabelTypes` is the lemma
  about `bumpLabel`.
- `HandshakesAreExact`: `Spec => []PeersAreExact`. Alone it is not inductive: a peer inserted with
  fresh counters must have no handshake behind it. `PeerInv` adds that a handler past the look-up has
  its peer in the table or the table is full (`KnownOrFull`), and that a peer outside a table with
  room has no handshakes (`AbsentIsNewOrFull`). It rests on the table never shrinking.
- `BreakdownsAreExact`: `Spec => []LabelsAreExact`. The argument is stated once for a map of either kind
  (`Exact`): a shown label has counted its calls except those of handlers between their look and their add, and while the map
  has room no call of an absent label has been lost. `LooksHold` ties what a handler saw under the read
  lock to the map as it is when it acts: a label that was there still is, since maps only grow.
- `DropsAreCounted`: `Spec => []DropsAreExact`. The drop counters are sums over what is absent from a table
  (`PeerDrops`, `LabelDrops`); a label that enters a table had nothing in its sum, which is where
  `PeerInv` and `LabelInv` are needed again, and a handler between its look and its add is in neither.

The theorems about the budget assume only `BudgetAssumption`: finitely many fields, values that are sequences of widths,
and a marker shorter than the cap.

- `FieldsFitTheRecord`, `LongFieldsAreCutFirst` and `TruncationsAreCounted` (`RecordFits`,
  `LongFieldsGoFirst`, `TruncationIsReported`) follow from `BudgetInv`: the corrected total is the sum of the
  costs (`TotalIsExact`), fields only get shorter (`OnlyShorter`), no field is shortened before a longer one
  (`LongestFirst`), and `truncated` says whether a field differs from the event's. The end of the loop is
  `NothingLeftFits`: a longest field that cannot be reclaimed has at most two markers (`HalvedFits`), a value costs at
  most four bytes and two for each of its own (`EncodedIsWire`), so all fields together are within a `Roomy` budget.

The theorems about payloads assume `PayloadAssumption` (a word has at least two values, a second at most
a word of microseconds) and `DeliveryAssumption` (above). They hold for documents of any length, with any number of
events, in each of the five encodings, cut at any byte, and for words of any size.

- `EventsInductive` (`EventsInv`): a document that is parsed at all gives the events of its publications, one for each
  and in their order, with nothing before the parse; the records are made of these. On it rest `RecordsSayTheirKind` (`RecordKindIsEventKind`), where the three tables of the mapper and the names the
  parsers give are run through; `RecordsHaveTheirTime` (`RecordTimeIsEventTime`), which needs that a number
  written in either base, with or without its prefix, is read back (`NumberIsRead`) and that the two words of a
  packed time stamp come apart again; and `RecordsHaveTheirNames` (`RecordsNameObjectAndActor`), which needs
  the decoding of a name in base64, in UTF-8 or in UTF-16, to give back its text (`EncodedName`), that a name which is
  not empty stays so (`UTF8NotEmpty`), and that `Trim` takes what is white at the ends and nothing else (`TrimKeeps`,
  which does not depend on how the ends are found).
- `TransitInductive` (`TransitInv`): the body is a prefix of the encoded document, and what is decoded, classified, answered and
  counted is read from that prefix. The other three are about the prefix.
- `DecodesWhatArrived` (`DecodedIsWhatArrived`): a cut body in UTF-16 holds whole units, perhaps half a unit
  and perhaps half a pair; `DecodeBody` gives an error for the first, one replacement character for the second, and otherwise the
  characters that arrived. One in UTF-8 is returned as it is.
- `CutMakesNothing` (`TruncatedMakesNothing`): a record or a count needs the end of the root element in the
  decoded bytes. A byte below 128 is a character of its own and no part of another (`CharIsByte`, `ByteIsChar`), so a `>` that was
  decoded is one that arrived (`GTArrived`). For events it is the last (`DocumentArrived`), because the XML decoder asks for the
  whole root; for a handshake, which `rootIs` counts on any `>` after the name, it is the only one (`HandshakeArrived`).
- `WholeIsAnswered` (`AnsweredAsAsked`): the root found behind white space and a declaration is the one the document has
  (`RootAt`, `RootOfDocument`), so a whole document has its own dialect (`DialectOfWhole`) and
  reply; and what `IsUTF16` says of the bytes of each encoding gives the reply the encoding the publisher reads
  (`ReplyEncoding`). A OneFS heartbeat is counted unless its declaration is one that `encoding/xml` refuses: its
  action cannot be read then, and it is answered all the same.

*Sums and loops.* The induction theorems of the library cannot be instantiated by the installed provers, so what a
fold or a loop computes is proved from a smallest counterexample: `SumTheorems` derives from the well-foundedness of
the natural numbers and of inclusion that a nonempty set of numbers has a least member and a nonempty set of
subsets of a finite set a minimal one, and the set of counterexamples is then shown to have none. `SumFunctionOnSet`,
`Encoded`, the bytes of a prefix, the concatenation of sequences, the numerals of a number and `ParseUint` are treated in
this way. A recursive function is known from its defining equation as soon as a table that satisfies it exists
and is the only one; both are shown by the smallest index that would fail.

*Only model-checked*: the liveness properties, because fairness and ENABLED are beyond the prover. They are
`CallsReturn` and `AcceptedIsSettled` of the queue, `EveryRequestEnds` and `LivenessIsAnswered` of the handler,
`HangupRotates` and `StopEndsProcess` of the lifecycle, and `LoopEnds` of the budget. The three violated statements are
what TLC's counterexamples show. That the modules fit together (what `Ingress` expects of the queue is what
`Queue` promises) is argued in this file and not proved.

## Not modelled

TLS and ACME set-up, logging and log redaction, decoding of the configuration, Prometheus rendering, the Windows
registry and event source set-up, the text of replies and messages, and the file format of
go-evtx: no state of this program, or libraries outside it. `PROJECT.json` says so component by
component.

Left out of `Wire`, `Payload` and `Delivery`, and so outside what `delivery` shows:
- a `>` inside an attribute of the root's start tag, and a handshake written with an end tag
  (`<RegisterRequest></RegisterRequest>`): `rootIs` asks for a `>` after the name and not for the end
  of the element, so such a handshake cut after its start tag would be counted. The publishers the
  repository knows send empty elements, and those are modelled;
- a UTF-8 byte order mark;
- names in base64 whose first character is outside Latin-1: `DecodeBody` recognises UTF-16 without a mark by a zero
  byte in the first character (`onefs.go:222`). Paths begin with a separator or an ASCII name, and those
  are modelled;
- fields that are only copied.

Observations that are not properties: a big-endian UTF-16 request is answered in little-endian
(`EncodeUTF16LE`, as its name says; `AnsweredAsAsked` claims nothing of it); a publisher whose first
read fails is answered in UTF-8 whatever it writes, because `readProbe` returns no bytes; the computer name of a record
is the configured host name or the request's `Host`, not the server the payload names; the depth gauge
(`queue.go:352`) is stored from a length read earlier and may be overwritten by an older one, which
corrects itself with the next event.

## Plan

1. *Done*: `Queue` with its ledger and the refinement, `Ingress`, `Writers`, `Metrics`, `Lifecycle`, `Budget`,
   and `Wire`, `Payload` and `Delivery`, each with proofs of all the safety properties its runs check.
2. A composition of handler, queue and writer under shutdown, if the parts leave a question open that
   the interfaces (`CountersBalance`, `Custody`, `WrittenIsTaken`, `OrderlyShutdownLosesNothing`) do not
   answer.

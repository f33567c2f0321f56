# KafGraph in TLA+

A formal model of KafGraph, kept beside the code: the indexed graph store, the
ingest pipeline, cluster membership, the query router, the query engine, the
Bolt server, reflection with its schedules and human feedback, and compliance
with its HTTP API. TLC checks small instances; TLAPS proves the safety results
that matter most for every instance.

    tlc -workers 2 -config MCGraphStore_store.cfg MCGraphStore
    tlapm GraphStoreProofs.tla

`PROJECT.json` lists every run, mutant, theorem, finding and hazard, and maps
each definition to the source lines it stands for.

## The system

| Part | State | Operations | Talks to |
|---|---|---|---|
| graph, storage, index | nodes and edges in Badger, four secondary indexes, in-memory ID counter | create, upsert, delete, lookups | everyone below |
| ingest | log offsets, checkpoint nodes | poll, 12 envelope handlers, commit | graph |
| cluster membership | memberlist view, event channel, partition map | start, rebalance, leave | memberlist, router |
| query router, RPC | calls and connections in flight | fan-out, deadline, merge, serve, close | membership, query |
| reflect | ReflectionCycle nodes, `lastRun`, feedback status | tick, execute, check grace periods, request | graph, publisher |
| brain | none | seven tools; two write cycles | graph, reflect, search |
| query | statements in execution | parse, plan, execute; SET bypasses the graph's lock | graph |
| Bolt | a goroutine per connection | handshake, HELLO, RUN, PULL, RESET, encodings | query |
| HTTP | none | wraps the above | everyone |
| compliance | rules in memory; register, scans, inspections, audit log as nodes | register, validate, scan, inspect, remediate, sign off | graph |
| search | Bleve and vector indexes | index, remove, search | graph |

What is hard here: every component writes the same graph through single-call
transactions, so any two calls of one operation can be interleaved with, or cut
off from, each other; offsets, counters and schedules are partly persistent and
partly in memory; notifications are dropped when a channel is full; many writes
are "best effort". The hazards are listed, with their lines, in `PROJECT.json`.

What makes each part correct:

- *graph store*: indexes agree with the records; deletes cascade exactly; IDs
  are unique; upserts merge.
- *ingest*: at-least-once with idempotent writes; nothing skipped; no dangling
  edges; newest value wins; everything is eventually committed.
- *membership*: the map follows the member list in spite of dropped events, and
  processes with the same list agree.
- *reflection*: one execution per due time and none suppressed, disjoint windows,
  complete roll-ups, no request before the grace period, a bounded number of
  requests, no forgotten cycle.
- *query engine*: the tree is the statement that was written, no token is
  ignored, and execution does what the statement means when nobody else writes;
  with others writing, no dangling edges.
- *Bolt*: every request is answered once, in order, with its whole result;
  decoding inverts encoding.
- *router*: an answer is made of whole answers of the owners in their order, an
  error means that nobody answered, and calls and `Close` end.
- *compliance*: a stored scan is whole but for results that could not be stored,
  two implementations of one check agree, a finding that can be read and stays
  open blocks the sign-off, and the audit log has what the API created or signed
  off, unless the event itself could not be written, and nothing that did not
  happen.

## Modules

| Module | Models |
|---|---|
| `PropertyGraph` | what package graph promises: a labeled property graph without indexes |
| `GraphStore` | `graph.go`, `badger.go`, `index.go`, and `execSetProperty` of the query executor |
| `Handlers` | `handlers.go`, `nodeid.go`, `router.go`: each handler as the sequence of its upserts |
| `Ingest` | `processor.go`, `checkpoint.go`, `reader.go` around the handlers |
| `Membership` | `membership.go`, `partition.go`; memberlist is external |
| `Reflection` | inside one daily cycle: `scheduler.go`, `cycle.go`, `feedback.go`, and the feedback paths of brain, ingest and HTTP |
| `Schedule` | cycles on the calendar: `schedule.go`, `cycleid.go`, `tick`, `Execute` with `aggregatePriorCycles`, `iterator.go` |
| `ComplianceRules` | the rules, hardcoded and from YAML, the score and the data-flow validation, as operators on a graph |
| `Compliance` | the handlers of `server/compliance*.go`, scans, inspections and the audit log around them |
| `QueryParser` | `parser.go` over tokens |
| `QueryEngine` | `planner.go` and `executor.go`, run by concurrent sessions |
| `QuerySemantics` | what a statement means, declaratively, and the properties that compare |
| `Conversation` | what a Bolt connection promises its client |
| `Bolt` | `bolt.go`: handshake and message loop, with a pipelining client |
| `PackStream` | `bolt_message.go`: values and chunks as bytes |
| `Router` | `cluster/router.go` and `cluster/rpc.go` |
| `*Proofs` | theorems about the module they extend |
| `MC*` | constants for TLC |

**GraphStore.** Every method of `Graph` holds `Graph.mu` around one Badger
transaction, so it is one action. `execSetProperty` reads under the lock and
writes without it: two actions per session. Index keys are concatenations with
colons and lookups are prefix scans; node IDs contain colons, so the scan for
`n:A:1` meets the entries of `n:A:1:e`. `Key(a, b)` is the concatenation and
`Scan` returns every suffix, as the code does. `KeyInjective` states what is
needed of the IDs: two keys that are really written are equal only for equal
parts. That is a fact about the shapes of KafGraph's IDs; TLC evaluates it on
tuples that collide the way the strings do. Edge properties and timestamps are
left out. An edge that `UpsertEdge` writes has a hash of its label and ends for
ID, so it never moves. `Restart` loses the counter and the SETs in flight.
`ReadErrors` lets an upsert's own read fail. A transaction also reads what it is
about to replace or remove, to take its index entries away, and ignores an error
of that read (`badger.go:72`, `:140-151`, `:169`, `:205`): `Unread` chooses the
records this happens to and `misreads` counts the transactions, within
`MaxFaults` together with restarts. Such a transaction leaves an entry, or in a
cascade an edge, behind. So the properties have two halves: that everything
stored is filed and found holds always; that nothing else is, that created edges
keep their ends and the refinement hold while `misreads = 0`.

**Ingest.** A step is one graph call, so crashes fall between any two of them.
The graph maps each upserted entity to the record that wrote it last, which is
what the properties need of property values. Faults (crash, failed write, failed
commit, failed checkpoint read, failed log read) are counted and bounded.
`failed` is a history variable.

**Membership.** What an event says is only passed to optional callbacks, so the
channel is a number. Taking an event, reading `Members()` and rebalancing are
three steps; memberlist changes the list and calls `Notify*` in one (it holds
its lock). Leaving removes the process from its own list and then closes
`stopCh`.

**Reflection.** A cycle is an agent and a day. The scheduler goroutine runs
`tick` (due cycles, then `CheckPending`); `brain_reflect`, feedback and waive
requests run beside it. `snap` holds what `CheckPending` listed. A call whose
error is ignored either takes effect or is a counted fault, which has two forms
where the call is an upsert: nothing is written, or the read of the old node
fails and the new properties replace it (`graph.go:200`). `completedAt` is stored
in whole seconds, and a step of the clock is longer. `EventuallyAsked` excepts a
completion that could not read its node: it stores a cycle without a feedback
status, which `CheckPending` passes over for good.

**Schedule.** The same package seen from the calendar. Time is counted in hours,
each standing for the minute HH:00; several ticks or none may fall in it. An
execution is one step here and all its writes take effect, since `Reflection`
has its inside. `Tick` goes through the three schedules in the code's order and
may meet one fault: the agents of a schedule cannot be listed, or one agent's
cycle fails; the other agents of the schedule are executed all the same. A time
without a tick stands for a ticker that found the scheduler busy, or a process
that was down. Agents come in the two forms the graph has: with a `name`, and
ingested, without one. A fault is remembered with its agent, so that
`NothingMissed` exempts only the agent whose own execution failed. `RollupsRight`
exempts a cycle whose execution failed in the minute of the roll-up: after a
restart in the same minute it is executed again, too late for the roll-up.

**Compliance.** A handler is a request of a client; what it reads decides the
graph calls it still has to make, and each of them is one step, so two requests
interleave between any two calls. IDs in paths and bodies are the client's:
`Named` gives, for each edge label and route, those it may name, and the
instances name entities of the right kind and of another kind, some that nobody
knows and some that a concurrent request creates; `Posted` gives what is posted
to `/api/v1/edges`, any label and any ends. Up to `MaxFaults` calls fail, with
what the code makes of it: the error of a write that the request is about is
answered, an evaluation, a validation or an event is left out, an edge is passed
over, an upsert that cannot read replaces, a rule that cannot list its label is
a warning, a sign-off passes over findings it cannot read. The evaluation of one
rule is one step, which succeeds or fails as a whole, and so is listing a label
and linking what it has: errors of `Neighbors` that a rule or the validation
ignores halfway are not in the model. Times are hours and dates are days, with
the truncation the code applies. Property values are those a rule or a handler
tells apart.

The model is one life of a process on a graph that earlier lives have filled. The
counter behind IDs starts again with the process, so `NewID` gives either an ID
that nobody has or one of an earlier life, and what has it is replaced; within
the life none is given twice. A fresh ID is the label, the number of the request
and that of the call: unlike a counter this does not keep the order of unrelated
calls. `done`, `lost`, `unlogged` and `held` are history variables: the writes
that took effect, the results of a scan that could not be stored, the events that
could not be written, and the findings open ever since a sign-off began.
Queries, ingest and `POST /api/v1/nodes` write the same graph and are not part of
this model.

**QueryParser, QueryEngine, QuerySemantics.** The parser is the code's recursive
descent over tokens. A plan is a chain, so it is a sequence of operators. A
session takes one step per graph call; an expansion reads an edge and then the
node at its other end, in two. A value is its type and the text
`fmt.Sprint` gives for it, because the executor compares texts. The reference
semantics quantifies over all paths and all rows and knows nothing of plans; it
describes the statements the planner keeps (one source clause, the first).

**Bolt, Conversation, PackStream.** The two directions of the TCP connection are
queues. `Conversation` is a client that asks and an answer to the oldest
request, with a result that is complete; `Bolt` implements it under the mapping
`Abstract`. `PackStream` has the bytes: the integer widths, the length forms
and chunks, with the chunk size as a parameter. An int is given by the eight bytes
of its two's complement, since TLC's integers have 32 bits; `packInt` chooses
the form by the leading bytes that repeat the sign.

**Router.** A call reads the owners once, runs a goroutine per shard and merges
when all have ended. A shard ends by its answer, an error or the deadline;
the remote server may execute the query afterwards. Rows remember the node
they come from. The size limit is counted in rows.

## Runs

Passing:

| Run | Checks | Bounds |
|---|---|---|
| graph_store | `IndexExact`, `LookupsExact`, `CreatedEdgesAnchored`, refinement of `PropertyGraph` | node IDs one of which continues another, assigned and hashed edge IDs, a restart (so IDs are reused) or one transaction that ignores a failed read, failing reads of upserts, two labels and a SET session, so that a stale write can change a label |
| ingest_faults | `CommittedIsWrittenUnlessFailed`, `OneMessagePerRecord`, `LastWordStands` | 2 partitions of 2 records, batch of 2, any 2 faults but a failed checkpoint read |
| ingest_replay | `EdgesAnchored`, `CatchesUp` | all envelope types, one partition of 2 records, any 2 faults, under `FairSpec` |
| membership | `SameListSameMap`, `Balanced`, `StaleMapIsPending`, `MapFollowsList` | 2 processes, 3 names, 2 addresses, channel of 1 so that events are dropped, under `FairSpec` |
| reflection | `RequestsBounded`, `GraceRespected`, `EventuallyAsked` | one cycle, scheduler, one brain_reflect, two requests, one fault, under `FairSpec` |
| schedule | `NothingMissed`, `OncePerDueTime`, `WindowsDisjoint`, `CountedOnce`, `RollupsRight` | six scenarios, two agents: the default configuration for three days and all schedules at the end of a week that ends with three of them due at once (two events each: missed tick, fault, restart, message, brain_reflect), that last day alone with three events, all schedules at midnight, when the process starts, a February from first to first of the month (one event), and a monthly schedule without a day |
| compliance_register | `ScanIsWhole`, `ScanAgreesWithValidation`, `SLAAgrees` | two requests of two clients out of all operations on register, flows, validation and scans, naming IDs of the right kind, of another kind and unknown ones, and one failing call, on a graph with reference data and a scan of an earlier life, at times around the deadlines |
| compliance_inspect | `OpenFindingsBlockSignOff`, `AuditTrail`, `AuditTruthful` | three requests of two clients and one failing call on a graph with an inspection, a finding and a scan, whose IDs may be given again; a PUT names an existing finding, or an unknown ID that looks like an inspection's on another route |
| query | `EndsExist`, `ExactWhenAlone`, `ParsesWhatIsWritten`, `NoTokenIsIgnored` | two statements of two sessions out of a list with every form; the parser over a list of syntax trees and of scraps |
| bolt | `RecordsComplete`, `CodecRoundTrip`, `StreamRoundTrip`, refinement of `Conversation`, `EveryRequestAnswered` | four requests of every kind, up to three outstanding, results of up to two rows, a client that may leave at any time; integers on both sides of each change of form up to 64 bits, strings of up to 65536 bytes, lists and maps of 0, 1, 15, 16, 255 and 256 entries, and the length in front of a list or map up to 65535; chunks of four bytes. After RUN the client sends PULL |
| router | `WholePartsInOrder`, `ErrorMeansNobody`, `CallsEnd`, `CloseReturns` | two calls, one over a map that has one, two or three owners, one answer above the limit, one server that closes or crashes |

The bounds are the smallest at which the case of interest happens: two writers
of one entity, a batch of more than one record, a full channel, a second
occurrence of a fault during recovery from the first, several ticks within one
due moment, the shortest month, a second request between the reads and the write
of the first, a request sent before the last one is answered. The type invariants of `GraphStore`,
`Ingest`, `Membership`, `Reflection`, `Bolt`, `Router` and `Compliance` are theorems; those of
the other modules hold on the same instances (add `TypeOK` to a cfg to see it)
and are not listed as runs' properties. Each property has a mutant of the code that violates it under the same bounds.
Deadlock is checked in the schedule run; in the others every bounded behaviour
ends when its bounds are used up.

One run expects a violation: compliance_signoff. A finding that is created or
reopened between the check of the findings and the write of the status is
signed off with the inspection, where the documents say that open findings
prevent it. The passing part of the same question is `OpenFindingsBlockSignOff`:
a finding that is open all along, and can be read, does block.

**Fairness.** `Ingest!FairSpec`: the poll goroutine is driven by a ticker that
never stops, and keeps taking steps. `Membership!FairSpec`: `NewMembership` runs
to its end and each `processEvents` goroutine is scheduled.
`Reflection!FairSpec`: time passes and the scheduler's ticker never stops.
`Bolt!Fairness`: the
goroutine of the connection runs, and a client that has not left reads what
arrives. `Router!Fairness`: some goroutine of a call goes on until all have
ended, a shard's by its deadline at the latest, and so do a server's handlers.
Nothing is assumed of producers, users, `brain_reflect`, memberlist or faults,
except that their number is bounded.

## Known deviations

Behaviour met while modelling that a document contradicts or a reader would not
expect. The models have it unless it says otherwise; the properties are stated
so that they are true of the code.

- *Graph store*: after a restart `CreateNode` hands out IDs again and stores a
  "new" node over an existing one, and `CreateEdge` likewise. A failed read turns
  an upsert into a replacement, and leaves a stale index entry, an edge or its
  entries behind when it happens inside a transaction.
- *Ingest*: the offset of a record is committed although its write failed
  ("Commit offset only AFTER successful graph write"). An event is visible, and
  survives a crash, in part ("a single BadgerDB transaction").
  `HandleResponse` is documented to create a REPLIED_TO edge and creates none.
  `checkpoint.Load` answers -1 to any read error, so a partition is replayed
  from its start; if the process then crashes before it has caught up, entities
  keep the older values although the checkpoint is at the end. `LastWordStands`
  fails with that fault, which is why ingest_faults excludes it; ingest_replay
  includes it.
- *Membership*: with more members than partitions some members own nothing and
  the router does not ask them.
- *Router*: a single owner is taken to be this node, also when it is another
  one. Statements that write are executed by every owner. Integers of remote
  rows come back as floats.
- *Reflection*: RECEIVED or WAIVED is overwritten by a decision on an older
  listing. A completion that cannot read its node stores a cycle without a
  feedback status, which nobody is asked about. Executing a cycle again replaces
  scores set by a person. A crash during an execution leaves the cycle RUNNING. The scheduler and
  `brain_reflect` share one HeuristicAnalyzer, whose maps are replaced without
  a lock while the other may be reading them (not in the model).
- *Schedule*: a due minute without a tick is not caught up. A window ends when
  the cycle is executed, so with the default times a daily cycle covers
  midnight to 02:00, the rest of the day is in no scheduled daily window, a
  weekly cycle (Monday 03:00) rolls up the daily cycles of that Monday and a
  monthly one rolls up a weekly cycle only if the first is a Monday, where
  requirements FR-REF-02 and FR-REF-03 ask for a roll-up of the period. A
  roll-up takes the cycles of all agents. `aggregatePriorCycles` is said to
  create CONTRIBUTED_VALUE edges with averaged scores and creates ROLLUP_OF
  edges without. An ingested agent has no `name`, so its scheduled cycle looks
  at the neighbours of `n:Agent:n:Agent:<id>` and finds nothing.
  `brain_reflect` with a short window moves windowEnd back and keeps the signals
  found beyond it. `reflect.monthly_day: 0` makes the monthly cycle daily.
- *Query engine*: `SET ... RETURN` returns the values from before. DELETE and
  SET of an edge variable do nothing. `MATCH (n)` without a label finds the
  nodes with the empty label. Properties written in the far node of a pattern,
  and patterns and clauses before the last source, are dropped. A repeated variable is
  overwritten, not joined. Values are compared as texts, and `= null` matches an
  absent property. `CREATE (n)-[]->(m)` takes the variables' names for node IDs.
  Two MERGEs at a time may create two nodes. SET on a node stored without
  properties panics (not in the model).
- *Bolt*: a message other than PULL after a successful RUN is swallowed
  unanswered, so all later answers are off by one; the run's client sends PULL.
  A list or map of more than 65535 entries loses its length, which is cut to 16
  bits (`bolt_message.go:147`, `:168`), so the reader takes its entries for what
  follows; `packSize` does this, and `CodecRoundTrip` is about shorter ones. A
  value of an unsupported type ends the connection.
- *Compliance*: rule FLOW-004 has a branch commented "Mark as warning" that
  returns nothing. A rule that asks for an edge passes by its label alone, in
  either direction and whatever is at the other end (`hardcoded.go:580`), and
  handlers link any ID they are given. POST and PUT of an inspection take the
  status signed_off without the check. A PUT of an unknown ID creates an entity
  without a creation event (`compliance_inspection.go:183`), and one of a data
  flow without any event. `LogEvent` drops its error (`inspection.go:192`). A
  sign-off passes over findings it cannot read, and over all of them when
  `Neighbors` fails (`inspection.go:101`, `:107`). A scan counts results whose
  evaluation it then skips (`engine.go:192`), and answers as usual. Two
  overlapping first PUTs create two OrgSetup nodes. After a restart new nodes and
  edges replace old ones with the same ID, audit events included, which
  `LogEvent`'s comment calls immutable, and HAS_FINDING edges included, so that a
  finding no longer blocks. Scan IDs (`scan-1`, ...) come from a counter that
  starts again with the process (`engine.go:72`), so after a restart a new scan
  has the ID of an old one, and `GET .../scans/{id}` shows whichever is listed
  first.
- *Search and brain* (not modelled): `brain_capture` stores `content` and the
  full-text index covers `summary`, so captured text is never found. The index
  is created with `bleve.New`, which fails once its path exists; after a restart
  a nil searcher is passed on inside a non-nil interface, and its first use
  panics. A search's limit is applied before its label filter. Removing a vector
  compares only the end of its key.

## Proofs

All are for arbitrary constants satisfying the named assumptions, which TLC
evaluates on every instance. Each component has one inductive invariant, proved
action by action; the properties follow from it.

- `GraphStoreProofs`: `TypeOK`, `IndexExact`, `LookupsExact`,
  `CreatedEdgesAnchored` and the refinement of `PropertyGraph`. The inductive
  invariant is `TypeOK`, `Filed` (what is stored is in the indexes, whatever reads
  fail) and, while `misreads = 0`, that the indexes hold nothing else and created
  edges are anchored. The parts need one another: `DeleteNode` computes its
  cascade from index scans, so it removes exactly the incident edges only if the
  indexes are exact, and only then do created edges stay anchored. Lemmas per
  storage transaction show that it preserves them; `KeyInjective` is what makes
  removing one entry leave the others. Then every action in which no failed read
  is passed over maps to an abstract step. Assumptions:
  `KeyInjective`, `IDShapes`, `BoundsAssumption`.
- `IngestProofs`: `TypeOK`, `CommittedIsWrittenUnlessFailed`, `NoSkip`,
  `EdgesAnchored`, `OneMessagePerRecord`, `LastWordStands`. The invariant `IInv`
  adds to the first property what is known of the record in flight: its first
  `wpos` writes are in the graph, an error is recorded in `failed`, and the batch
  begins no later than the record after the checkpoint. Without it a commit
  could not be justified. `GInv` adds `Provenance` (every entity is one its
  recorded source writes) and `Grounded` (an edge that is not a feedback edge has
  its ends, because each handler upserts them before it). Lemmas about the
  twelve handlers say what each writes and in which order; that message IDs name
  their record gives the bijection behind `OneMessagePerRecord`. `LInv` adds that
  the record in flight is the first uncommitted one and that no committed later
  record of the partition writes the entity; it needs `"load" \notin FaultKinds`,
  since a lost checkpoint read really breaks `LastWordStands` (see above).
  Assumptions: `IngestAssumption`, `EnvelopeAssumption`.
- `MembershipProofs`: `TypeOK`, `StaleMapIsPending`, `SameListSameMap`,
  `Balanced`. The invariant `Fresh` says where the knowledge of a change is kept:
  in a waiting event, in the copy about to be applied, or already in the map. It
  needs a channel capacity of at least one (`MembershipAssumption`). `Balanced`
  counts: sorting is a bijection between members and ranks, and the partitions
  with a given remainder are as many for each, give or take one.
- `ReflectionProofs`: `TypeOK`, `RequestsBounded`, `GraceRespected`. `Budget`
  counts the request that may still come without another execution (the cycle is
  listed, or its status still asks for one) into the bound; `Waiting` ties each
  status, and each record in the scheduler's listing, to the first completion.
  Assumption: `ReflectionAssumption`.
- `ScheduleProofs`: `NothingMissed`, `OncePerDueTime`, `WindowsDisjoint`,
  `CountedOnce`, `RollupsRight`, for any calendar whose months have at least 28
  days and any hours, weekdays and days of the month (`ScheduleAssumption`). The
  invariant says of the graph and the last runs that windows start where the
  calendar says and end no later than now, that a last run is a due time at which
  the cycles were executed, and that executions are paid for by past due times
  and restarts. Calendar lemmas (two due times of one schedule are further apart
  than its minimum gap; a window start determines its due times) carry it, and
  each of the three schedules within one tick is a step of its own.
- `BoltProofs`: `TypeOK`, `RecordsComplete` and the refinement of `Conversation`,
  for a client that sends PULL or nothing after RUN (`AfterRun \subseteq {"PULL"}`;
  with another message the code is off by one, see above). The invariant
  describes the replies under way: counters for the next request to be answered
  and its records run through the queue from what the client has taken to what
  the server is at. Assumption: `BoltAssumption`.
- `RouterProofs`: `TypeOK`, `WholePartsInOrder`, `ErrorMeansNobody`. The
  invariant says that owners are distinct, that a shard holds nothing, an error,
  or all rows of its node, that a node has executed exactly once what it
  answers, and that a finished answer is the merge of what the shards still
  hold. A lemma about `mergeResults` does the rest: appending the parts one by
  one keeps the rows grouped. Assumption: `RouterAssumption` (the owners are a
  list without repetition, as `UniqueOwners` returns).
- `ComplianceProofs`: `OpenFindingsBlockSignOff` (a finding that was open all the
  time is among those still to be read, or its read failed),
  `ScanAgreesWithValidation` and `SLAAgrees` (in every graph and at every time, by
  comparing the two implementations), `AuditTrail`, `AuditTruthful` and `TypeOK`
  (edges have both ends and IDs of their own, also when new ones replace old).
  The two theorems about the audit log rest on `Dutiful`: each request has the
  calls of its handler before it, in their order, up to where it failed. On that
  stand, of the completeness, that a creation (`Created`), a PUT that brought an
  entity into being (`PutsTold`) and a sign-off (`Signed`) are covered, that is
  logged, owed by the request under way, or among the events that could not be
  written (`Covered`); and of the truthfulness, that an event, written or owed,
  has its write behind it (`Truth`).

  Assumptions: `SeededAssumption` (edges at start have their ends), `NamedAssumption`,
  `InstantsAssumption`, `TimeAssumption`. Two hypotheses are stated in the theorems
  about the audit log because the code does not enforce them: `SealedUntouched`
  (no client puts, posts or deletes an event, a scan or an evaluation, and IDs at
  start say which nodes these are; `DELETE /api/v1/nodes` would let it) and
  `SignedOnlyBySignOff` (no POST or PUT gives the status signed_off). The instances
  that check the two properties satisfy them.

What a fold or a recursive function computes is proved by taking the least index
at which it would fail (`LeastNat`), since the prover cannot use the library's
induction theorems.

Only model-checked:

- the liveness properties: fairness and ENABLED are outside the prover's reach;
- `EndsExist`, `ExactWhenAlone`, `ParsesWhatIsWritten`, `NoTokenIsIgnored`,
  `CodecRoundTrip`, `StreamRoundTrip`: `QueryParser`, `QueryEngine` and
  `PackStream` have RECURSIVE operators over syntax trees and values, in whose
  presence the prover has no SMT backend;
- `ScanIsWhole`: an invariant for it has to follow every result of a scan through
  failing calls and replaced nodes; it is checked with one of each.

## Not modelled

The lexer (string processing; the parser is modelled over its tokens); scoring
and text analysis (floating point and word lists, without control state); search
(ranking is Bleve and floating point) and the brain tools that only read or
capture; the management API and the other routes, which read the graph or wrap
single graph calls that are modelled; configuration and start-up; demo data and
the web UI. Of the Bolt server the handshake-only mode, of the RPC server accept
errors, of the compliance API the lists and pages that only read are left out.

## Plan

1. `Search`: full-text and vector indexes against the graph, re-opened after a
   restart, with `brain_capture` and `brain_search`.
2. The executor's expressions as recursive functions, so that `EndsExist` can be
   proved of the query engine.

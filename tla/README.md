# event-streaming-showcase: TLA+ models, TLC runs and TLAPS proofs

The repository is a set of Spring applications that move events through
RabbitMQ (queues, streams, super streams, MQTT, JMS) and the deployment of the
broker, which brings the source of the RabbitMQ cluster operator for Kubernetes
(`deployment/cloud/k8/data-services/rabbitmq/install_commericial/cluster-operator`,
below: *operator*). This directory specifies the parts with behaviour worth
arguing about, checks them with TLC and proves their safety properties.

## Inventory

| Component | State | Operations | Interacts by | Hard | Correct when |
|---|---|---|---|---|---|
| event-account-http-source | unconfirmed messages, blocked requests | `POST /accounts`, publishers of the profiles `stream`, `superStream` | stream producer | confirm timeout against late write, resend after reconnect, crash | success under `superStream` means "in the stream"; first copies in order; requests are answered |
| event-account-jdbc-sink (event-log-sink subscribes to a stream alike) | position, stored offset, account table | subscribe, deliver, save | stream consumer, database | stored offset against handler, crash before the first stored offset, single active consumer taking turns, replay, `ddl-auto: create` | no event is passed over once an offset is stored; table shows the last account; table becomes complete |
| jdbc-upsert | table, message in hand, attempts | update, insert when nothing was updated | queue, database | two statements without a transaction, redelivery | behaves like an atomic put |
| operator: nodes and storage | RabbitmqCluster, StatefulSet, claims, cache | `Reconcile`, `scaleDown`, `Scale`, `CreateOrUpdate` | API server, StatefulSet controller | stale cache, failure between two calls, status writes that are lost, edits meanwhile, restart | no node or capacity is lost; every edit is decided on |
| operator: configuration | two ConfigMaps, annotations with times | `annotateIfNeeded`, `restartStatefulSetIfNeeded`, `runSetPluginsCommand` | same | write and mark are two calls, times of one second, a status that lags behind the nodes | a change reaches every node |
| operator: deletion and defaults | finalizer, owner reference, deletion labels, image | `prepareForDeletion`, `addFinalizerIfNeeded`, `reconcileOperatorDefaults` | same, garbage collector | errors and conflicts that are only logged, stale list of pods, dropped requeue, a cluster created again under its name, caches that go back in time | deletion completes and hits no living cluster; nothing is left behind |
| operator: status, TLS | conditions | `updateStatusConditions`, `reconcileTLS` | same | - | - |
| stream-sql-filter-processor | credit, unsettled messages | handle, publish, accept in the callback | AMQP 1.0, streams | early return without settling, refused publish, crash before the callback | nothing accepted is lost; it starves only by its unsettled messages |
| account-sink | credit, map of accounts | convert, save, accept | AMQP 1.0, stream | replay of repeated older events, converter that throws | the map settles on the latest accounts |
| jms-query-browser with the JMS producer and consumer | page, queries under way, queue, style sheet | submit, browse, render, build | HTTP, JMS queue | answers out of order, queue that changes while browsed, page that changes while styles are built | the page shows the outcome of a query, whole and styled |
| api-throttling-sink, timeout-api, jms-demo, rabbit-streams-web-app | little | one call per message | binder, JMS | retries, request/reply | - |
| MQTT, CLI, generators, processors, examples | none | conversions, wiring | - | - | - |

`PROJECT.json` lists the components with their files, and every hazard at its
line with the properties that would catch it.

## Modules

| Module | Models | State and actions |
|---|---|---|
| `StreamBroker` | account event, deployment settings, stream (external) | `conf`: profile and properties, chosen once; `log[p]`: one append-only log per partition |
| `AccountSource` | `AccountController`, `RabbitStreamConfig`, `RabbitSuperStreamConfig` of the source | `outbox`/`written`: the producer's unconfirmed messages and how many the broker has; `waiting`/`accepted`/`failed`: the requests. `PostStream` answers at once; `PostSuperStream` blocks in `get()`; `Confirm`, `Unconfirmed` (timeout, possibly followed by a late write), `Reconnect`, `SourceCrash` |
| `AccountSink` | `RabbitStreamConfig`, `RabbitSuperStreamConfig`, `AccountConsumer` of the sink | `pos`, `busy`, `done` for each instance and partition, `stored` offset, table `db`; the history `from` and `base` tell where the first reader began and where the reader that stored the first offset did. `Subscribe`, `Deliver`/`Skip` (filter and post filter), `Save`/`SaveThrows`, `StoreOffset`, `LoseConnection`, `CrashInstance`, `StartInstance` (with `ddl-auto`) |
| `AccountPipeline` | source and sink joined by the stream | interleaving of the two |
| `KeyedStore` | the promise of jdbc-upsert, abstract | `Put(m)` in one step |
| `Upsert` | `UpsertConsumer` | workers going through `Parse`, `Update`, `Insert`/`DuplicateKey`, `Ack`; `Throw` is the binder's retry |
| `ClusterReconcile` | the StatefulSet part of `Reconcile`, `scaleDown`, `PersistenceScaler`, `StatefulSetBuilder` | one step per call to the API server; `cache` lags behind `sts`; `WriteStatus` may fail at any time, which is only logged; `unreported`: the last write of the status was lost (history); `Fault`, `Restart`, `Edit` at any time |
| `ConfigRollout` | `annotateIfNeeded`, `restartStatefulSetIfNeeded`, `runRabbitmqCLICommandsIfAnnotated` | two ConfigMaps with their times, `lastRestartAt`, what each node runs with, `status`: the revisions in the status of the cached StatefulSet, which `ReportStatus` brings up to date some time after the nodes; a clock |
| `AmqpLink` | AMQP 1.0 consumer link on a stream (external) | next position and unsettled messages; a message keeps its credit until it is settled |
| `StreamFilter` | `ConsumerConfig`, `PublisherStreamConfig`, `PublishExchangeConfig` | the link, `outbox` (published), `confirms` (stored, callback to come). `Handle`, `HandleNothing` (early return), `PublishedAccepted`/`PublishedRefused` (the callback), `CrashFilter`, `StartFilter` |
| `AccountMapSink` | `RabbitAmqp1_0Config`, `AccountConsumer` of account-sink | the link and the map. `Accept` (save, then accept), `ConvertThrows`, `CrashSink` (the map is in memory) |
| `FilterPipeline` | processor and sink joined by the output stream | interleaving of the two |
| `ClusterDeletion` | `prepareForDeletion`, `addRabbitmqDeletionLabel`, `statefulSetUID`, finalizer, `reconcileOperatorDefaults`, owner reference of the StatefulSet | objects with UIDs; two caches that lag separately; `listed`: the cached list of pods, whose stale copies are refused with a conflict; `TryAgain`: RetryOnConflict, and the log entry after it; `leftOver`: a deletion has gone on after an error with pods marked (history); `behind`: what a lagging API server has, onto which a restart may fall; the user creates, edits, deletes and creates again |
| `AccountQueue` | JMS producer and consumer with its selector | the queue as positions in the sequence of all messages sent |
| `QueryPage` | `index.html` (its script is also that of `query.html`), `QueryController` | `queries` with their progress, `page`: body, rows, record count, alert. `Submit` is the handler up to its `await`, `RenderTable`/`ShowError` what follows; `CreateBrowser`, `NextElement`, `NoMoreElements` are the controller |
| `StyleBuild` | build queue at the end of `scripts.js` | chain of builds, compiler, classes collected, classes in the style sheet |
| `MC*` | - | constants for TLC |
| `*Proofs` | - | theorems and lemmas |

Operators with a comment `Faulty:` are plausible bugs: each property is shown to
fail when the definition that follows is replaced by its faulty form
(`PROJECT.json`, mutants).

What the data is reduced to: an account is its number of arrival, id, accountType
and stateProvince; notes and names are left out. A location without a
stateProvince is not distinguished from one with some state. A storage capacity is
a number, 0 being ephemeral storage. A configuration is a version number. A message
of the filter has an id, the truth of the SQL filter and a set of properties, of
which the processor forwards the first in the order of a `HashMap` (`Rank`; the
accountType comes before the stateProvince there). A selector is the set of accounts
that it matches. A style sheet is the set of classes it covers.

External parts, modelled from how the code uses them: the broker (an append-only
log), the stream client (confirms, resends, offset tracking, exceptions of the
handler are swallowed), the database (a primary key), the binder (attempts, then
reject), AMQP 1.0 links (credit, settlement), the API server (optimistic concurrency,
immutable claim templates, finalizers, UID preconditions), the StatefulSet
controller, the garbage collector and the work queue, the JMS queue (order,
selectors) and the browser (`fetch` answers or rejects).

## Runs

| Run | Result | Shows |
|---|---|---|
| `pipeline` | pass | `AcceptedDurable`, `FirstCopiesInOrder`, `EveryRequestAnswered` (the source); `FilterEndToEnd`, `AcceptedNotPassedOver` (both ends) |
| `sink` | pass | `StoredIsHandled`, `TableShowsLast`, `TableCatchesUp` under fourteen deployments |
| `lastSkipped` | violation | `LastIsHandled`: under `superStream` the declared offset is not used, and a restart before the first stored offset passes over the last message |
| `upsert` | pass | `RejectedOnlyByFaults`, `NothingLost`, `ImplementsStore` (refinement of `KeyedStore`), `EverySettled` |
| `clusterReconcile` | pass | `SettledIsDecided`, `ClaimsNeverShrink`, `StatefulSetComesBack` |
| `scaleDown` | violation | `NeverScaledDown`: the cache has no StatefulSet at the check and the current one at the update |
| `capacityStuck` | violation | `CapacityReached`: claims large enough, claim template too small, update refused for ever |
| `configRollout` | pass | `MarkedConfIsRolledOut`, `MarkedPluginsAreSet` |
| `confMissed` | violation | `ConfIsRolledOut`: restart of the operator between writing and marking a ConfigMap |
| `filterPipeline` | pass | `AcceptedIsForwarded`, `CreditAccounted`, `ForwardsUnlessStarved`, `TableSettlesOnLatest` |
| `clusterDeletion` | pass | `NoMisdelete`, `MarkedIsDeleted`, `BuiltForExisting`, `ChosenImageKept`, `DeletionCompletes`, `EndsConsistent` |
| `queryPage` | pass | `PageShowsAQuery`, `AnswerMatchesQueue`, `IdleIsStyled`, `EveryQueryShown` |

Each passing run also checks a type invariant (`sink` that of the sink, `pipeline` that
of the source). The violations are disagreements between the code and what its
comments, declarations or labs say; the findings in `PROJECT.json` quote them. TLC stops
at the shortest counterexample of `NeverScaledDown`: a StatefulSet of two replicas that
the cache does not have yet, so that the check is skipped as NotFound
(`rabbitmqcluster_controller.go`, 181-183), a request for one replica, and the cache
refreshed before `CreateOrUpdate`, which lowers the replicas. The part
`RecreateKeepsNodes` fails as well, when a reconcile fails after `Scale` has deleted
the StatefulSet and the user lowers the replicas before it is created again.

What the properties leave open, and why:

- *Sink.* A named consumer goes on from its stored offset. Until there is one, every
  subscription begins where the offset says: with `next`, which is what the super
  stream consumer always gets, behind everything published so far. So an account that
  was published, or even delivered, before a crash or a lost turn can be passed over
  as long as no offset is stored, and the next reader's first stored offset makes that
  final. `StoredIsHandled`, `TableShowsLast` and `TableCatchesUp` are therefore about the
  events from `Since(p)` on: all events with offset `first`, otherwise those from where
  the reader began that stored the first offset (`base`). `AcceptedNotPassedOver` counts
  from the first reader (`from`), and the only accounts it gives up are those before
  `base` when there has been a crash or a lost connection. `LastIsHandled` shows the
  loss.
- *Status.* `setReconcileSuccess` logs whatever error `Status().Update` returns and
  Reconcile returns nil. The condition in the status can then stay wrong with nothing
  queued. `SettledIsDecided` therefore asks of the StatefulSet and the claims in any case
  that they are as specified or that a scale-down was refused, and of the status that
  it says so unless its last write was lost (`unreported`).
- *Rollout.* `allReplicasReadyAndUpdated` compares revisions in the status of the cached
  StatefulSet. A reconcile can end while they still agree, with the restart not begun.
  `MarkedConfIsRolledOut` asks, once nothing is left for the operator, that the
  ConfigMap has the configuration and that every node has it or has an older pod
  template than the StatefulSet, so that the StatefulSet controller restarts it. The
  plugins need no such exception: with nothing left to do they are set on every node.
- *Filter.* A message without properties, or one whose publish is not accepted, keeps
  its credit until the processor is restarted; as many of them as the link has
  credits stop it. An exchange to which no queue is bound releases every message, so
  a processor that publishes to it starves. `ForwardsUnlessStarved` and
  `CreditAccounted` say that nothing else takes credit away. A message with several
  properties is forwarded under one of them: a sink that filters on another never
  sees it. A restart reads from the first message again, and the sink goes through
  the older accounts once more; if one of the repeated publishes is refused, an older
  account can remain in the map, which is why `TableSettlesOnLatest` excepts it.
- *Deletion.* When prepareForDeletion cannot delete the StatefulSet (a failed call,
  or a StatefulSet that its cache does not have yet) the finalizer is removed all the
  same. If a cluster of the same name is created before the garbage collector has
  been there, it adopts the StatefulSet, as SetControllerReference compares kind and
  name and not the UID. Then a restart onto stale caches does match the UID of the
  precondition and deletes the StatefulSet of the living cluster: `NoMisdelete` is
  about StatefulSets that were not adopted. `EndsConsistent` holds with adoption.
  The pods are listed from a cache and updated one by one. A copy that is out of date
  is a conflict, RetryOnConflict runs out, and what is logged then leaves some pods
  marked and the StatefulSet in place, for the next cluster of the name to adopt:
  `MarkedIsDeleted` says that a living cluster has marked pods in no other way
  (`leftOver`), until the operator is restarted. With caches that have gone back in time
  the pods of a living cluster are marked, as no UID protects them.
- *Query page.* Of queries that overlap any may be shown last, and its table may
  stand below the alert of another one: the handler neither cancels nor orders them,
  and only a submission hides the alert. An answer is no snapshot:
  `AnswerMatchesQueue` bounds it by what was in the queue all the time and at any
  time.

**Bounds.** Every bound is a constant (`MaxPosts`, `MaxReconnects`, `MaxSinkCrashes`,
`MaxEdits`, `MaxFaults`, ...) and a guard. They are chosen so that the races fit:
three posts in two partitions with two reconnections (a message that is resent twice,
around another one) for the source alone, and where a sink of two instances reads two
posts of one accountType, one reconnection, one crash of an instance and one lost
turn; two instances, three events (two over the two partitions of the super stream),
two crashes, one lost connection and one failed save (a turn taken twice); two workers
on one key plus a malformed message with as many faults as attempts but one; two
nodes, two capacities and two edits around one failed call and one restart; four
seconds, which put two edits in the same second and in different ones; three input
messages, two credits, one refusal and a crash of each application (two messages
without properties starve a link, one leaves it going; a repeated message after a
newer one); two clusters of one name, three StatefulSets, a failed call and a restart,
with two of the five attempts of RetryOnConflict (a StatefulSet left behind, adopted
and met again by a stale cache; a conflict before the last attempt and at it), with
one pod, or with two pods, a chosen image and no restart (one pod marked, the other a
conflict); two queries over two messages (overlap, and a message taken or added
between two steps of a browser). `configRollout` and `confMissed`, which check no
liveness, use the symmetry of the nodes; the other runs use none. Deadlock is not
checked: once the bounds are used up every one of these systems may stop.

**Fairness.** `pipeline`, the source: the broker writes what it receives and every message is
confirmed or times out, which is the producer's confirm timeout. `sink`: an
instance that is down is started again (the platform does), the client keeps
subscribing and delivering, the handler returns; storing an offset is not fair.
`upsert`: a worker goes on. `clusterReconcile`, `capacityStuck`: the work queue hands
out requests, watch events arrive, the StatefulSet controller works;
`clusterDeletion` adds the garbage collector. `filterPipeline`: an application that is
down is started again, its link goes on while it has credit, and the broker answers
each publish. `queryPage`: the page is loaded, the promise chain goes on, and every
query is answered or its `fetch` rejects. Faults, crashes, edits and restarts are never fair.

## Proofs

All theorems hold for every value of the constants under the named assumptions of
the modules (markers are distinct, the routing is a function into the partitions,
bounds are naturals, at least two attempts).

- `AccountPipelineProofs`, the source: `SourceInv` is inductive. `AcceptedDurable`
  needs to know that what is counted in `written` is in the log (`WrittenIsLogged`).
  `FirstCopiesInOrder` needs that an outbox is in posting order and that each of its
  messages is in the log or newer than everything there (`LoggedOrNewer`): a resent
  message is then either a copy or the newest. `TaggedInv` says with which filter
  value every message of the outbox and of the log was published.
- `AccountSinkProofs`: `SinkInv` is inductive. `StoredIsHandled` needs that a
  partition has one reader, that all it has read but the event in hand is handled,
  and that what it may store lies before that event (`ReaderInv`), also when it reads
  again from an older offset, counted from where that reader began (`base`). `BaseInv`
  says what this leaves out: with offset `first` nothing, as every reader without a
  stored offset begins at 1 (`BaseIsFirst`), and until the first crash or lost
  connection nothing either, as the first reader is still the only one
  (`Uninterrupted`). The publisher is arbitrary (`Publishing`).
  `TableShowsLast` is not inductive: a crash takes the reader back, and the row then
  shows a *later* event than the newest one read. `TableInv` allows for that: up to
  the stored offset, up to what a reader may store and up to what it has finished
  with, a row shows the newest event of its id or one beyond. At the end of the log
  there is none beyond. `SavedInv`: only due events are saved.
- `AccountPipelineProofs`, the pipeline: every step of the pipeline is a step of the
  source and a step, or a publication, of the sink; so the theorems of both hold of
  the pipeline. `SourceInv`, `SinkInv` and `BaseInv` together give `AcceptedNotPassedOver`;
  `TaggedInv` and `SavedInv` give `FilterEndToEnd`.
- `UpsertProofs`: `UpsertInv` is inductive. The race is lost at most once per
  delivery because a key never loses its row (`WorkerInv`); `Len(rows[key]) <= 1`
  gives the refinement of `KeyedStore`, which is proved as well.
- `ClusterReconcileProofs`: `ReconcileInv` says that the claims in `toScale` exist and
  are smaller than the copy's capacity, though edits happen meanwhile, hence
  `ClaimsNeverShrink`. `DecideInv` is behind `SettledIsDecided`: when no request is
  queued, either an event that the cache lacks is still to come (`Differ`), or the
  StatefulSet and the claims are as the spec asks, or the reconcile ended in the
  scale-down check, and in both cases the status says so or its last write was lost
  (`OutcomeInv`). That a lost write does no harm beyond the status itself rests on
  Reconcile never deciding by it. The claims need the detour
  of `ScaleInv`: past `scaleUpPVCs` they suffice unless a StatefulSet of another
  capacity, whose update will be refused, has added to them.
- `ConfigRolloutProofs`: `RolloutInv` is inductive. A node without the configuration
  has an older template or a restart is marked for it (`ConfInv`), and the same for the
  plugins and their annotation (`PluginsInv`). Nothing is assumed of `status`, so the
  theorems hold however far it lags behind. A restart that is still due when nothing is
  queued is one of the second of the annotation, and every node that has the template was
  restarted for it later (`RestartPending` in `QueueInv`). That comparing seconds loses nothing
  rests on `TimeInv`: a node takes a template only in a later second than the
  template's, so a change in the second of a restart still finds the node waiting.
- `FilterPipelineProofs`: `FilterInv` is inductive. `CreditAccounted` needs that an
  unsettled message is in exactly one place: the outbox, the confirms, the refused
  ones, or nowhere because it has no properties (`PlaceInv`, `OnceInv`, `CoverInv`).
  `AcceptedIsForwarded` needs the same of the confirms, which become accepted
  (`StoredInv`). The type of the table needs that a set of properties has a first
  one, which well-foundedness of the naturals gives.
- `ClusterDeletionProofs`: `DeletionInv` is inductive and gives `MarkedIsDeleted` and
  three action properties. It says what may be concluded from old knowledge: a
  cluster ever seen in deletion is not alive (`GoneInv`), and a StatefulSet never
  adopted has the owner it was ever seen with (`OwnerInv`), for both caches, for the
  lagging API server and for the reconcile's copy; UIDs only grow (`UidInv`). These
  survive restarts and give `NoMisdelete`. `BuiltForExisting` and `MarkedIsDeleted`
  rest on caches that only move forward (`ForwardInv`, until the first restart):
  a finalizer seen on a living cluster is still there (`FinalizerInv`), owners follow
  each other (`SuccessionInv`), and the StatefulSet seen is the one there is
  (`LatestInv`). A StatefulSet with marked pods is therefore gone before the reconcile
  ends, or the reconcile has logged an error and gone on (`MarkInv`), and unless it is
  adopted later, its owner is not alive (`DoomedInv`).
- `QueryPageProofs`: `QueryPageInv` is inductive. `BrowseInv` follows one browser
  through a changing queue: up to its last position it has every matching message
  that was there all the time. `PageInv` keeps the queries that overlap in `burst`,
  one of which the page shows once all have come back. `StyleInv`: only the first
  build is a full one, and a build is queued whenever a class on the page is not in
  the style sheet.

Only model-checked: the liveness properties, which are out of the prover's reach
(`EveryRequestAnswered`, `TableCatchesUp`, `EverySettled`, `StatefulSetComesBack`,
`ForwardsUnlessStarved`, `TableSettlesOnLatest`, `DeletionCompletes`, `EndsConsistent`,
`EveryQueryShown`). Every invariant and every action property of a passing run is
also a theorem. The inductive invariants were checked with TLC on the instances of the
runs as well.

## Not modelled

The amqp profile of the source, TLS, status conditions and the builders of services,
roles and secrets (construction of data without a protocol), the pause label, feature
flags and queue rebalance of the operator, stateless processors, generators, command
line tools, MQTT wiring, api-throttling-sink, the request/reply demo of JMS, examples
and scripts. Named consumers that share an offset without being single active are
explored but nothing is claimed of them. The JMS session that the query browser's
requests share is taken to be usable by several threads; nothing in the repository
shows whether it is.

`scripts.js`, the one program in JavaScript, is the minified browser build of a style
sheet compiler (Tailwind CSS): six lines of comment, one line of 272 kB and a source
map reference. Of that line only the build queue at its end interacts with the page
and is modelled (`StyleBuild`). The compiler before it is a vendored library, text in
and text out, and stays outside; the comment and the source map have no behaviour.

## Plan

1. Done: account source, sink and pipeline; jdbc-upsert; the operator's nodes and
   storage, configuration rollout, deletion and defaults; stream-sql-filter-processor
   and account-sink; the query browser; the proofs above.
2. Worth adding: feature flags and queue rebalance in `ConfigRollout`; the status
   conditions; the retries of api-throttling-sink; a second namespace in
   `ClusterDeletion`, for the pods that addRabbitmqDeletionLabel lists everywhere.
3. Further theorems: that `ClusterReconcile` and `ClusterDeletion`, two views of one
   reconcile, implement a common abstract one; the steps of the leads-to properties
   that need no fairness (that what a reconcile has decided is not undone).

# KaiMS: TLA+ models, checks and proofs

KaiMS turns monitoring alerts into remediated incidents. A chain of Python
services, each a set of coroutines on one asyncio event loop, passes an incident
along message topics; a person or a policy decides whether a tool may run; the
incident is closed if it helped. Operators watch and decide in a browser console, a
single React application behind the API gateway. This directory holds TLA+ modules of the parts of
that system where the order of things matters, the configurations that check them
with TLC, and proofs that TLAPS checks for every value of the constants.

To check everything by hand: `tlc -config X.cfg M` for each row of the table of
runs below, and `tlapm M.tla` for each `*Proofs` module.

## 1. Inventory of the system

Paths are relative to `services/` of the repository, those of the console to
`frontend/react/src/`. `common/` stands for
`common/common/`.

| component | state | operations | where it is hard |
| --- | --- | --- | --- |
| processed-message cache (`common/message_processing.py`) | ordered map identity -> time, bounded by size and ttl, one per worker, in memory | `contains`, `mark`, purge | forgetting at the limit or after the ttl, while a copy is still to come |
| Kafka consumer (`common/kafka.py`) | committed offset, position, cache, retry count | poll, skip a duplicate, handle, retry, dead-letter, commit | a commit names no record; rebalances; failed commits; dead-letter topic down |
| RabbitMQ consumer (`common/rabbitmq.py`) | queue, deliveries not acknowledged, cache, retry count | deliver, discard, handle, retry, dead-letter, ack, nack, restart of the loop | redelivery to another worker, lost connection, requeue for ever |
| event store and projection (`common/repository.py`, `database.py`) | `incident_events`, one `incident_projections` row per incident | `save_incident_event`, `project_recent_incident_events` | overlapping sessions without lock or version; equal times |
| approval-service (`approval-service/app.py`) | `PENDING_INCIDENTS` in memory, `approvals` | receive a recommendation, decide, publish | the human gate reads a map that decisions overwrite and restarts clear |
| remediation-engine (`remediation-engine/`) | `actions`, its event, the message in hand | policy, execute, record, publish | retries after the tool ran, restart, redelivery |
| closure-service (`closure-service/`) | `incidents.status`, `reports` | validate, settle, publish | order of closures, retries |
| monitoring-adapter, local workflow (`monitoring-adapter/app.py`) | `pending_workflows`, `incidents`, `CLOSED_INCIDENTS` | run, pause, continue | a chain of separate transactions; requests that overlap; restart in the middle |
| monitoring-adapter, ingestion and onboarding | recent alerts, onboarding state | ingest, deduplicate, pipelines | not modelled yet |
| alert-intelligence, orchestrator, context-agent, resolution-agent | incident, decision, context, recommendation | the upstream stages | not modelled yet, except what resolution-agent publishes |
| model-router (`model-router/`, `common/resilience.py`) | circuit breakers, response cache | route, retry, fall back | a breaker that does not recover; not modelled yet |
| agent runtime (`common/agent_runtime.py`) | attempt, observations | run an agent with retries and timeouts | not modelled yet |
| api-gateway users (`api_gateway/modules/users/`) | accounts, session rows, tokens | login, rotate, log out, check a token; lockout and administration are not modelled | a row is read and rotated without a lock |
| console: session and requests (`App.jsx` 2330-2573, `appHelpers.jsx` `fetchJson`) | tokens in a ref, one refresh promise, requests in flight, the users panel | sign in, sign out, send, retry, refresh, load the panel | many requests refused at once; answers after a sign-out |
| console: navigation (`app/navigation.ts`, `app/permissions.ts`, `app/LegacyApplicationShell.tsx`) | URL, tab, a flag that silences one effect | open a section, go back, sign in and out | two owners of one place that follow each other |
| console: operational events (`services/operationalEvents.ts`) | effect, abort controller, delay, last event id, events seen | connect, pause, hide, show, renew the token | two streams at once; resuming |
| console: alert lists (`services/alerts.ts`, `App.jsx` 936-1051, 1970-2007, 5069-5183) | rows, a guard with owner and start time, throttles, the query client | ask, take over, give up, fall back | late answers; a poll that keeps an old render |
| console: alert cockpit (`App.jsx` 1229-1757) | selected alert, its details, the file awaiting promotion | open, restore, retain, promote, regenerate, poll | four owners of one selection |
| console: approval desk and execution gate (`App.jsx` 6278-8535) | queue, form, plan signatures, execution state | choose, edit, rehearse, approve, run, poll | state that moves while a call is out |
| console: consolidated alert lists (`appHelpers.jsx` 637-1133, `App.jsx` 5284-5299, 8358-8390) | the answers of three calls; the lists are computed from them | map a row, group, prefer, cap, complete | one alert arrives from three sources under different identities |
| console: onboarding review (`App.jsx` 2574-3319, 3481-3789) | uploads, a drafted pack, corrections and their verdicts, generated documents | draft, correct, check, approve, save, ingest | uploads and project changes are never disabled, so answers overtake each other |
| console: alert documents (`App.jsx` 3925-4027, 4164-4307, 4572-4861, 10444-10570; `context-agent/app.py` 343-363) | one form, one flag, the document the dialog is about, the list of documents, the stored documents | open, choose kind and mode, draft, upload, create one or all, list | answers write whatever dialog is open; reads and replacements are refused |
| console: incident inbox (`App.jsx` 1759-1822, 5083-5219, `routes/incidents/IncidentsRoute.tsx`, `features/incidents/IncidentCommand.tsx`) | rows, one request and whether another is asked for, filters, view, page, the lookup of one incident | poll, filter, page, open, look up, retry | a row is the latest event only; a lookup that the list overtakes |
| console: application portfolio (`routes/applications/ApplicationsRoute.tsx`) | a query, the observed services, selection, form, checked rows, three mutations | inspect, edit, save, remove, remove many | rows vanish and come back under another identity while mutations are out |
| console: incident timeline (`appHelpers.jsx` 1910-2656, 3565-3677, 5460-5642, `App.jsx` 5543-5560, 6488-6799) | none: computed from the document of the incident | rows of stages, rows of events, order, repetitions, status, sections, lanes | clocks of several services; statuses read from texts |
| console: the other agent-flow drawings, reports, rule pipelines | forms, lists | many small forms | not modelled yet |
| Python UI, the older console in `services/ui/react`, migrations, deployment | none of their own that is durable | presentation | out of scope |

### How the components interact

```
raw-alerts -> alert-intelligence -> enriched-alerts -> orchestrator -> orchestration-events
  -> context-agent -> context-events -> resolution-agent -> resolution-events
resolution-events -> approval-service   -> approval-events    -> remediation-engine
resolution-events -> remediation-engine -> remediation-events -> closure-service -> closure-events
```

A service starts, for each topic it reads, a number of RabbitMQ consumers
(`message_bus_worker_count`) and, if Kafka is enabled, as many Kafka consumers. Each
runs `consume_forever` as a task with a cache of its own; shutting down cancels the
tasks wherever they are. Handlers write to the shared database in sessions of their
own and publish afterwards. The services share the database and the topics, nothing
else. A deployment has one transport: `docker-compose.yml:34-35` chooses RabbitMQ, where each
service has a queue of its own for a topic, `k8s/configmap.yaml:22` Kafka, where all
services join one group. With the topics off, `monitoring-adapter` runs the same chain in its process:
the local workflow.

The console talks to the gateway alone: requests with a bearer token, and one event
stream. Within the console the parts share React state. A handler or an answer sets
state; after the commit the effects whose dependencies changed run in the order they
are written, with the values of that render, and set state again until nothing
changes. Every `await` ends a step, and code after it still sees the values of the
render it was made in, unless it reads a ref.

### What makes each part correct

* **Delivery.** Nothing leaves a topic that was not handled, dead-lettered, or given
  up in a way that is known; an effect is repeated only for a reason.
* **Projection.** The row of an incident shows its latest event.
* **Decision and execution.** A tool runs only with a decision or with an automatic
  authorisation; what is published is in the database before; the incident is closed
  only by an action that succeeded; what was asked for comes to an end.
* **Local workflow.** The same, across transactions that each may be the last one,
  and a pause that survives a restart.
* **Console session.** A refresh token is used once, no session has two live rows, and
  every request is settled.
* **Console views.** URL, tab and role agree when nothing moves; lists come to what the
  server has; details are those of the alert shown; what the operator chose stays.
* **Consolidated lists.** The rows of one alert are merged, those of two are told apart,
  and no burst hides another alert.
* **Alert documents.** A document of an alert has the words of that alert.
* **Timeline.** The latest events are shown once, in their order, and a failure as a failure.
* **Inbox.** What the list says of an incident agrees with itself and with what was decided.
* **Portfolio.** What is saved or removed is what the operator chose, whatever is renamed.
* **Onboarding.** What is approved was checked, in the words in which it was checked.
* **Approval desk.** A plan runs as it was rehearsed and approved, for its incident,
  and the gate that waits for it opens again.

## 2. Modules

| module | models | uses |
| --- | --- | --- |
| `ProcessedMessageCache` | `message_processing.py` | |
| `AtLeastOnceDelivery` | the abstract promise of a bus: handle, dead-letter, drop, retire | |
| `KafkaConsumer` | `kafka.py` `consume_forever`, a consumer group on one partition | the cache; implements `AtLeastOnceDelivery` |
| `RabbitConsumer` | `rabbitmq.py` `consume_forever`, the workers of one queue | the cache; implements `AtLeastOnceDelivery` |
| `IncidentProjection` | `repository.py`, the event store and the projection of one incident | |
| `IncidentBus` | the messages of one incident, the topics, the transport that hands them over, the bounds | |
| `ApprovalService`, `RemediationEngine`, `ClosureService` | one service each, on `IncidentBus` | |
| `IncidentPipeline` | the composition of the three services | the four above |
| `LocalWorkflow` | the local workflow of `monitoring-adapter/app.py` and its continuations | |
| `ConsoleSession` | the session of the console, its requests, and the session rows of the gateway | |
| `WorkspaceNavigation` | URL, tab and permissions | |
| `OperationalEvents` | the event stream | |
| `AlertStream` | the alert list, the live stream and the query client | |
| `AlertCockpit` | the selected alert and its details | |
| `ApprovalDesk` | approval queue, form, execution gate, and the decisions and runs they cause | |
| `Ranking` | a sequence put in order by the number of those before each element | |
| `AlertConsolidation` | the rows of both alert lists, as functions of what the server listed | `Ranking` |
| `OnboardingReview` | the review of an uploaded knowledge pack and of generated documents | |
| `AlertDocuments` | the dialog that provides the documents of an alert, and the service that stores them | |
| `IncidentTimeline` | the rows of an incident's timeline as functions of its document, and the services that fill that | `Ranking` |
| `IncidentInbox` | the list of incidents, the stages of a card, the page of one incident, and the events behind the rows | |
| `ApplicationPortfolio` | the table of applications, its form and its removals | |
| `OnboardingPipeline` | the stages of an application that is being onboarded | |
| `MCConsolePages` | one at a time of `IncidentInbox`, `ApplicationPortfolio`, `OnboardingPipeline` | the three |
| `MCAlertCockpit` | one at a time of `AlertCockpit`, `ApprovalDesk` | both |
| `MCMonitoringAdapter` | one at a time of `IncidentProjection`, `LocalWorkflow`, the two parts of that service | both |
| `MCConsoleShell` | one at a time of `ConsoleSession`, `WorkspaceNavigation`, `OperationalEvents`, `AlertConsolidation`, `OnboardingReview`, `AlertDocuments`, `IncidentTimeline` | the seven |
| `MC...` | the instances TLC checks | the module of that name |
| `ProcessedMessageCacheProofs`, `KafkaConsumerProofs`, `RabbitConsumerProofs`, `IncidentPipelineProofs` | theorems | the module of that name, `TLAPS` |
| `MonitoringAdapterProofs` | theorems | `IncidentProjection`, `LocalWorkflow` |
| `ConsoleDeskProofs` | theorems | `AlertCockpit`, `ApprovalDesk` |
| `ConsoleShellProofs` | theorems | `ConsoleSession`, `OnboardingReview`, `AlertDocuments`, `WorkspaceNavigation`, `OperationalEvents`, `AlertConsolidation`, `IncidentTimeline` |
| `ConsolePagesProofs` | theorems | `OnboardingPipeline`, `ApplicationPortfolio`, `IncidentInbox` |

An operator whose comment begins with "Mutant:" is a wrong version of the one that
follows it. It belongs to no specification; put in the place of the right one it
makes TLC find a violation, which shows that the property can tell the two apart.

### How the models correspond to the code

**Consumers.** The state of a worker is the place of its coroutine in
`consume_forever`: `pc` is `idle` in the iteration, `handling` inside the handler,
`gave_up` after the last attempt, `committing`, `acking` or `nacking` before that call. Each
await is a step. `HandlerReturns`, `HandlerRaises`, `DeadLetter` and `Abandon` are
the branches of the retry loop. `StartRaises` is `start()` giving up after
`kafka_startup_attempts`: it raises, the task ends, and nothing starts it again. `Crash` is
the end of a process or of the task at
shutdown. Broker behaviour is external: `Assign` and a raising commit for Kafka,
`Deliver` and `ConnectionLost` for RabbitMQ. A record is its offset or delivery and
an identity; `NoId` is a record from which `extract_message_identity` gets nothing.
Time in the cache is the order of its entries: a ttl drops the oldest ones.

**Projection.** A session reads the row, changes its copy and commits the columns it
changed. `BeginSave` and `CommitSave` or `FailSave` are the two ends of
`save_incident_event` in its caller's session; `BeginReplay`, `ReplayOne` and
`EndReplay` are the worker, whose loop keeps one session for a batch. The model takes
from SQLAlchemy that a flush writes the columns that differ from what was read, and
that nothing locks the row. The replay reads the newest 800 events of all incidents:
`others` are those of other incidents, stored at any moment (`OtherSaved`), and `Limited`
counts them. A row is three columns: the status, `latest_event_at`,
and the event that the remaining ones are copied from.

**Pipeline.** One incident. A recommendation is what the handlers look at: whether a
decision and its key are there, the severity, the tier, the confidence, evidence and
reasoning. A request is a decision and a kind of approver. Each await of a handler is
a step of the service, and messages are handled concurrently. A service takes a
message from a topic, a set, and may get it again (`RemediationRedelivered`,
`ClosureRedelivered`); which messages a consumer gets again, and why, is the subject
of the consumer modules. Retries within a delivery are `HandlerRaises` and
`ClosureRaises`; after the last one the message is in the dead-letter queue or, if that
cannot be reached, back in its queue (RabbitMQ) or passed by (Kafka). The transport is
chosen at the start. Over RabbitMQ every consumer has a queue of its own. Over Kafka the
services have one `kafka_group_id` (`config.py:27`), so a recommendation, on the only topic
here that two of them read, is handed to one of the two (`HandedTo`), a rebalance may give
it to the other one (`RecordMoves`), and a consumer whose `start` or `commit` raises reads
no more until its service restarts (`ConsumerEnds`). A tool is
its outcome. Actions that a person rejected and ones that the policy blocked are
skipped and recorded, like any other. `build_action` always picks a type on the list,
so the safety controller lets every action of the bus path through.

**Local workflow.** `stage` is the next `persist_step` of each request; the tables
`Analysing`, `Recommending`, `Pausing`, `Remediating` and `Continuing` are the order
in which the code goes through them. `rows` holds the transactions that committed.
`Load` is the beginning of a continuation up to its first await that writes, `Execute`
the tool or the rejection, `BeginClose` and `CommitClose` the two ends of the closing
transaction (the incident is read, then its status is written if it differs from what
was read), `Complete` the completion mark and the answer. `Fail` is an exception
anywhere, `Restart` a new process: memory is lost and the tables stay. Both endpoints
pass `auto_approve=False`, so severity alone decides on the pause. A modification
replaces the type of the action by free text: the kind `unlisted` is a text which is
not on the list, and which the safety controller blocks.

**Console.** A step is a handler, an answer or a timer with the whole commit that
follows: each module has an operator (`Commit`, in `AlertCockpit`, `ApprovalDesk` and
`WorkspaceNavigation`) that applies the effects in the order of the file to the values
of the render, and it is a step of its own where a second commit may come between. A call in flight keeps
the values its code captured (`captured`, `incident`, `signature`), and an answer is
applied to the state it then finds. `React` and `React Router` are external: an effect
runs when one of its dependencies differs from the last render.

* `ConsoleSession`: tokens are named by the session row they belong to. `Attempt` and
  `Denied` are the two loops of `fetchJsonNetwork`: the retries of a failed request and
  the one repetition after a refresh. `RefreshChecked` and `RefreshCommitted` are the
  two ends of the gateway's transaction; what it reads may be rotated before it
  commits. A sign-in goes through the same retries: when its answer is lost it is sent again
  (`LoginRetried`), up to the last attempt (`GivenUp`), and a server that is slow may serve the
  abandoned one after that (`LateLoginServed`). Each served sign-in is a session of its own;
  the operator has the last one answered, and nobody has the tokens of the others. A refresh
  is sent once
  (`maxAttempts: 1`, `App.jsx:2361`), and may be lost on either way. An answer without a
  token is left out.
* `WorkspaceNavigation`: `Follows` is the effect that takes the tab from the URL and
  sets the flag, `Publishes` the one that gives the tab to the shell, which pushes a
  path; `Restricted` and `Forbidden` are the two rules for the role.
* `OperationalEvents`: an attempt is opening, open, waiting for its delay, or gone. An
  attempt belongs to an effect; events and positions are numbers. A stream that names the
  last event it saw goes on behind it; one that has seen none sends no `Last-Event-ID`, and
  begins anywhere (`Beginnings`, remembered in `joined`). The service behind it is external. A set of 1000 seen
  ids is a set of `SeenLimit`.
* `AlertStream`: rows are the number of changes the server had seen when it read them.
  The query client joins requests for one key and keeps the last answer until it ages.
* `AlertCockpit`: answers kept by the query client for five seconds, the bound of 60
  polls and the ten waits for a promotion are left out. A payload is partial or full.
* `AlertConsolidation`: the variables are the last answers, one row longer with every
  step, and each list is an operator on them, as it is recomputed by each render. A
  time is a number; the windows of the two derived identities are 5 and 10 of them. The words
  of a message are its signature. The correction of the application name of a row is left out.
  Each loop of the code over a list is a function of the number of turns taken (`Grouping`,
  `Reserved`, `Filled`, `Restored`, `Added`); its value at the length is the result.
* `OnboardingReview`: a fact is accepted or not, which stands for a value with confidence
  and status; a call carries what its code captured. The answer to a check or an
  approval is any verdict on every fact. `FileRead` covers the three ends of an upload. A
  save loads the project twice, as the code does.
* `AlertDocuments`: a form is what it is a document of (alert and kind) and whose words
  it holds; typing changes neither. A stored document is a file named by alert and
  kind, as in `write_rag_document`. The routes to read and to replace a document, which
  the console calls, exist in no service of the repository, and two of the kinds it
  offers are not accepted: `Refused` says which calls fail, and the code after a
  success of those is left out because it cannot run. Which alerts share type and
  service, so that a document of one is found for the other, is the constant
  `Matching`; a document without an alert is taken to match none.
* `IncidentTimeline`: the variable is the document the page reads, the stored incident of
  some moment, and the rows are operators on it. Each service of the pipeline is an
  action that appends its event and record. `clocks` says whether the times agree with
  the order of events, are all equal, or run against it; a decision is not in the
  document before its event. A text is the set of its words that a status is read from,
  a row its stage, its number if it has one, and the place of its event. The stages,
  with their conditions and times, are those of `buildSyntheticFlowRows`; the policy
  reason is any set of words in `Reasons`. Both sorts are stated by ranks: `AtRank` (of
  `Ranking`) puts everything at the number of those before it, plus one. Of the events the page keeps the
  last `TraceLimit` (300, `App.jsx:5559`), and only the first `Numbered` (9,
  `App.jsx:6568`) show their number, which is part of what tells two rows apart.
* `IncidentInbox`: of the columns of a row there are the status, the type of the latest
  event and the execution mode, which are what the card reads; the events are those
  whose envelopes the services build, and `Record` is what the projection keeps of one.
  After a rejection the pipeline goes on: the engine takes up the rejected decision, skips the
  tool and stores `remediation.executed` with the status `remediating`, and the closure
  stores `closure.completed` with `failed`. What follows a decision may have lost the
  execution mode (`unknown`).
  `LookupEffects` is the pair of effects of the command page with the cleanup that
  aborts the call. The gateway's route takes no incident, so `FindServed` answers with
  the newest row.
* `ApplicationPortfolio`: a registration is an identity, a name that anybody may change, and
  a version. The filter of the observed services compares names without case (`Fold`), and so
  do the inventory (`Unique`) and the check for the platform's own names (`Managed`); finding a
  row again after a failed removal compares them exactly. `Settles` is the
  pair of effects that choose a row and fill the form. A mutation that awaits its
  refetch goes on when that is over or dropped (`Released`). The registry and the
  inventory are external: their service is not in the repository.
* `ApprovalDesk`: a plan is the last edit or, before one, the suggestion of the details; its
  signature is the alert and the plan. `Hydrate` is the effect that writes a changed suggestion
  into the editor and resets the execution (`App.jsx:6404-6456`). The dry run, the decision and the run are services behind the gateway.

## 3. Runs

Every run ends in less than five minutes on two workers; those that find a violation end as
soon as it is found.

| run (`.cfg`, module `MC...`) | states | checks |
| --- | --- | --- |
| `KafkaConsumer` | 520,933 | `CommittedAccounted`, `RepeatsAreExplained`, `DeliversAtLeastOnce`, `EveryRecordTried` |
| `RabbitConsumer` | 481,029 | `RepeatsAreExplained`, `DeliversAtLeastOnce`, `EveryMessageRetired` |
| `MonitoringAdapter` | 156,900 | `RowTellsTheStore`, `LatestTimeConverges`; `ExecutionsDecided`, `ContinuationsAgree`, `PausedIsResumable`, `ContinuationsSettle` |
| `IncidentPipeline` | 338,915 | `ExecutionsAuthorised`, `ClaimsAreBacked`, `RepeatsNeedFaults`, `EveryDecisionConcluded` |
| `ConsoleShell` | 365,330 | `SessionIsNeverSplit`, `RequestsSettle`; `RestsWhereAllowed`, `NavigationSettles`; `HandledOnce`, `EventsArrive`; `AlertsAreToldApart`; `OnlyTheCheckedIsAccepted`; `DocumentsKeepTheirWords`; `EventsStandInOrder`, `FailuresAreShown` |
| `AlertStream` | 933,085 | `AlertsSettle`, `StreamConverges` |
| `AlertCockpit` | 652,040 | `PayloadMatchesAlert`, `LoadedSelectionSurvives`, `SelectionSettles`; `ReviewedFirst`, `GateOpensAgain` |
| `ConsolePages` | 801,492 | `CardsTellTheTruth`, `AnswersFitTheirQuestion`, `ListConverges`; `ActsOnTheChosen`; `StagesInOrder` |
| `ProjectionTorn` | violation | `StatusConverges` |
| `HumanGate` | violation | `HighRiskNeedsHuman` |
| `DeskIncident` (`MCAlertCockpit`) | violation | `RunsOnItsIncident` |
| `InboxLookup` (`MCConsolePages`) | violation | `RouteFindsItsIncident` |

Several of these properties are conjunctions, each of parts with a name of its own:
`RowTellsTheStore` of `SerialProjectionIsLatest` and `ColumnsFromStore`, `ContinuationsAgree`
of `AnswersAreRecorded` and `SerialIsConsistent`, `ClaimsAreBacked` of
`RecordedBeforePublished` and `ClosedIsEarned`, `SessionIsNeverSplit` of
`RefreshTokenPresentedOnce` and `OneLiveRowPerSession`, and so on: the text below and
the comments of the modules explain the parts.

The type invariants of both consumers, `IncidentProjection`, the pipeline, the local
workflow, the cockpit and the desk are theorems and are not run again; the others have a
definition (`NavigationTypeOK`, `DocumentsTypeOK`, ...) that documents the state and can be
added to a configuration.

What the passing runs show:

* **Consumers.** `DeliversAtLeastOnce` is the refinement: each loop implements
  `AtLeastOnceDelivery` under the mapping handled = the handler returned at least
  once, dead = sent to the dead-letter topic, retired = below the committed offset or
  acknowledged, dropped = given up with its dead-letter publication (Kafka) or
  malformed (RabbitMQ). A Kafka commit moves a position, not a record; it is still
  right, because a consumer which has lost its partition commits nothing and one that
  keeps it has settled, or given up, all that is behind its position. `RepeatsAreExplained` bounds how often
  one identity has an effect by what lost the memory of it: on Kafka a rebalance, a
  crash or a forgotten entry, on RabbitMQ the number of workers, crashes and forgotten
  entries.
* **Projection.** As long as sessions do not overlap the row shows the greatest event
  by time and precedence, through failures and repeats. When they overlap, columns
  still come from stored events, and the time of the row reaches that of the newest,
  unless events of other incidents as new as that one fill the replay first (`PushedOut`).
* **Pipeline.** The safety properties hold over every interleaving of the handlers,
  with two faults anywhere. `EveryDecisionConcluded` says that what asks for a
  remediation ends with a closure event or in a dead-letter queue: over RabbitMQ without
  exception, over Kafka unless it was let go (`LetGo`): handed to the other service of the
  group, passed by because its dead letter could not be sent either, or left to a consumer
  whose task has ended.
* **Local workflow.** Overlapping continuations may disagree (see the finding), but no
  tool runs undecided, no answer is given before its records are committed, and
  continuations one after the other agree. A paused workflow accepts well-formed
  continuations after any restart.
* **Shell.** However many requests are refused together, one refresh is made and its
  answer serves them all. No session ever has two live rows, although a sign-in is sent
  again and may leave sessions nobody uses. `RequestsSettle` holds although other refreshes keep
  rotating the token a request waits for. The tab and the URL settle, and wherever they
  rest, before that or after, is a place the role may open. Events are passed on once, through two streams at a time, and once the page stays
  watched none is missed of those after the point where the stream first joined in.
* **Lists and onboarding** (the same run). `AlertsAreToldApart` compares what both lists
  merge with a reference: the classes of rows that share an identity, directly or through
  others, and the greatest row of each class in the order the code prefers. It holds
  unless a row joins two alerts that were told apart before: then they stay two rows. The
  alert list shows these rows and no other. The stream shows all of them, and rows that
  were merged away besides only in a source that has no more rows than the minimum, which
  puts them back.
  `OnlyTheCheckedIsAccepted` holds over every overlap of drafts, checks, edits and
  approvals, because a verdict is kept beside the words it is about.
  `DocumentsKeepTheirWords` holds although the dialog often shows the form of another
  alert: an upload takes alert, kind and words from the form, and
  nothing but the mode from the dialog.
* **Timeline** (the same run). Of the events the page keeps, which are the latest, every
  one has one row, in one lane, after the
  events that lead to it, although the services' clocks may run backwards: the phase
  decides before the time. The exception are events without a number: of those that share
  type and time only the first is shown. An incident of more than nine events can show fewer than it has, then, if
  the clock that dates them is too coarse. A decision or an execution recorded as failed is shown as
  failed by its lane and its section, and no lane is failed for another reason, unless the reason
  of the policy, which is part of the text, holds a word that is read as a fallback or a success.
* **Alert lists.** `AlertsConverge` and `SettledRowsStay` say that a call that hangs
  costs time only. `StreamConverges` has a condition, which is what the code does: the
  poll compares its answer with the rows of the render it was started in, so when the
  landing pad returns to those very rows the screen keeps the newer ones.
* **Cockpit.** Details are filed under the alert they were asked for and applied only
  while it is selected. A loaded selection is taken away by nothing but the operator
  or the promotion of a waiting file.
* **Desk.** `RehearsedFirst` compares the plan that runs with those whose dry run
  passed, `DecidedFirst` the incident with the decisions recorded: they hold although
  edits, moves and answers come in between. `GateOpensAgain` follows the timers of an
  operator who stays. That the incident is that of the plan does not hold: see the
  finding.

* **Inbox.** The view an incident is filed under and the stage its card names are
  computed from the same row by different code, and agree for every row the services
  can produce. An incident that waits for a person shows no action before the decision,
  as `incidentStatus.js:14-16` wants it, and its validation or its end only after somebody
  agreed. Between the two lies what the program does with a rejection: the card shows the
  resolving stage as current and then as complete, although the action was skipped. The list fits its filters although they reach the request through a ref.
  That a URL finds its incident does not hold: see the finding.
* **Portfolio.** A save takes the identity from the selection and the text from the
  form, in different renders of the row; they always agree. What stays checked after a
  bulk removal was ticked, or is found again by the name of a row that could not be removed:
  another registration of that name, then, or the observed service. The row of the platform,
  which cannot be ticked, can be checked and removed in this way only.

### Bounds

* *Consumers*: two workers are enough for a partition or message to move and to
  come back. The Kafka log is a message, another one and a copy of the first; with a
  cache of one entry the second one pushes the first out before its copy arrives. The
  queue has a message, one without identity and one that is malformed. One retry
  distinguishes "again" from "no more". Faults are counted by kind on Kafka (one
  crash, one rebalance, one task that ends by a failing commit or start, one expiry; outages of the dead-letter
  topic are unlimited), and any two on RabbitMQ.
* *Projection*: three sessions, two handlers and the worker, four events with two of
  them at one time and different precedences, two events of other incidents, the replay
  limited to two (800 in the code), one failed commit. A third handler adds no conflict a pair does not have: a commit overwrites
  columns of one earlier commit.
* *Pipeline*: a critical recommendation, one the policy executes, one it blocks; a
  human who approves and an agent who rejects; `MaxFaults` 2 over restarts,
  exceptions and redeliveries; `MaxEvents` 3 over recommendations, decisions and
  faults together: a behaviour with two faults has one recommendation or decision,
  one with none has three that interleave. `MaxAttempts` 2 is one retry. Both transports.
  That a record that was passed by is delivered again takes three faults, so this case rests
  on the proofs of the safety invariants.
* *Local workflow*: two requests, each with any decision, two faults, and the four
  settings of severity and database. A larger instance, three requests and one fault
  (1,299,870 states, five and a half minutes), was explored without an error.

* *Shell*: two kinds of requests, of which the panel sends two at once, one sign-in
  of a load, three session rows, one access token that lapses, two attempts of a sign-in and
  one fault: enough for a
  refused request to meet a refresh that is under way, answered or lost, and for a sign-in to be
  served twice. All roles that differ, six paths (one forbidden to each role, one with a
  redirect), three moves. Three events, a memory of two, two breaks and three changes of
  the page. The seven parts share no variable in the code, so one behaviour shows one
  of them.
* *Consolidated lists*: any five of nine rows, in any order within their answer: an
  alert in all three sources, repetitions within and beyond a window, another type, a row that
  bridges two alerts. Two rows per source and a minimum of one, so that quota and
  minimum both bite. *Onboarding*: one fact and two texts, three calls, one fault, two
  edits. Two facts with three calls (370,610 states) and with four (7,981,212 states)
  were explored without an error. *Documents*: two alerts, of which one matches the
  documents of the other, three kinds in the order of the code with a refused one in the
  middle, one document at first or none, four acts, one lost answer.
* *Timeline*: the whole pipeline once and two executions, with any decision and outcome
  each, so that an old failure meets a new success; three behaviours of the clocks; a
  reason that says nothing, or "fallback". Two executions leave up to ten events; a page that
  keeps eight and numbers two (in the code 300 and nine) has then dropped some, and meets
  events that cannot be told apart.
* *Alert lists*: two changes of each source, two acts of the operator (a refresh, a
  change of tab, a pause or its end), one late call, one fault, from the home tab or
  from that of the stream: polls and events are not bounded, so a call taken over
  answers after its successor.
* *Inbox*: two incidents, one of which asks for a person, seven events, so that one goes
  all the way and the other is overtaken. The list is read while both are on their way with
  one event to come, and while there is none and the first one arrives (the seven events are followed
  without a list); three acts, one fault, two rows, one to a page.
* *Portfolio*: three registrations, two of them with one name and one with that name in
  capitals, observed services and the platform; three acts, one lost answer, one change from
  elsewhere, which may be a new name. The row of the platform is checked again within these
  bounds; its removal takes a fourth act, and rests on the proof; all seven steps
  of the onboarding.
* *Cockpit*: two alerts and one file, two moves, one fault, one regeneration, one
  change of the lists. *Desk*: two incidents, so that there is a next one in the queue; three
  clicks (rehearse, approve, execute), two moves, one disturbance (a fault, or another suggested
  plan).

`CHECK_DEADLOCK FALSE` stands where the system may stop: the queue is empty, the log
is read, the requests are answered.

### Fairness

* *Consumers*: each worker's loop goes on (`startup` makes it a task of the event
  loop) and the broker delivers and assigns what it holds. Nothing says that a handler
  ever succeeds. On Kafka a task that dies by a failing commit or start stays dead, since
  nothing restarts it, and `EveryRecordTried` excepts it.
* *Projection*: the worker's loop never ends; handlers save their events in the end,
  because a failed message is retried. Nobody is preferred.
* *Pipeline*: weak fairness of each service as a whole: its event loop runs some
  handler that can go on, and its broker delivers what it holds. No client has to decide; no
  fault, no rebalance and no restart has to happen.
* *Local workflow*: the event loop runs every request it has accepted. No client has
  to come back.
* *Console*: the browser runs what is due: answers and errors arrive (`fetch` has a
  timeout), timers fire, effects run, and the query client settles. Polls fire because
  they are intervals. All of it is weak
  fairness. No operator has to act; where a property speaks of a place
  (`<>[](tab = "home")`), its antecedent says that he stays there.

### Findings

| run | where | what |
| --- | --- | --- |
| `ProjectionTorn` | `repository.py:1149-1202` | overlapping sessions leave the time of one event beside the status of another, which the replay does not repair |
| `HumanGate` | `approval-service/app.py:299` | a first decision overwrites the entry which the gate for high severities reads, and an agent may decide next |
| `DeskIncident` | `App.jsx:8115`, `7500` | after the approval of an alert the form names the next incident of the queue, and the reviewed plan is decided and run on that one |
| `InboxLookup` | `api-gateway/app.py:723`, `IncidentCommand.tsx:130` | the gateway drops the incident that the command page asks for, and the page reports it as not found |

Some more behaviours follow from the models and are worth knowing, though no run is kept
for them. A Kafka record whose last attempt fails while the dead-letter topic is down
is passed by the commit of the next one (`abandoned` in `KafkaConsumer`). All services
share one Kafka group id, so a recommendation reaches approval-service or
remediation-engine, and not both (`HandedTo`). A sign-in whose answer is lost leaves a session
that is live and that nobody uses (`LoginRetried`). A RabbitMQ
message may be handled by two workers, each with its cache (the bound in
`RepeatsAreExplained` counts the workers). Two requests to continue one paused local
workflow may both run the tool (`overlapped` in `LocalWorkflow`). A sign-out while a
refresh is under way is undone by the answer of that refresh (`RefreshDone` of
`ConsoleSession`). A row with identities of two alerts leaves them two rows, of which
only the first learns the new identities (`Joined`), although the comment at
`appHelpers.jsx:778-783` speaks of a union. A minimum per source brings back rows that
consolidation had merged away, when their source is short (`EnsureMinimum`). The answer
of an approval replaces the pack and marks it approved even if other material was
uploaded meanwhile (`ApprovalAnswered`). A draft that fails leaves the pack of the
documents before, which can then be approved with the new ones (`DraftFails`). Making
all documents of an alert stops at the kind jira, the second one, and at the first kind
that has a document (`Refused`); what was made before is stored, but the list is not read
again. A first upload turns the dialog to the stored document, and the next upload asks
to replace it, which is refused (`Turned`). A list that cannot be read is empty, so a
draft then replaces the stored document without a word (`LoadRagDocs`). Opening the dialog
enables its buttons while a read is still out (`OpenDocumentPrompt`). No service answers
`/rag/documents/content`, so the dialog never shows "the real saved document"
(`App.jsx:4237`) but what the form held before (`CallRefused`). The card of an incident
whose action failed says "Remediation completed" once it is closed, since the closure
event replaces that of the action (`Lifecycle`, `IncidentsRoute.tsx:190`). The retry of a
failed lookup changes nothing its effect depends on, so the command page shows that it is
loading and asks for nothing (`RetryLookup`, `IncidentCommand.tsx:152`). The timeline shows
the stages of an incident that has only landed, up to the execution and its handover, as
observed, so that its lane of execution is complete before anything ran
(`RemediationRows`: its commands are never empty). A rejected approval turns that lane
to failed, since its event says so (`Decide`, `approval-service/app.py:314`). A failed
closure is never shown as failed, because the name of its event contains "completed"
(`EventWords`). Two events of one type and one time are
one row once the page has numbered nine events, since the number is what told them apart
(`RowKey`, `App.jsx:6761`). The flow stage of an action that failed says that it waits for an approval or an
executor (`appHelpers.jsx:2509`).

## 4. Proofs

Each theorem holds for every value of the constants that satisfies the named
assumptions of its module: any number of workers, records, sessions, events,
recommendations, requests, retries, moves and faults. The assumptions say what kind of
thing a constant is (`MaxFaults` is a number, `NoEvent` is no event) and, where the code
or its environment makes it so, that a set is finite or related to another:

* `CacheAssumption`, `KafkaAssumption`, `RabbitAssumption`: the cache holds at least one
  entry; the log is a sequence; there are finitely many workers. Without a first worker
  there is nobody to assign a partition to.
* `ProjectionAssumption`, `BusAssumption`, `EngineAssumption`, `LocalAssumption`: finitely
  many events, those of other incidents being others; times are positive; thresholds are
  percentages.
* `ConsoleSessionAssumption`, `EventsAssumption`, `DeskAssumption`, `OnboardingAssumption`,
  `DocumentsAssumption`: bounds, and a mark for "none" that is not one of the things. The
  kinds of document contain the three that the service accepts.
* `NavigationAssumption`: the roles are among those the navigation items name. A role
  that no item names could open nothing, not even the home page.
* `CockpitAssumption`: a file alert is promoted to an alert, and is none itself.
* `PortfolioAssumption`: identities are no names. The table mixes registrations with
  observed services, whose identity is their name; the portfolio tells them apart that way.
  Nothing is assumed of names: a registration may be called like the platform.
* `InboxAssumption`: finitely many incidents, a page and an answer of at least one row, and
  the filter that shows everything, which `clearFilters` goes back to.
* `StepsAssumption`: an onboarding has at least one step.
* `ConsolidationAssumption`: the rows of an answer are records of texts, with a time and a
  score that are numbers; the quota of a source is at least one row.
* `TimelineAssumption`: the page keeps at least one event, and an empty time is no number.

| module | theorem | states |
| --- | --- | --- |
| `ProcessedMessageCacheProofs` | `MarkProperties` | what `mark` keeps, adds and drops |
| `KafkaConsumerProofs` | `TypeCorrect` | `Spec => []TypeOK` |
| | `CommittedIsAccounted` | `Spec => []CommittedAccounted` |
| | `ImplementsDelivery` | `Spec => DeliversAtLeastOnce`, the refinement |
| | `RepeatsHaveReasons` | `Spec => []RepeatsAreExplained` |
| `RabbitConsumerProofs` | `TypeCorrect` | `Spec => []TypeOK` |
| | `AckedIsAccounted` | what is acknowledged was handled, dead-lettered or malformed |
| | `ImplementsDelivery` | `Spec => DeliversAtLeastOnce`, the refinement |
| | `RepeatsHaveReasons` | `Spec => []RepeatsAreExplained` |
| `MonitoringAdapterProofs` | `UpsertOrderIndependent`, `UpsertIdempotent` | the order in which events are applied, and how often, does not matter, except for two of equal time and rank |
| | `TypeCorrect` | `ProjectionSpec => []ProjectionTypeOK` |
| | `SerialIsLatest` | `ProjectionSpec => []SerialProjectionIsLatest` |
| | `RowIsFromTheStore` | `ProjectionSpec => []ColumnsFromStore` |
| | `RowTells` | `ProjectionSpec => []RowTellsTheStore`, both together |
| | `LocalTypeCorrect` | `Spec => []TypeOK`, of `LocalWorkflow` |
| | `ExecutionsAreDecided`, `AnswersAgree` | the safety invariants of the local workflow |
| | `PausedResumes` | `PausedIsResumable`, an action property |
| `IncidentPipelineProofs` | `PipelineTypeCorrect` | `Spec => []TypeOK` |
| | `ExecutionsAreAuthorised`, `ClaimsWereBacked`, `RepeatsAreFaults` | the safety invariants of the pipeline |
| `ConsoleDeskProofs` | `CockpitTypes` | `CockpitSpec => []CockpitTypeOK` |
| | `PayloadsMatch` | `CockpitSpec => []PayloadMatchesAlert` |
| | `LoadedStaysSelected` | `CockpitSpec => LoadedSelectionSurvives`, an action property |
| | `DeskTypes` | `DeskSpec => []DeskTypeOK` |
| | `ReviewedBeforeRun` | `DeskSpec => []ReviewedFirst` |
| `ConsoleShellProofs` | `SessionStaysWhole` | `ConsoleSpec => []SessionIsNeverSplit` |
| | `OnlyCheckedAccepted` | `OnboardingSpec => []OnlyTheCheckedIsAccepted` |
| | `WordsAreKept` | `DialogSpec => []DocumentsKeepTheirWords` |
| | `RestIsAllowed` | `NavigationSpec => []RestsWhereAllowed` |
| | `EventsOnce` | `EventsSpec => []HandledOnce` |
| | `ListsInvariant` | `ListsSpec => []ListsInv`, what the three answers hold |
| | `AlertsAreAlwaysToldApart` | `ListsSpec => []AlertsAreToldApart` |
| | `TimelineInvariant` | `TimelineSpec => []TimelineInv`, what the services store |
| | `EventsAlwaysStandInOrder` | `TimelineSpec => []EventsStandInOrder` |
| | `FailuresAreAlwaysShown` | `TimelineSpec => []FailuresAreShown` |
| `ConsolePagesProofs` | `StagesStandInOrder` | `OnboardingPipelineSpec => []StagesInOrder` |
| | `PortfolioActsOnChosen` | `PortfolioSpec => []ActsOnTheChosen` |
| | `AnswersFit` | `InboxSpec => []AnswersFitTheirQuestion` |
| | `CardsAreTrue` | `InboxSpec => []CardsTellTheTruth` |

### The arguments

**Kafka.** `CommittedAccounted` is not inductive: a commit covers everything behind
the position, so it needs to be known that everything there is accounted for, except
the record the owner has in hand (`OwnerAccounted`), that this record is, too, once
the worker is about to commit (`CommittingDone`), and that the committed offset is
never past the position (`CommittedBehind`), so that a new owner begins with a prefix
that is accounted for. A duplicate is skipped because the cache knows its identity,
so the cache must be truthful: what it holds was handled or dead-lettered
(`CacheTruthful`). `IInv` is their conjunction with `TypeInv`, the type invariant
with what a worker has in hand. The refinement follows action by action: a returning
handler is `Handle`, a dead letter `DeadLetter`, an abandoned record `Drop`, a
commit `Retire` of the offsets it covers, anything else a stutter. The cache is
reasoned about through the lemmas on `Mark` and `DropOldest` only.

**RabbitMQ.** There is no order to reason about: `IInv` says that a cache is truthful,
that a message is accounted for once its worker is about to acknowledge it, and that so
is all the broker has forgotten. The refinement is that of Kafka with
`Retire` of one message at an acknowledgement; a lost connection is a stutter, because
the message it returns is not retired.

**Repeats.** `RepeatsAreExplained` counts, and a count is not inductive by itself: a
worker that has begun with a copy will return although its cache has since learnt the
identity. On Kafka the workers that may still return for an identity are its `Chances`,
namely those that handle a copy, the owner if its cache does not have the identity, and the
vacant partition. Returns and chances together are at most one more than the excuses: a
return uses up a chance, because `mark` puts the identity into the cache before anything
else is awaited, and only a rebalance, a crash or a forgotten entry makes a new one. On
RabbitMQ each worker has a chance of its own (`Unaware`), which is why the number of
workers is part of the bound. `MarkProperties` tells which entries a full cache drops: besides the ttl,
nothing else forgets an entry.

**Projection.** An algebraic part: `Upsert` is a maximum by time and precedence, so
it is idempotent and, up to ties, commutes. A state part: `SerialInv` says that, while
nothing has overlapped, the row shows the latest event, the session that is open holds
what it read and applied (`SaveFits`), and the worker's object agrees with the row on
the columns it has not written (`ReplayFits`), so that writing back its dirty columns
makes the row it means to make. `ColumnsInv` holds whatever overlaps: the columns that a
session will write are those of the event it saves or of one in the store (`From`). An
overlap can therefore mix the columns of events, which is the finding, but not invent any.

**Pipeline.** `HandsInv` says what a handler holds at each stage and which rows of it
are already committed, `DecisionsInv` and `ClosingInv` the same for requests and
closures. From it follow `RowsInv` (a recorded action that ran was authorised) and
what is published. `CountsInv` couples the number of actions of a message with
its stage: a message that waits again has cost a fault. Authorisation is stable,
because decisions are never withdrawn. The lemmas are arranged by service, so that
a step of one leaves the invariants of the others alone. How messages reach the services
(`DeliveryStep`) does not enter: the invariants hold for every subset of what is delivered.
A rebalance or the end of a consumer costs a fault and changes nothing else
(`TransportInv`).

**Local workflow.** `StagesInv` says where each writer may be and what the pending row
must be by then, `RecordsInv` which transactions are committed at each stage, and
`SerialInv`, as long as nothing has overlapped, that at most one continuation is under
way, that nobody is once the payload is stored, and that between the read and the
commit of the closing transaction nobody else writes the incident.

**Console session.** The two invariants hold because of one: whatever token
could still be presented, the one signed in, the one of an answered sign-in or that of an
answered refresh, has never been presented (`Presentable`), at most one refresh is
awaited and it is that of the shared promise (`OneAwaited`), and a refresh not yet
decided holds the newest row of its session (`UndecidedNewest`), all older ones being
dead (`OlderRowsDead`). `TokenInv` is their conjunction with the types. The requests
play no part: they only ever ask for the shared promise, which is why any number of
them is safe.

**Navigation.** Each render compares the tab and the URL with the role, but by what its
effects saw. `RestInv` says what they can rely on: as long as the tab and the role are
those seen, the tab is allowed; as long as the URL and the role are, the URL is, or
another one is on its way; and no navigation is on its way to the URL already shown,
unless that is home, so that a redirect cannot be mistaken for an arrival. At rest what was
seen is what is there, and nothing is on its way.

**Events.** The stream drops an event whose id it remembers, and forgets by cutting the
memory to a bound. `Memory` says that up to the bound the memory is exactly what was
handled, without repetition, and counts the same; so an event that comes again, through an
attempt that was replaced or after a reconnection from an older position, is found.

**Timeline.** The rows are a function of the stored document, so the invariant
(`TimelineInv`) says little: which events and records there may be, that an event says
"failed" only if it is a decision, an execution or a closure, and that only the record of a
failed action has an error. It leaves the times free, so what is proved of the rows
holds for any clocks, not only for the three that TLC tries. The rest is an argument about
one document. A finite order of everything is numbered by the size of what lies before
each element (`RanksOf`, `AtRankOrders`); this turns both sorts into facts about a
permutation, without an induction over the list. The comparison of the sort is such an
order only because of the rows there are (`RowsInTurn`): it compares numbers when both rows
have one and places when one has none, which in general is a circle of three; but the rows
of stages have none, those of the context agent and of the events have numbers that grow
with their places, and the two sorts of numbers never meet in one phase. Rows of one phase
and time are then in the order of the list. What the filter leaves is the first of each
key (`RowsShown`), and two event rows have the same key exactly when both show no number
and agree on type and time (`KeyOfEvents`). A row has one lane because its number or its
stage names one, or its text hits one of two (`InOneLane`). A failure is shown because the
row of a failing event is an error row (`FailingEvents`) that is in the lane and in a section
of its kind, and a section fails with any of its rows.

**Consolidated lists.** Both lists are functions of the three answers, so the invariant
(`ListsInv`) says only that an answer is a sequence of rows; what is proved holds for any
rows, any number of them and any quotas. The work is about the loops. A function on
`0..n` that is defined from its predecessor exists (`Recursion`), and what each turn keeps
holds along it (`Along`): both are about the set of the turns where something holds, and the
least number outside it, so that no induction theorem with an operator parameter is needed. After each turn of the grouping
every row so far is in one group, every known identity leads to the group of the rows
that carry it (`Keyed`), and, as long as no row bridges two alerts, the groups are the sets
of linked rows: a new row is linked to what shares an identity with it, which is one set or
none (`Together`). A group holds the row of it that no other is preferred to and that comes
first among its equals (`AllHold`): the preference is irreflexive and transitive
(`AboveOrders`), and `Replaces` is that preference. For the quotas: after each turn of the
reservation the newest row of each type has a slot, or its source is full, and every
reserved row has a type of its own; the filling only adds, and only while its source has
room. So a source without a row of some type shows as many types as its quota. The sort is
a permutation by the numbering lemmas of the timeline. The minimum and the cap (`ShowsRows`) are
seen turn by turn, too: filling and restoring only add, and a source that has come to more rows
than the minimum was given none. The rows carry strings from the answers
and literals of the console (`"-"`, `"info"`, `"closed incident"`), and the prover does not
know that a literal is in `STRING`; the lemmas are therefore about rows whose texts are in
`STRING` or among those literals (`AnyText`), which asks less than `StreamRows` does.

**Cockpit.** `Filed` says that the details belong to the alert they are filed under and
that only an alert, not a file, has any that were requested. Each effect of a commit
preserves it (`LoadingFiles` and the lemmas after it), so their composition does. For
`LoadedSelectionSurvives` the effects are followed one by one: with details loaded none of
them moves the selection, whatever the lists have become.

**Approval desk.** `CallsReviewed` carries the review along with a call: a call at the
stage of its run has a decision for its incident, and one of the cockpit a signature
that was rehearsed; `GateHonest` says that the signature the gate shows as rehearsed
is one the server passed. The decision and the run use the same incident because the
call captured it, however the form moves on: this is what is proved, and why the
finding is about the choice of the incident, not about the pair of decision and run.

**Onboarding.** A verdict that is kept was given by the server for the text kept
beside it (`VerdictsKept`), so a correction that is trusted is one of those the server
accepted, whatever has been drafted or typed since. A call holds what it captured
(`CallHolds`): an approval holds facts that were ready when it was sent, and a run
through a batch that has had no failure has ingested all it has passed.

**Alert documents.** The form, and every call that stores something, holds the words of
the alert it names (`WordsInv`): drafts are made that way, a change of kind keeps the
alert, and a call captures the form as a whole.

**Onboarding stages.** The status and the history are answers of different moments, so
neither may be ahead of the pipeline, and a status of failure comes from a pipeline that
has failed (`PipelineInv`). The last step shown complete is the greater of the two, and what
lies before it is shown as complete.

**Portfolio.** The form is that of the selected row, a save carries the identity and the
text of one form (`EditInv`); what is checked was ticked, or is a
namesake of a row that a bulk removal could not remove (`ChoiceInv`); a registration that was removed is not in the registry, and
an answer or a list that still has it is older than the bulk removal that is under way
(`RemovalInv`).

**Inbox.** A request that does not ask for the present filters is followed by another one
(`Followed`), a page has records unless it is the first, and a lookup is of the route or
was aborted (`LookupInv`): together `AnswersInv`. `CardsTellTheTruth` compares two
functions of a row over all rows the services can write, so the invariant is which rows
these are, by the kind of the latest event (`RowOf`, `CardInv`); a row that tells of an action of
an incident that waits for a person comes after the decision, and only an incident somebody
agreed to is worked on (`worked`). The stage of
the card is then found from the kind of row, with the help of a lemma on lifecycles that have
nothing ahead but their last stage.

### What is model-checked only

* Liveness: `EveryRecordTried`, `EveryMessageRetired`, `LatestTimeConverges`,
  `EveryDecisionConcluded`, `ContinuationsSettle`, and those of the console
  (`RequestsSettle`, `NavigationSettles`, `EventsArrive`, `AlertsSettle`,
  `StreamConverges`, `SelectionSettles`, `GateOpensAgain`, `ListConverges`). The prover
  has no rules for fairness.

Every other property of the passing runs is a theorem: all invariants, both action
properties and both refinements.

## 5. What is not modelled, and why

* Most of the console's lines are the markup and formatting of its workspaces; the models
  stand for about one line in four of its JavaScript and TypeScript. The
  reports and the rule pipelines keep state of their own and are in the plan below.
* The Python UI, the older console in `services/ui/react`, the rendering of the
  console, migrations and deployment files: presentation and configuration without a
  protocol of their own.
* In the console: frames of the event stream that cannot be parsed; answers of a
  refresh without a token; at the desk the second approve button of the reviewed
  script (`App.jsx:11385`), the stage-completeness branch of the poll, and `submitApproval` without a
  plan. In the onboarding, the rule pipelines, the boxes for rules and metadata, and the
  knowledge written from uploads after a save. Among the documents of an alert, what is
  typed into the form, the knowledge page that shares it, and the evidence drafts. In the inbox, the alerts beside the incidents, the grouping by ticket, noise and duplicates. In the timeline, the documents of the local workflow (work items, `incident.closed`) and the discovery rows, which no service here fills. Reports.
* The text of events, metrics, logs and the layout of envelopes: no property is
  about them. A publication is an element of a topic.
* The providers that publish nothing (`disabled`, no-op; `common/event_publishers.py`). Over
  the two brokers a publication either succeeds or raises.
* The first start of a RabbitMQ consumer: a queue exists only once its consumer has declared it,
  and what was published before is in none.
* The reasoning of the agents and the tools: they are their outcomes.
* The first start of a Kafka consumer group: the models begin with a group that has
  committed before. With `auto_offset_reset` at its default, a group without an
  offset skips what was published earlier.
* Payloads that are not JSON on Kafka: they end the task that reads them, as does a
  commit that raises, which is modelled.
* In the local workflow, a database that is enabled but was not reachable at startup
  (`app.state.session_factory` is None): its transactions then use an engine of their
  own while the pending workflow is kept in memory.
* Direct `POST /execute` and `POST /validate`, the capacity assignments of
  approval-service, and the read endpoints.

## 6. Plan

In this order; what is done is marked.

1. (done) the cache, the delivery promise, and both consumers that implement it;
   everything else rests on what they repeat and what they lose.
2. (done) the event store and its projection.
3. (done) the pipeline from a recommendation to a closure, with decisions.
4. (done) the local workflow with its pause.
5. (done) the console: session and requests, navigation, events, alert lists, alert
   cockpit, approval desk, with the theorems about session and desk.
6. (done) the consolidation of alerts, and the review in the onboarding workspace with
   its theorem, and the documents of an alert with theirs, the incident inbox, the application portfolio and the timeline of an incident.
   To come: the rule pipelines and the reports.
7. `ModelRouter`: circuit breakers, response cache, fallback and retries, together
   with the agent runtime that calls it. Abstract specification: a breaker that is
   closed, open or half open, and recovers when the provider does. Questions: whether
   a refused call renews the outage, whether a cached answer outlives its ttl. Runs
   with two providers and three calls; theorems on the states of a breaker.
8. The lockout of accounts in the gateway, with concurrent failed logins.
9. The upstream stages, alert-intelligence to resolution-agent: deduplication and
   correlation of alerts, the policy engine as a function checked against a
   reference, and the handover of an incident from stage to stage; then the whole
   pipeline as a refinement of an incident's life cycle.
10. Ingestion and onboarding in monitoring-adapter; the capacity assignments, which
   spend a responder's hours from a list read once.
11. Proofs: (done) both consumers with their refinements and repeats, the projection, the
    pipeline, the local workflow, and all safety properties of the console. To come: the theorems of the modules above.

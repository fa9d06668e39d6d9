# Ala-Too PM: a TLA+ model of its core

Ala-Too PM is a project management server (Taiga): a Django API over PostgreSQL,
a Celery worker, a Node.js gateway for live events and an AngularJS client.  This
directory models the parts where requests, signal handlers, background jobs, brokers
and browser tabs meet: who may overwrite whom when an item is edited, when stories and
sprints count as closed, what reaches an open board, in which order it shows its cards, and
which numbers, votes, lanes, owners and mails overlapping requests leave behind.  TLC checks
the models on small instances; TLAPS proves the main invariants for instances of any size.

Paths are relative to the repository; `back/` stands for `taiga-back/taiga/`.

## 1. The system

    browser (taiga-front) -- HTTP --> nginx (gateway) --> taiga-back, 3 gunicorn workers
        |                                                   |          |
        | WebSocket                                     PostgreSQL   RabbitMQ --> Celery worker
        v                                                   ^          (jobs)        |
    taiga-events (Node.js) <-- RabbitMQ (events) <----------+------------------------+

Between requests a server process keeps nothing of its own but the set of signal handlers
it has connected.  Everything shared is in PostgreSQL (rows, advisory locks, sequences) and in two brokers.  `ATOMIC_REQUESTS`
stands at the top level of `taiga-back/settings/common.py:80`, where Django does not
read it, so a request is a transaction only where the code says so (`tx.atomic`).

| Component | State | Operations | Hard behaviour | What makes it correct |
|---|---|---|---|---|
| Optimistic concurrency control (`back/projects/occ`, `back/base/api/mixins.py`) | `version` of each item, advisory lock, row lock | PATCH/PUT with a version | handlers of several workers interleave; the lock ends before the commit; the object may be loaded before the lock | conflicting saves are refused, the others merge, versions count saves, every save is answered |
| History (`back/projects/history`) | entries with partial diffs | `take_snapshot`, comments | snapshots are compared with what is committed, entries of attachments count too | the history rebuilds the object |
| Stories, tasks, issues, sprints (`back/projects/{userstories,tasks,issues,milestones}`) | rows; stored `UserStory.is_closed`, `Milestone.closed` | create, edit, move, delete, drag, bulk endpoints, statuses | nested saves in signal handlers; direct updates without signals; jobs run later; transactions overlap | flags are what items and statuses say, or a job will make them so; no dangling keys |
| Live events: emission, gateway, client (`back/events`, `taiga-events`, `taiga-front/app/coffee/modules/events.coffee`) | subscriptions, channels, queues, pending messages, socket state | emit, auth, subscribe, unsubscribe, heartbeat, reconnect | promises pending while commands and closes arrive, lost messages, order at connection | what a tab asked for is delivered, surplus consumers come only from overtaken starts, notifications come back after a fault |
| Votes, watchers, likes (`back/projects/{votes,likes}`) | vote and like rows, counters | add, remove, recount | counter and rows written under a lock that ends early; totals recounted from what a transaction sees | drift only from overlaps that are named, and healed by the next request alone |
| References (`back/projects/references`, used by the API, importers and dumps) | sequence per project, reference rows | create, change of project, deletion, import, recount | sequences do not roll back; nextval and setval are two steps | one number per item unless a dump brings it twice, links lead to their item |
| Order of boards (`back/projects/services/bulk_update_order.py`, `back/projects/userstories/services.py`, kanban and taskboard of the client) | positions in the database and in every tab | drags, loads, messages | positions shifted while being read; tab and server work them out apart; retries given up silently | the order the user gave, the same in every tab once all is handled |
| Swimlanes, destruction of attributes (`back/projects/mixins/on_destroy.py`) | swimlanes, statuses, defaults | create, delete with `moveTo`, drag | several queries, concurrent moves into what is deleted | stories keep their lane or go to the heir; a default exists as long as no edit empties it |
| Change notifications (`back/projects/notifications`) | collecting row per author and object | collect, mail in batches | mailer and author race on the row; a batch dies halfway; clock arithmetic | every comment is mailed, the last line is the value, unless the mail fails |
| Memberships and transfer (`back/projects/services/{members,transfer}.py`) | owner, transfer token, memberships | start, accept, reject, leave | token checked on a row loaded earlier, every column saved | one decision per transfer, the owner is an administrator |
| Signal handlers of server processes (`back/projects/*/apps.py`) | which handlers are connected, per process | bulk creation, deletion, duplication, import of items | disconnected for a request, for the whole process; a failure between the two halves | a process between two requests has all its handlers |
| Authentication (`back/auth`) | refresh tokens, denylist | login, refresh, flush | two refreshes of one token | a rotated token is used once |
| Webhooks (`back/webhooks`) | jobs, ten logs per hook | send, resend | jobs of one hook overlap | |
| Attachments, custom attributes, epics, wiki | rows | edits | only through history and versions | see the first rows |
| Export, import, importers, hooks of code hosts | rows | sequential translation | numbers and handlers while others work | see References and Signal handlers |
| Timeline, search, statistics, permissions, tagging, templates, users, feedback, telemetry, storage, external applications | rows | queries and single edits | | |
| Web client, deployment | what is on screen; configuration | | sends several requests at once | |

How they interact.  A save of an item runs `pre_save`/`post_save` handlers (sprint and
story flags, references, timeline, events) inside its transaction; events go to the
broker on commit.  Kanban and backlog drags update rows directly and send a Celery job
that recalculates afterwards.  The history is written by the same handler after the
save and read by the version check of the next one.  The dialog that empties a sprint
sends several requests at once.

`PROJECT.json` lists every component with its sources and every hazard at its line.

## 2. Modules

| Module | Models |
|---|---|
| `OptimisticLocking` | the update handler of a versioned object, statement by statement |
| `MergedObject` | abstract specification: edits of one object merged field by field |
| `OptimisticLockingProofs` | theorems about `OptimisticLocking` |
| `SprintClosing` | items, sprints, statuses and jobs of a project; a request is one step |
| `SprintClosingProofs` | theorems about `SprintClosing`: types, foreign keys, flags of stories and of sprints |
| `SprintRace`, `SprintRaceProofs` | the transactions of concurrent saves in the same sprints; a statement is one step; theorems |
| `EventsGateway` | taiga-events: one client id per socket, its channel, consumers and pending promises |
| `EventsClient` | the browser's end: socket, timers, queue of messages, heartbeat, board |
| `LiveEvents`, `LiveEventsProofs` | the two ends composed with the network and restarts; theorems |
| `KanbanOrder` | positions of kanban cards, as the tab and as the SQL of a drag compute them (pure operators) |
| `KanbanBoard`, `KanbanBoardProofs` | drags in several tabs: statements of the handler, messages, loads; theorems about both kanban modules |
| `TaskboardOrder` | the taskboard: `apply_order_updates`, drags and loads in several tabs |
| `References`, `ReferencesProofs` | numbers of items, reference rows, imports; theorems |
| `Votes`, `VotesProofs` | votes and their counter; theorems about them |
| `ProjectRow` | the row of a project: totals, transfer, owner and administrators |
| `SignalHandlers` | the handlers connected in each server process |
| `Swimlanes` | lanes, their creation and deletion under drags |
| `Notifications` | pending changes of an object and the batch that mails them |
| `ServerRows`, `ServerRowsProofs` | the parts above that keep rows of the server, one per behaviour; the theorems of the project row, the handlers, the lanes and the mails, and of the composition |
| `MC_*` | symmetry sets and definitions for the instances |

`OptimisticLocking` instantiates `MergedObject` with a refinement mapping.
`SprintRace` takes apart what `SprintClosing` does in one step: it starts from what
`SprintClosing` reaches, including flags a bulk endpoint left wrong (`BulkTargets`), and
asks what overlap adds.  Two requests on one item are left to `OptimisticLocking`.
`LiveEvents` extends `EventsGateway` and `EventsClient` and adds the steps of both; which
events the gateway delivers is abstracted to "the board has a consumer", and what the
board does with an event is the matter of `KanbanBoard` and `TaskboardOrder`.
`ServerRows` instantiates five modules whose parts share no state (`ProjectRow`, `SignalHandlers`,
`Swimlanes`, `TaskboardOrder`, `Notifications`) and lets one of them run in each behaviour, so
that one run checks them and the theorems speak of what the run checks.
Definitions called `<Definition>_<Mistake>` are mutants: what the definition would be with
a plausible bug.  No specification uses them; they show that the properties notice.

### OptimisticLocking

`row` is the committed row, `draft` the uncommitted one of the transaction that holds the
row lock (`writer`); `lock` is the advisory lock of `model_pk_lock`; `history` holds the
entries, visible to others when their transaction has committed.  Per request: `pc`, the
version on screen (`seen`), what is sent (`sent`, `fields`), the loaded object (`obj`), the version
read (`current`) and produced (`saved`).  The actions follow `UpdateModelMixin.update`
(`back/base/api/mixins.py:156`) with its hooks: `Load`, `Lock`, `ReadVersion`, `Validate`, `Save`
(every column is written, `version = version + 1` in the database), `TakeSnapshot`,
`Unlock` and only then `Commit`, because the lock is nested inside `tx.atomic`.
`EarlyLoad` distinguishes stories, tasks, issues and epics, whose `update()` loads the object before the
lock, from wiki pages, whose handler loads it under the lock.
`LoadContentObject` and `RecordRelated` are saves of attachments and custom
values, which add history entries without a version.

A field's content is the request that wrote it last, so that properties can tell who was
overwritten.  Left out: comments, the reason why a version is malformed, and retries by
the client.

### SprintClosing

`db` holds the tables, `jobs` the stories and sprints of Celery jobs that have not run.  The signal
handlers are functions from tables to tables (`AfterSaveUserstory`, `AfterSaveTask`,
`RecalculateUserstories`, ...) in the order the code runs them, with the nested saves that
`close_userstory` and `open_userstory` cause, including the overwritten
`instance.prev`.  The actions are the endpoints; `Paths` says which of them clients use,
so that runs and theorems can name the endpoints they are about:

| Path | Endpoint |
|---|---|
| `items` | create, edit and delete stories, tasks, issues and sprints |
| `moves` | edit the sprint of a story; the move endpoints save one story or task after the other, a task in the sprint of the request, which need not be that of its story |
| `moves_and_edits` | edit sprint and status of a story in one request |
| `kanban`, `backlog` | drags: direct update, then a job |
| `bulk_milestone`, `bulk_create` | bulk endpoints without handlers |
| `us_status`, `task_status`, `issue_status` | edit `is_closed` of a status |
| `status_delete` | delete a status, its items get another |

Left out: `closed` set by a PATCH of the sprint itself, moves between projects, items whose status is
NULL, dates, points and colours.

### SprintRace

Items carry `done` and their sprint, sprints their `closed` flag and the holder of their row
lock.  A request saves its items in one transaction; after each save it recalculates
the sprint the item is in and the one it was in: load the flag, three queries of unfinished items, a
count, and an UPDATE of the sprint when the flag read earlier differs.  A bulk request moves its
items to one sprint; a status is changed one item at a time.  A query sees
what was committed when it starts, and the transaction's own writes (READ COMMITTED).
PostgreSQL ends a circle of waiting transactions by failing one (`Fail`).  The variables
`touched`, `shared`, `contended` and `wrong` only observe which sprints overlapping
requests had in common.  Left out: stories whose own flag changes on the way (it is written
with the item), the backlog (NULL sprint), the three count queries apart from each other.

### EventsGateway, EventsClient, LiveEvents

The gateway (`taiga-events/src`) has a record per connection id: the channel, which is a
promise until the broker answers (`CreateChannel`), the consumer tag of each routing key, the
tasks queued behind the channel in the order they were submitted, and the messages of the
socket not yet read.  `Handle` runs one command of a client whole, as Node.js does; `Answer`
settles one promise and runs what was waiting for it.  A rejected promise or an exception ends
the process (`Exit`), as `index.js` says, and `Restart` brings an empty one.

The client has the state of `events.coffee`: the socket, `connected`, the error counter, the
timer of the next connection, pending messages, the heartbeat and what the board subscribed to.
`Opens`, `Refused`, `Lost` and `Cut` are what a browser reports of a socket; `Timer` and `Beat`
its timers.  An id that left no trace at the gateway is used again, as only its being different matters.  The three notification channels are one key,
because the code treats them alike.  Left out: the content of events.

### KanbanOrder, KanbanBoard

`Dragged` is the SQL of `update_userstories_kanban_order_in_bulk` on a table (stories to shift,
positions from the anchor's, the new status); `LocalOrder` is what the tab computes without the
server.  Sorting is said with cardinalities (`Sorted`, `Stable`, `Chosen`: the element of a place is the
one with so many before it), so that lists can be reasoned about without induction.  `KanbanBoard` runs a request in four steps that a second request may come
between: `LoadAnchor`, `ListCards`, `Place`, `ChangeStatus`, then `Emit`.  Tabs have the cards
they show, loads under way and messages received.  `Receive` is the debounced handler, which keeps
the last message only.  Left out: folded columns, zoom, filters, swimlanes (see `Swimlanes`),
the recalculation job (see `SprintClosing`).

### TaskboardOrder

A drag is saved through the versioned PATCH of a task; `Save` computes the positions of the
others from the database (`ApplyOrderUpdates`: a recursive function goes over the moved tasks, each
shifted from where those before it left it, and the tasks that were touched are the answer), `Commit` ends
the transaction and sends the message, `UpdateOrders` writes the positions afterwards.  A tab has
models of the tasks (`cards`: the attributes it was sent, and what a drag changed in them), so that a drag
sends what differs and nothing if nothing does (`Model.setAttr`).  An answer is written into the model that was
dragged, which is no longer shown if a load came in between (`held`).  The tab computes the positions
itself (`Move`) and takes the answer through `Assigned`, which inverts the map as `assignOrders` does: a position
is taken only by a task whose id it is.  Ids of the instance are numbers among the positions for
that reason.  Cells are the statuses of one story: a drag to another story renumbers `us_order` too and
mixes both numberings in its answer, which is left out.

### References

`sequence` is PostgreSQL's, which no rollback touches.  Numbering an item is `TakeNumber`
(nextval), `Refer` (the row of Reference, unique per project) and `SaveNumber`; requests that
the code runs in a transaction (`Atomic`) show their rows at the end only.  `SetMax` is
nextval and setval as two steps.  An import creates items one by one, brings the tracker's
numbers and recounts; the import API stores items of a dump with any number, which is compared with
no other (`back/export_import/services/store.py:372`; the validator does not look, and `ref` has
no unique key).  `taken` is a history of such an item: who had its number, or was about to get it, when
it was stored.  Requests die at every step.

### Votes

A request is a transaction of a process of its own: advisory lock, `get_or_create` or `exists`,
increment or delete and decrement, unlock and commit, the unlock before the commit and, for
a removal, before anything is changed.  A vote is named by the request that inserted it, so that
`Delete` can tell whether the row it selected is still there.

### ProjectRow

`row` holds the columns that matter: owner, pending transfer, `total_fans`.  A request loads
the row, and an edit, start, accept or reject saves all of it as loaded; likes and recounts
save the totals only.  `crossed` records the pairs of kinds of requests that ran at a time,
so that the properties can name exactly which overlaps are harmful.  Left out: `orphan_project`
(the owner becomes NULL when an account is cancelled), invitations, limits.

### SignalHandlers

`on` is the set of groups of handlers connected in a process.  `Off` and `On` are what each
function disconnects and connects, `Guarded` those that connect in a `finally`.  The finished
date, custom values and closed story of tasks show what a missing handler does to rows.

### Swimlanes

The deletion of a lane reads the stories without lane, then for each lane the stories and the
count in two queries, zips the flat lists into pairs, updates (`Allow`, which then asks `pre_delete`) and
deletes (`MoveAndRemove`).  Drags, creations and saves of the project come between; what touches a
story that the UPDATE has written waits for the commit (`Held`).  The heir may be the deleted lane itself, which the
code does not check: the list of the lane is extended by itself and dropped, and its stories go to
none (`HeirOf`).  Lanes are numbered in their order; ids of stories decide between equal positions.

The default is written by `SetDefault`, by the deletion (SET NULL) and by `SaveProject`, which stands
for an edit of `default_swimlane` (nullable and writable) and for every save of the whole row by a
request that loaded it earlier.  It may write any lane that exists, or none; the foreign key
refuses one that is gone.  Which value a stale save has is therefore not tracked.

### Notifications

One object with one field.  `pending` has the row of each author with its entries and `age` in
ticks, modulo a day as `timedelta.seconds` is.  `Save`, `Note`, `Commit` are a change;
`StartBatch`, `LockRow`, `PutOff`, `Send`, `Finish`, `NextPage` the periodic mailing, page by
page.  `SendFails` is a mail whose error is caught and logged (`back/projects/notifications/services.py:371`); the notification
is deleted as if it had been sent.  `lost` has the comments in such mails, and `told` is `Missed` while the last
line about the field was in one.  One watcher is followed: each has a mail, which arrives or fails, of its own.  `Squash` is `squash_history_entries` for one field.  Left out: who watches, bodies of
mails, the interval 0 (mails inside the request).

## 3. Runs

| Run | Question | Instance and why it is enough |
|---|---|---|
| `occ_workers` | do versions count the saves, does the history rebuild the row, is every save answered, in every interleaving? | 3 saves and an attachment on 3 workers, one field: a holder, a waiter and a late reader |
| `occ_one_worker` | do handlers without overlap implement `MergedObject`? | 3 saves, 2 fields, early load: a version two behind, same and different fields, with and without a version |
| `occ_late_commit` (violation) | is a conflicting save refused? | 2 workers: the second save reads between unlock and commit of the first |
| `sprint_moves` | are flags right, or a job pending? what takes a task out of the sprint of its story? | 2 stories, a task, an issue, 2 sprints; edits, moves of stories and tasks, backlog drags, edited story statuses |
| `sprint_all_paths` | types and keys with every endpoint | one item of each kind, one sprint |
| `sprint_catch_up` | kanban drags against edits and deletes; do jobs put every flag right in the end? | a story, a task, an issue, 2 sprints |
| `race_two_workers` | what can overlap break, who can deadlock, is each request answered? | 2 issues in one transaction and a story in another, 2 sprints; opposite moves; a flag wrong at first |
| `live_events` | is what a tab asks for delivered, what leaves surplus consumers, does the tab recover? | 5 connection ids, 2 keys, 2 faults (refused, cut, silent, restart, slow), 2 clicks, 2 errors and one missed heartbeat until the tab gives up: a fault while recovering from another |
| `kanban_boards` | does a drag do what the user did, when do positions tie, when is a board stale? | 3 cards, 2 columns, 2 tabs, 2 drags, 1 fault: overlapping drags, and one that waits for the other; `DragKeepsOrder` asks every possible drag of every table reached |
| `references_numbers` | are numbers and links unique? | 2 items of 2 kinds, 2 projects of which one gives 3 numbers and the other 1; create, move, store, import, delete, die |
| `votes` | what can make the counter wrong, can requests block each other? | 2 users, 4 requests of which any number remove: two double removals, or an addition between the halves of a removal |
| `server_rows` | the project row, signal handlers, swimlanes, taskboard and mails, one per behaviour | see below |

Instances of `server_rows`: project, 2 users and 3 requests of any kinds (an answer, a second
one, and a third that overlaps or repairs); handlers, 2 processes, one task, one failure or
restart; lanes, 2 stories, 3 lanes, 2 requests (deletions, drags and saves of the project, two of a kind or one each) and any
number of creations up to the last lane; taskboard, 3 tasks of which one has an id that
a position can reach, 2 cells, 2 tabs, 2 drags or faults, started with and without tied positions; mails, 2 authors, 3 changes with or without a comment, a day of
2 ticks, an interval of 1, pages of 1 row (so that a batch has several), one interruption, any number of failed mails.

Bounds.  In `OptimisticLocking`, `SprintRace` and `Votes` each request is sent once; elsewhere
`Max...` constants bound requests and faults and are named in the modules.  Ids of items are
finite sets and are used again after a delete in `SprintClosing`; in `References` an item that
is deleted stays deleted, as its links do.  Versions grow with the saves.  Two open
and two closed statuses per kind of item would add nothing, as the code only asks for
`is_closed`.

Deadlock is checked in the runs of `SprintClosing`, in `occ_one_worker`, and where the
system always has a next step.  It is switched off where a behaviour ends, because all requests
are answered or a bound is reached: in those runs `SavesAnswered`, `EveryRequestAnswered`,
`EveryVoteAnswered` and `NotificationsComeBack` say that nobody waits for ever.

Symmetry is used in `sprint_moves` and `sprint_all_paths` over items and sprints, and in
`references_numbers` over items, which the modules never distinguish; no run with a liveness
property uses it (`TaskFollowsStory` is a property of single steps).

Fairness.  `OptimisticLocking`: a worker that took a request goes on with it and PostgreSQL
grants a free lock; weak fairness is enough, because requests are finitely many and a lock
is taken finitely often.  `Votes`: the same, for the advisory lock, rows and
statements of each request.  Opening, sending and voting are the users' choice and have none.
`SprintClosing`: the Celery worker runs each job it was sent (weak fairness per story
and sprint); requests have none.  `SprintRace`: workers run their requests, the socket's
queue gives the next one to a free worker.  `LiveEvents`: the gateway handles messages and
RabbitMQ answers, a connection nobody refuses opens, a lost one is noticed by the browser,
the tab's timers fire; faults and clicks have none, and a silent cut is noticed by the heartbeat
alone.

What the passing runs say.  `VersionCountsSaves` and `HistoryMatchesRow` hold although saves
can overwrite each other: the increment is done by the database and the snapshot is
taken of the row as written.  `StoryTruthful`, `ClosedSprintIsDone` and `DoneSprintIsClosed` relate
three tables and the pending jobs; they hold for the paths a run names.
A task may be outside the sprint of its story: it can be moved alone, and
`tests/integration/test_milestones.py` asks for that.  What `TaskFollowsStory` says is that nothing else
takes it there: whatever moves, drags or deletes stories and sprints takes their tasks along.
`LoneRequestsGetItRight` says that a wrong sprint flag always comes from an overlap (or
was there before) and that one undisturbed request repairs it.  `OnlyBatchesDeadlock` holds
for a reason no comment mentions: opposite moves would lock two sprint rows in
opposite orders, but the rows are written only when their flags change, and one item that
moves changes both flags only if it empties one sprint and fills another that was empty.  Requests
that move several items do deadlock: each may open one sprint and close another.

The properties of the newer modules have the form "right, unless ...", and the exceptions are
what they are about: each names the overlap or accident that breaks the promise, by history
variables that observe it, and TLC shows that nothing else does.  No exception is there for the
model's convenience; each was added when TLC showed the code going wrong, and is a row of
the table below.  `AskedIsDelivered` holds in spite of stops that overtake starts because a
consumer tag is known only after the start has been answered, and because the tab queues the
authentication before the notifications.  `CountIsVotesLessMissed` explains every wrong counter;
`DriftOnlyFromDoubleDownvote` says what it takes.  `WatchersKnow` survives mails that fail, as
the next one that arrives gives the last value again; `CommentsAreMailed` says that a comment is lost with a
failed mail and in no other way.  `DecidedOnce` and `OwnerIsAdmin` list the overlaps
that saving a whole row makes harmful.  `TabShowsOrder` relates two implementations of one
algorithm, in CoffeeScript and in Python, that never exchange their results in full.

### Where code and documentation disagree

The violation run is a finding in `PROJECT.json`, with the documentation quoted.  While
building the models the following was seen too.  The passing runs leave the paths of the first
six rows out, or the properties name the case as an exception; TLC shows each when the
path is added to a cfg or the exception removed from the property.

| Where | What goes wrong |
|---|---|
| `bulk_milestone` (stories, `back/projects/userstories/services.py:428`) | a closed sprint gets open stories and stays closed |
| `move_tasks_to_sprint` and `bulk_milestone` (tasks, `back/projects/milestones/services.py:98`, `back/projects/tasks/services.py:144`) | a task leaves the sprint of its story; the first one is intended, and asserted by a test |
| `status_delete` (`back/projects/mixins/on_destroy.py:45`) | stories whose status turned from open to closed, or back, keep their flag |
| `bulk_create` (stories, `back/projects/userstories/services.py:77`; issues, `back/projects/issues/services.py:58`) | stories created in a closed status are open; issues do not reopen their sprint |
| `task_status` (`back/projects/signals.py:156`) | only stories with tasks in the status are recalculated, loose tasks do not reach their sprint |
| `issue_status` (`back/projects/apps.py:99`) | no handler: sprints keep their flag |
| a sprint emptied by deletes (`back/projects/milestones/services.py:29`) | keeps the flag it had |
| an edit that moves and closes a story (`back/projects/userstories/signals.py:100`) | the nested save overwrites `instance.prev`: the sprint it left is not recalculated |
| the two requests of the dialog that moves items (`back/projects/milestones/services.py:17`) | neither sees what the other moved: a finished sprint stays open |
| overlapping moves into a sprint (`back/projects/milestones/services.py:36`) | a closed sprint holds an open item |
| history entries of attachments (`back/projects/occ/mixins.py:58`) | hide a save from the version check: a conflicting save is accepted |
| object loaded before the lock (`back/projects/userstories/api.py:311`) | a save of one field writes the old value of another back |
| commands on a consumer that is being registered (`taiga-events/src/rabbitmq/client.js:221`) | the consumer stays; a stop before any consumer was registered ends the whole gateway |
| a client destroyed while its channel is created (`taiga-events/src/rabbitmq/client.js:74`; `subscription-manager.js:67` says "Destroy all subscriptions") | a channel stays, with its consumers |
| reconnection (`taiga-front/app/coffee/modules/events.coffee:278`) | only the notifications are subscribed again; the open board hears nothing until it is left |
| a tab's own kanban drags (`taiga-front/app/coffee/modules/kanban/kanban-usertories.coffee:164`) | a list without the moved card is sliced by an index of the list with it; the card shows one place off until the next load |
| another user's event after an own drag (`TECHNICAL_DOCUMENTATION.md:166`) | positions of the old answer put the card back |
| cards deleted or archived by others | stay on the board until it is loaded again |
| overlapping kanban drags (`back/projects/userstories/services.py:305`) | two cards of a column have one position; their ids decide |
| epics in an import (`back/projects/references/models.py:70`) | are not counted: an item gets the number of an epic |
| a failed import, and items created during an import | the sequence stays behind the numbers that were brought; a number is given twice |
| items stored through the import API (`back/export_import/services/store.py:385`) | may get the number of another item |
| links after an import (`#n`) | open the object that first took the number, or none: imported and stored items have no row of Reference for theirs |
| moved and deleted items | leave rows of Reference that lead to them from the old project |
| two downvotes of one user (`back/projects/votes/services.py:52`) | the counter drops by two, or the second fails at zero |
| overlapping likes (`back/projects/likes/services.py:29`) | `total_fans` lacks one until the next recount |
| a transfer answered twice at once, or during an edit (`back/projects/services/transfer.py:93`) | it is decided twice; the old owner or the token comes back; the owner may be no administrator |
| a failed delete of a story (`back/projects/userstories/signals.py:21`), a failed duplication, the import of a task or an issue (`back/export_import/api.py:253`) | leave handlers of the process disconnected until it restarts |
| tags of epics (`back/projects/epics/apps.py`) and tasks (`back/projects/tasks/apps.py:59`) | are disconnected by a name they were not connected with: they stay connected |
| a drag between the list and the count of a lane (`back/projects/services/bulk_update_order.py:262`) | the pairs are shifted: stories go to lanes nobody chose |
| two lanes deleted into each other | leave stories in no lane |
| a lane deleted with itself as `moveTo` (`back/projects/services/bulk_update_order.py:274`; `back/projects/mixins/on_destroy.py:82` says that stories are in no lane only after the last one) | its stories are in no lane, with others on the board |
| a lane created, or the default given to a lane, while its deletion is past `pre_delete` (`back/projects/api.py:685`) | the project has lanes and no default |
| an edit or a stale save of the project (`back/projects/models.py:306`) | empties the default, or gives it back to an earlier lane |
| `assignOrders` (`taiga-front/app/coffee/modules/taskboard/taskboard-tasks.coffee:52`) | `_.invert` makes positions of ids: the tab does not take the server's positions, and gives a wrong one to a task whose id is among them |
| a drop between tasks of one position; a drag that changes no attribute | lost on the server; not sent |
| positions written after the message (`back/projects/tasks/services.py:102`) | a tab that loads in between shows the old order |
| `time_diff.seconds` (`back/projects/notifications/services.py:297`) | drops days: a notification a day and some seconds old waits again |
| two authors, or a comment after a plain change (`back/projects/notifications/squashing.py:69`) | the last line of the mails is not the last change |
| an interrupted batch | mails again, or sums up what was mailed |
| an error while mailing (`back/projects/notifications/services.py:371`) | is logged; the notification is deleted and its mail never sent |

## 4. Proofs

| Theorem | For every | Argument |
|---|---|---|
| `OptimisticLockingProofs!TypeCorrect` | number of requests, attachments, fields, workers, early or late load | `TypeOK` with `LoadedInv`: what a save merges has been loaded |
| `OptimisticLockingProofs!VersionCorrect`: `[]VersionCountsSaves` | the same | `VersionInv` adds `RowLockInv` (the row lock is held exactly from UPDATE to commit, and its holder's draft is the next version) and `SavedInv` (no save has a version above the row's); `Commit` needs both |
| `SprintClosingProofs!TypeCorrect` | items, sprints, statuses, any `Paths` | each handler maps tables to tables; `NextType` has a lemma per group of actions |
| `SprintClosingProofs!StoriesTruthful`: `[]StoryTruthful` | items, sprints, statuses, and any `Paths` without `bulk_create` and `status_delete` | see below |
| `SprintClosingProofs!KeysHold`: `[]NoDanglingReferences` | items, sprints, statuses, any `Paths` | `KeysInv`, see below |
| `SprintClosingProofs!TasksFollow`: `TaskFollowsStory` | the same | each step by itself, with `KeysInv`, see below |
| `SprintClosingProofs!ClosedSprintsDone`: `[]ClosedSprintIsDone` | items, sprints, statuses, `Paths` within `CarefulPaths` | see below |
| `SprintClosingProofs!DoneSprintsClosed`: `[]DoneSprintIsClosed` | the same | see below |
| `SprintRaceProofs!LoneRequestsRight`: `[]LoneRequestsGetItRight` | requests, items, sprints, workers | `RaceInv`, see below |
| `SprintRaceProofs!BatchesDeadlock`: `[]OnlyBatchesDeadlock` | the same | a circle of waiting requests, see below |
| `OptimisticLockingProofs!HistoryCorrect`: `[]HistoryMatchesRow` | the same as the first two | see below |
| `OptimisticLockingProofs!MergesFieldByField`: `ImplementsMergedObject` | requests, fields, early or late load; one worker and no attachments | step simulation under `SoleInv`, see below |
| `VotesProofs!TypeCorrect`, `CounterCorrect`: `[]CountIsVotesLessMissed` | users and requests | `CountInv`, see below |
| `VotesProofs!DriftExplained`: `[]DriftOnlyFromDoubleDownvote` | the same | `AloneInv` on top of `CountInv` |
| `ServerRowsProofs!OwnerStays`: `[]OwnerIsAdmin` | users and requests | `OwnerOK` until one of the named overlaps |
| `ServerRowsProofs!AnsweredOnce`: `[]DecidedOnce` | the same | `DecidedOK` until one of the named overlaps |
| `ServerRowsProofs!TotalsComeRight`: `[]LoneRecountHeals` | the same | `FansInv`: who was alone so far is the only one at work |
| `ServerRowsProofs!HandlersConnected`: `[]HandlersComeBack` | processes, tasks, number of failures | `Explained`, see below |
| `ServerRowsProofs!TasksStayHandled`: `[]TasksAreHandled` | the same | inductive beside `Explained` |
| `ServerRowsProofs!DefaultStays`: `[]DefaultLane` | stories, lanes, requests | `DefaultInv`, see below |
| `ServerRowsProofs!StoriesFollow`: `[]StoriesKeepLane` | stories, lanes, deletions, drags | `PlacedInv`, see below |
| `ServerRowsProofs!TabsShowRows`: `[]TabShowsOrder` | tasks, cells, tabs, drags, faults, positions to start with | `TabInv`, see below |
| `ServerRowsProofs!TypesCorrect`: `[]TypesOK` | all constants of the composition | the invariants above, and what a request for likes, a lane being deleted and a task's row may hold, also where an exception of the other theorems applies |
| `ReferencesProofs!LinksHome`: `[]LinksLeadHome` | items, projects, requests of every kind | `LinkInv`, see below |
| `ReferencesProofs!NumbersUnique`: `[]NumbersAreUnique` | the same | `NumberInv`, see below |
| `ReferencesProofs!RefusalsExplained`: `[]RefusedOnlyAfterRace` | the same | `NumberInv` |
| `ServerRowsProofs!EveryCommentMailed`: `[]CommentsAreMailed` | authors, values, changes, interruptions, length of a day, size of a page | `CountInv`, see below |
| `ServerRowsProofs!WatchersAreTold`: `[]WatchersKnow` | the same | `ToldInv`, see below |
| `KanbanBoardProofs!DragsKeepTheOrder`: `[]DragKeepsOrder` | stories, statuses, tabs, drags, faults | a theorem about the SQL alone, see below |
| `KanbanBoardProofs!TiesNeedOverlap`: `[]TiesOnlyFromOverlap` | the same | `AloneInv`, see below |
| `KanbanBoardProofs!StaleNeedsAccident`: `[]StaleOnlyAfterAccident` | the same | `ShownInv`, see below |
| `KanbanBoardProofs!WatchersShowOrder`: `[]WatcherShowsOrder` | the same | `ShownInv` and `OrderInv`, see below |
| `LiveEventsProofs!AskedDelivered`: `[]AskedIsDelivered` | connections, keys, faults, clicks | `LiveInv`, see below |
| `LiveEventsProofs!SurplusOvertaken`: `[]SurplusOnlyIfOvertaken` | the same | `LiveInv` |

`StoryTruthful` with `TypeOK` is inductive.  The proof does not expand the handlers action by
action.  `Recalculated(d, e, S)` says that `e` comes from `d` by recalculations, at least of the
stories in `S`, which keep what the calculation of every story reads (`SameBasis`).  Each
handler is shown to satisfy it and the relation composes (`RecalculatedTwice`); an
action is then an edit that can make only stories in `S` stale, followed by
handlers with `Recalculated(d, e, S)`, or by a job for `S` (`HarmlessStep`).  The
assumption on `Paths` is needed: with either path TLC finds a counterexample.

The keys have an argument of the same form.  `SameKeys(d, e)` says that `e` has the rows and
keys of `d`, but for tasks that were put into the sprint of their story; every handler
satisfies it, so it keeps the keys and puts no task apart from its story.  What is left per action is the
edit before the handlers.  `TaskFollowsStory` is about steps and needs `KeysInv` (a new story has no tasks
yet).  In the middle of a save that moves a story `s` its tasks are apart, and only those: `ApartBut(d, {s})`
has the others, and the handler moves them.  For a task that is moved alone, either the handlers have
nothing to save, or they save its story, and so put it back (`RecalculatedOrTogether`): if it is still
apart at the end, nothing else has changed (`AfterSaveTaskApart`).

For the flags of sprints, `Settles(d, e, M)` says that from `d` to `e` the sprints of `M` get the
flag their items say and no other goes wrong; every handler settles the sprints it is called for, and a
save settles each sprint its edit disturbed.  `FlagsInv` adds keys and `StoryTruthful`: when a story
moves, the nested save of its own flag would overwrite `instance.prev`, and the sprint it left is put
right only because that flag was right before, so that there is no nested save.  `CarefulPaths`
leaves out the paths on which TLC shows a flag going wrong, and kanban drags together with
moves: a drag leaves the flag of a story to a job, and a move before the job runs is such a save.

A transaction of `SprintRace` reads what others may change until the commit.  `RaceInv` says what
it may rely on: nobody else commits a change of a sprint in `Stable(r)`, the sprints it touches
without those that are shared and contended.  There the calculation is as
far as its step says (`VerdictInv`), and each sprint is right in the eyes of the transaction
or still due to be recalculated (`RightInv`).  At the commit nothing is due, and its eyes become
the database's.  For the deadlocks, assume that no flag may be wrong.  Who waits for a
sprint sees another verdict on it than the database; who holds it has written an item of it, and
others' items there are done (`HeldInv`).  So who waits for a sprint it
moves items out of has emptied it, and waits for one that moves items in (`WaitsForArrivals`): those
requests wait for each other only.  A circle is finite, so nobody else waits for them (`NoWayIn`).
A request of one item that is waited for has moved it from the sprint it waits for to one that
was empty (`LoneMove`, by `OrderInv`), and whoever waits for that empty one
would have to find it complete.  An earlier form of the property, that no request at all fails for a
deadlock, was refuted by TLC: two transactions of two moves each wait for each other.

`MergesFieldByField` is proved for one server process and no attachments, which is
what the run `occ_one_worker` checks and all that is true: with two workers a conflicting save is
accepted, and an entry of an attachment hides a save.  Every step maps to a step of
`MergedObject` or a stutter; the step that matters is `Validate`, where `LogInv` says that comparing
as many entries as versions were missed is enough, since each later version has at most
one entry.

`HistoryMatchesRow` is not inductive, as an entry is written before the row it describes is
committed and becomes visible at the commit.  `HistoryInv` says what is between the two: the
draft of the save that has taken its snapshot differs from the row by that save's entry
alone, which is the last of all and the only one that is not visible (`Pending`).  The row lock
(`VersionInv`) makes it the last.  That the entries of a field have a newest one is the
well-foundedness of `<` on the distances to the end (`NewestExists`).

In `Votes` the count and the votes change in different steps.  `CountInv` says where a request
can be and whose vote it has in hand: at most one request inserts or deletes a
user's vote (`InsertInv`, `DeleteInv`, by the unique row and its lock), and who has counted
holds the counter until its commit (`CounterInv`).  `AloneInv` adds that, unless
two removals of a user overlapped, a removal that has found a vote still finds it
when it deletes: then none is missed and none fails at zero.

In `ProjectRow` two requests that run at a time are a pair in `crossed`, and a request that
saves the whole row has loaded one (`BaseInv`).  Each property is then "an exception is in `crossed`, or
...": until then, what the running requests have loaded agrees with the row on its owner
(`OwnerOK`), and no transfer that somebody holds has been decided (`DecidedOK`).  As `crossed`
only grows (`PairsStay`), a step has to be looked at only when no exception has happened.

In `SignalHandlers`, whatever a process lacks is what the request at work
disconnected or what a cause lost (`Explained`); `Finish` connects the first, so a free process
lacks the second alone.  In `Swimlanes`, some lane is the default as soon as one has been created
to the end, unless a save emptied it, and a deletion that `pre_delete` has let pass is of a lane that is no default, or
still alone (`DefaultInv`), unless a creation, or a save that made the lane the default, crossed it.

What a deletion has read is still so for the stories that were not dragged: they are in the list of a
lane exactly if they are in the lane, each list is as long as its count, and the lane exists
(`PlacedInv`).  So the two flat lists are joined from parts of equal lengths (`JoinedZip`, by
induction over the number of lanes), nothing is cut off, and each pair has the lane of its story
or the heir (`PairsRight`); a lane that is its own heir has no pairs, and its stories are in none once it is gone.
The pairs do not change between the UPDATE and the commit, and a story that is dragged meanwhile is in `moved`
(`AllowPlaced`, `MovePlaced`); the argument does not need the locks of the rows.  The attempt to prove it corrected the property: the end of a deletion of
a last lane, between another's list and count, shifts the pairs as a drag does.  With two
deletions and a drag TLC shows it; the run allows two requests, and had not.

In `Notifications` a row is collected by its author and deleted by the batch, and both lock it
(`LockInv`).  A comment waits in one row (`IdsInv`) and was mailed at most once per interruption while it
waits; between `Send` or `SendFails` and `Finish` it has been mailed once more, or is in `lost`, and is about to be deleted
(`CountInv`).  What the watchers were told and what a row will tell them is a chain of changes:
the last line of the mail is the last plain change, or the last comment if there is none, and leads to the
value (`Summed`).  As long as one row waits at a time and no batch was
interrupted, the chain starts at what was told, or the mail before failed (`ToldInv`); either way it ends at the value.

In the taskboard the heart is that two algorithms agree: `Move` in the tab and `ApplyOrderUpdates` on the
server put the tasks of a cell in one order, whatever ties and gaps the positions had (`DragRight`).  A
drag asks the server to move one task, and, if several have the position in front of it, those to stay
where they are.  The first of these shifts them and all behind them, the others nothing, and the
dragged task what is on its place or behind; with the positions that were asked written over this, the task has
room and nothing else has changed its place (`MakesRoom`).  That the recursive function exists is an induction on the number of
moves (`ShiftsExist`).  `TabInv` carries
it over the steps.  `LoadsInv`: what a clean load has read is what there is, and stays so until a
drag, a save or an update marks it.  `QuietOK`: a tab in which nothing went wrong and to which nothing
is on its way is as it was loaded (`Fresh`), or there is exactly one drag since, and the tab shows what the database
will be when that one has been saved and its positions written (`Agrees`, with `Target` and `Final`); no other
request can be between its commit and its positions, for its message would be on its way.
At the end `Final` is the database.  The proof corrected the model: what is answered are the
touched tasks alone, a card that was loaded again is not the one the answer is written into, and
a position that is an id gives a task a place nobody chose, which TLC then showed with such ids.

The theorems about `ProjectRow`, `SignalHandlers`, `Swimlanes`, `TaskboardOrder` and `Notifications` are stated of
`ServerRows`: the part that runs takes its own steps and leaves the others alone, so its invariant carries over.

In `References`, `LinkInv` says that two rows of a project have different numbers, that the number
Taiga gave to an item has its row as soon as others can see it, and that a
transaction which has inserted a row it does not show yet is the only one for that number.  It needs nothing
of the sequence, nor of numbers that items were stored with, for these have no row.  `NumberInv` does, for projects that never raced: no number is beyond the sequence but those a
dump or a tracker brought and the import will count (`RowBelow`), a job that has read the
sequence to set it has read what it still is (`JobBelow`), and who has
got a number holds it alone (`FreshInv`).  Against numbers that come from outside this says nothing: whoever is
stored later with a number that another has, or holds, has the other in `taken`.  The recount of an import makes the brought numbers safe,
except those of epics, and items numbered before it are in `early`.

In `LiveEvents`, `LiveInv` speaks of what is on its way in the queues between tab and broker.  At the gateway
what the manager knows has a consumer or a start that is waiting or unanswered (`ManagerInv`);
a key whose stops overtook no start has at most one of all these, and none the manager does not
know (`SurplusInv`).  On the way there, what the tab asked for is known to the manager and no
unsubscription of it is unread, or its last unread message is a subscription that comes after the
authentication (`Wanted`).  A gateway that is done has empty queues: what was asked for has a
consumer.  A channel that is being created has no consumers and no tags (`ChannelInv`), so a stop
that waits for it ends the process, and what waits without one are starts of different keys.
Each handler changes one record, so the lemmas are about a record before and after.

In the kanban, a list is sorted if every element comes before the later ones in a strict order;
such a list is unique (`SortedOnce`, by counting who is before whom), which makes it possible to
show that two columns are equal by showing that both are sorted lists of the same cards.  From there
`DraggedColumn` follows for a drag of any number of cards: the cards in front of the anchor
have lower positions than the first that is given, those behind get the following ones in
their order, and no two cards get one position (`NoNewTies`).  `DragsKeepTheOrder` is this, and
holds of every table, not only of boards at rest.  `AloneInv` says what a request that overlapped none
may rely on between its statements: there were no ties when it began, the anchor is where it
was, what it listed is what `Listed` gives now, and after the first UPDATE the second one makes
a table without ties.

For what the tabs show, a card of a tab is settled if it is in no unfinished drag of that tab, no message
naming it is due, on its way or held by the debounce, and no accident happened to it.
`ShownInv`: for a settled card, the last load that will bring it either has no rows yet, or has
the row of the database, or knows that a drag of the tab interferes; if no load will bring it, the
tab shows it in its column.  For a tab that only watches "shows" includes the position.  A request that changes a row makes
the card unsettled in all other tabs (`IdsInv`: the message will name it), and in its own tab the card is shown
where the drag put it (`OwnInv`, which also says that loads under way note the drag).  An answer
that overtakes an older load leaves the card to the older one, and is an accident.  `OrderInv`
adds that lists are sorted by the positions of the tab.

The assumptions on constants are those of the modules (`RequestsAssumption`, ...): disjoint
kinds of ids and statuses, `Null` and `Absent` distinct from what they stand beside, at
least one worker, finitely many users who vote and requests that wait for each other, a bound on the
numbers of each project (`NumbersAssumption`; the theorems hold for every bound), finitely many stories with
numbers as ids (`StoriesAssumption`, and `TaskboardAssumption` for tasks, whose first positions are natural
numbers, as the timestamps they get and the positions of tabs are), bounds that are numbers, a day of at least one tick.  The five modules
of `ServerRows` state no assumption; it assumes what their lemmas need (`None` is no user or
request, `NoLane` is no lane, lanes are numbered, `Missed` is no value of the field).

Every invariant that a run checks is proved.  Only model-checked is what needs fairness, which is
out of the prover's reach: `SavesAnswered`, `CatchUp`, `EveryRequestAnswered`, `EveryVoteAnswered`,
`NotificationsComeBack`.

`SprintRace`, `LiveEvents`, `KanbanBoard` and `References` state no type invariant in a run: their
other invariants read every variable and fail to evaluate on a value of another type; the types of the first and
the last are part of the invariants that are proved.

## 5. Coverage and what is not modelled

The models follow the control of some 4000 lines of the repository.  Most of the rest, about
65000 lines of Python, CoffeeScript and TypeScript, has none that a model checker could tell
apart: serializers, validators of fields, translations of other trackers' data, templates
and widgets, queries for lists and statistics, permissions as predicates of a request.

Not modelled, with the reasons in `PROJECT.json`: authentication (signatures and a clock; its
one race is listed under the hazards), webhooks, timeline, search and statistics, permissions,
tagging, users, templates and settings, feedback and the other one-row applications.
Modelled in part: what each module leaves out is said in section 2, and per component in
`PROJECT.json`.

Next, if the project is extended: the backlog's own ordering.

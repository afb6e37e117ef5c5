# A TLA+ model of HAProxyConsole

HAProxyConsole is a Go web server with which users manage TCP load-balancing
tasks: they apply for a virtual port, edit and delete tasks, list them, and have
a configuration for HAProxy generated from them and put into force on a master
or a slave. Its pages are driven by a script and by the three libraries it
ships: jQuery 1.7.2, Bootstrap 2.3.2 and alertify. These modules model the
request handlers, the file store, the deployment of configurations, the check of
the port ranges, the pages, and those parts of the libraries that keep state
between events. TLC checks them on small instances and TLAPS proves what matters
most for all sizes.

Paths below are relative to `src/`.

## 1. The system

| Part | Source | State | Operations |
|---|---|---|---|
| Request handlers | `src/haproxyconsole/main.go` | none of their own; globals `db`, `appConf` | `applyVPort`, `editTask`, `delListenTask`, `getListenList`, `applyConf`, pages |
| File store | `src/applicationDB/applicationDB.go` (`fileForStore`) | one json file, opened once at start, and the offset of that descriptor | `QueryVPort`, `QueryForTaskList`, `QueryNewConfData`, `InsertNewTask`, `DeleteTask`, `UpdateTaskInfo` |
| MySQL store | same file (`database`) | a table | the same operations, one statement each |
| Deployment | `main.go` `rebuildHAProxyConf`, `applyConf`; `src/sshoperation/sshoperation.go`; `restart_haproxy.sh` | the new configuration, the configuration of master and slave, what each HAProxy runs | rebuild, copy, restart |
| Configuration check | `src/config/config.go` | none | `checkBusinessList`, `checkMaster`, `checkStore`, `checkStats` |
| Storage tool | `src/tools/tools.go` | both stores | `StorageTransform` |
| Authentication | `src/github.com/abbot/go-http-auth` (vendored) | the user map, shared by all goroutines | reload, look-up |
| Pages | `static/main.js`, `template/*` | the parts shown, the hidden fields of a form, rows with ids | preview, step back, submit, edit, delete, and their answers |
| alertify | `static/alertify/src/alertify.js` | a queue of dialogs, their listeners, log messages | `alert`, `confirm`, `prompt`, `log` |
| Bootstrap | `static/bootstrap/js/bootstrap.js` | per widget: classes, flags, timers, functions that wait for a transition | show, hide, toggle, next, select |
| jQuery | `static/jquery-1.7.2.js` | lists of callbacks, requests under way, handlers bound to elements, queues of effects | `Callbacks`, `Deferred`, `when`, `ajax`, `on`, `one`, `off`, `trigger`, `fadeIn`, `delay`, `stop`, `promise` |

How they interact: `net/http` runs every request in a goroutine. A handler calls
the store (a method that makes several system calls) and answers. `applyConf`
also queries the store, writes two shared files and runs programs. No lock
exists anywhere: all goroutines share the store's one descriptor and the two
configuration files. Nothing keeps two users, or two tabs, from sending requests
at once, and a page goes on while its requests are under way.

In the browser one function runs at a time, but what it calls may call back:
a callback may fire the list that is calling it, an event's handler may trigger
another event, the end of an effect may start or stop others. Between two
functions come clicks, keys, timers, ends of transitions and answers, in any
order. `main.js` uses `$.ajax(...).done`, `slideUp`, `on`, popovers and
`alertify.confirm`, and the widgets use jQuery's events.

What is hard here is therefore

- the mix of system calls of several requests on one file with one offset;
- an application for a port, which reads twice;
- rewriting a file in place (truncate, then write), and a crash in between;
- errors that are dropped: unreadable bytes count as "no tasks", a rebuild that
  fails is silent;
- two deployments at a time, and what earlier ones left in the files;
- the arithmetic of the port search at both ends of a range;
- a list page whose ids are given out again, and answers that fold up a form in
  which the user has gone on to something else;
- loops over arrays that the functions they call change;
- clicks that come before timers and transitions of earlier ones are over.

There are no tests in the repository besides those of vendored libraries.
`PROJECT.json` lists the hazards line by line, with the properties that cover
them.

### What makes each part correct

- Requests: a port is given out once, lies in its range and is the lowest free
  one; ids are unique; editing moves no task; a refusal is justified.
- Store and handlers: a request takes effect at one instant and is answered once.
- Deployment: a reported success means that HAProxy runs the tasks as they were
  at some moment of the request, and that its file says so; no partly written
  configuration is ever run. The code keeps to this only as far as section 4 says.
- Check of `BusinessList`: the server starts if and only if each range is in
  order and legal and no two overlap.
- Pages: what is submitted is what was previewed, for the task it was previewed
  for; a request acts on the task of the row that was clicked.
- jQuery: each callback, handler and effect is called once, in order, with one
  outcome; every request that may time out ends; what is promised is kept.
- Widgets and dialogs: what they believe of themselves (shown, sliding, busy,
  open) agrees with the document, one thing is shown where one should be, and a
  dialog that was hidden goes even when its transition's end is missed.

## 2. Modules

| Module | Models | Built on |
|---|---|---|
| `TaskData` | tasks, requests, what each request computes from the rows it reads | |
| `TaskService` | the abstract service: arrive, execute at one instant, answer | `TaskData` |
| `FileStore` | the handlers over the file store, one action per system call | `TaskData`; refines `TaskService` |
| `ConfDeploy` | `applyConf` with everything it calls | |
| `BusinessList` | `checkBusinessList` | |
| `Page` | `main.js` on the page of the form and that of the list, with other users at work | composed with `TaskService` |
| `Callbacks` | `jQuery.Callbacks`, `Deferred`, `when` | |
| `Ajax` | `jQuery.ajax` with its transports, from the call to the last callback | |
| `Conversion` | the type of an answer and its conversion | |
| `Events` | binding, bubbling, delegation, `one`, triggering inside handlers | |
| `Effects` | the effects of one element, their queue, `stop`, `promise` | |
| `Alertify` | dialogs and log messages | |
| `Modal`, `Tooltip`, `Carousel`, `Collapse`, `Tabs`, `Typeahead` | the widgets of Bootstrap that keep state between events | |
| `Lists` | what loops that take elements out of an array leave of it | used by `Callbacks`, `Events` |
| `MCScripts` | the five parts of jQuery, one at a time | `Callbacks` ... `Effects` |
| `MCWidgets` | alertify and the six widgets, one at a time | `Alertify` ... `Typeahead` |
| other `MC*` | constants for TLC | |
| `TaskDataProofs`, `TaskServiceProofs`, `FileStoreProofs`, `ConfDeployProofs`, `BusinessListProofs`, `CallbacksProofs`, `ScriptProofs`, `WidgetProofs` | theorems | |

### TaskData

`AutoAssign` is `autoAssignPort` with the two lines of `applyVPort` that answer
`firstPort` when no task exists; `SpecifiedPort` the check of a port asked for by
number (range, then use); `InsertRow`, `DeleteRows`, `UpdateRows` what the three
modifying operations of the store do to the rows; `Effect` and `Reply` the whole
request when nothing comes between its parts. `portSlots` is the set of assigned
ports. An empty `BusinessList` is one business with the range 10000-19999, which
is how `applyVPort` treats it.

Servers, backup servers, comment, log flag and time are one value of `Info`: no
decision depends on them. A list of tasks is a set: ids are unique (proved) and
every reader sorts by port before it looks, so the order of the file tells nothing
apart.

### FileStore

A handler goes through

    seek -> read ... read -> rewind [-> seek -> read ... -> rewind] [-> truncate -> write] -> done

which are the calls of `readJson` (`Seek`, `Stat` with the buffer, the reads of
`readAll`, `Seek`), repeated by `applyVPort` for `InsertNewTask`, and of the
modifying operations (`Truncate`, `Write`, `Sync`). The offset is one variable
for all handlers. Code between two system calls belongs to the action of the first of them;
it touches nothing shared. `Crash` may happen at any point; the file stays.

A file is `[length, tasks]`: the tasks a read of the whole of it decodes to, and
a length that counts tasks. Abstractions made here:

- a document's length depends on its number of tasks only, so two documents with
  as many tasks have the same length. Both cases that matter occur: a write that
  covers what is there, and one that does not;
- one `read` returns everything up to the end of the file (the buffer of
  `readAll` has room for it), the next returns the end;
- bytes that are not a whole document decode to nothing; a mix of two documents
  is never taken for a third;
- `Sync` is part of `Write`, and the operating system does not fail;
- an empty file, `null` and `[]` are all a list of no tasks;
- `QueryNewConfData` reads as the list request does; it is `ListRequest` here.

The variables `arrived`, `alone`, `before` are history: no guard but the bound
on arrivals looks at them.

### ConfDeploy

A handler goes through

    common -> query -> open -> write -> read -> openConf -> writeConf -> restart   (master)
    common -> query -> open -> write -> read -> copy -> stream -> restart          (slave)

and is idle again with its answer. The exits are those of the code, whose errors
mostly go unnoticed: a common part that cannot be read, or a file that cannot be
opened, jumps over the rebuild (`ReadCommonFails`, `OpenFails`); a write may end
half way (`WriteShort`, `WriteConfShort`), a read as well (`ReadBackFails`), and
an open of the master's file may fail (`OpenConfFails`), after all of which
HAProxy is restarted; a `CopyMethod` other than 1 and 2 ends with success. Only
the copy to the slave and the restart report failures.

- *The query.* Other requests move the offset of the descriptor it reads from, and
  truncate the store (`FileStore`). A query returns the tasks in force when it
  reads (`Query`), or nothing and an error that is only logged
  (`QueryDisturbed`). The steps of the read itself are left to `FileStore`.
- *The copy.* The `scp` on the slave writes over its file as the bytes come, with
  or without emptying it first. `Copy` writes any part, `CopyEnds` the rest. A
  connection that breaks (`CopyFails`) and a crash leave the part, and two copies
  at a time may each write any of it (`mixed`). With `CopyMethod` 1 the session may
  start before the goroutine that feeds it asks for its input; it then has none,
  `scp` copies nothing and HAProxy is restarted (`CopyWithoutInput`). The
  goroutine panics then, which ends the console: a `Crash` that may come at once
  or later.
- *A configuration* is its length, the tasks in it and whether it is whole. One
  that is not whole is empty, or the start of one with the rest of another.
- *The restart* with an empty file fails and the old process goes on; HAProxy
  reads its file in one step. Whether HAProxy refuses a part of a configuration is
  not decided: it may run it.

`alone`, `lists`, `ignored` and `tidy` are history: whether others deployed
meanwhile, the lists of tasks in force during the request, what each unnoticed
failure of the request left where the new configuration should be, and whether
all of the past is without overlaps and without parts taken for whole.

### BusinessList

One step, over every list of at most `MaxBusinesses` entries. `sort.Sort` is
specified by its result: any permutation ordered by first port, which leaves
equal first ports in either order, as `Less` (`<=`) does.

### Page

One user's browser over `TaskService`: a request is `Arrive` with a callback kept
for its answer, the console may execute it at any time, and the answer runs the
callback of `req.done`, unless the page was left meanwhile. Requests of others
arrive in between. A part of the page is in `visible` or hidden, and a click needs
the button to be visible. The form, the list and the preview's table slide for
400 ms: what slides up is in `leaving` and can be clicked until `SlideEnds`, which
may come at any time; what slides down can be clicked from the start. A slide that
is asked for during another waits for it, so the last one asked for decides. The
hidden fields `serversToSubmit` and `idToEdit` are `previewed` and `editing`;
`previewedFor`, `foreign` and `hasty` are history. A deletion
goes through the popover of a row and a dialog of alertify, which covers the rest
of the page while it asks.

### The parts of jQuery

Each module has the stack of JavaScript calls as a variable where functions of
scripts are called from inside (`calls`, `stack`, `events`, `todo`), so that a
script may call any operation again at each of those points.

- `Callbacks`: a list with its flags, `firingIndex`, `firingLength`, its memory
  and its stack of pending calls. `Layout` puts together what `Deferred` and
  `when` are made of: three lists per Deferred, closed by internal callbacks.
  `due` is history: what the loop of a list has still to call.
- `Ajax`: `state` 0, 1 and 2 of a request, its transport, its timer, `jQuery.active`
  and the callbacks. The network may answer, fail or say nothing. Scripts abort,
  throw, return false from `beforeSend` and start the next request.
- `Conversion`: `ajaxHandleResponses` and `ajaxConvert` over the default
  converters and one that a script added, for the known types and one made up.
- `Events`: handlers of each element in the order of the code, delegates first;
  an event calls the copy that `dispatch` made.
- `Effects`: the queue `fx` with its sentinel, the timers of `jQuery.timers`, the
  data that `fadeToggle` and an interrupted fade keep, and the mark that a promise
  looks at. An animation has a step half way and a last one.

### The widgets

One record or a few variables per widget: its own flags, the classes that matter,
and `onEnd` or the like for the functions that wait for the end of a transition
or for a timer. Users click, and move the pointer, at any time; ends of transitions
come late or never. `calm`,
`hasty` and `unheard` are history: whether a call came while the effects of an
earlier one were under way, which the widget does not always stand (see 4).

The parts in `MCScripts` and `MCWidgets` share no state: none of their lines
reads what another part writes. A behaviour of the composite is therefore one of a
single part, named by the variable `part`, and a product of two parts would show
nothing that each alone does not.

## 3. Runs

| Run | Shows |
|---|---|
| `service` | the five properties of the abstract service, from every set of assigned ports out of six, three requests |
| `filestore` | unique ids, the crash window and atomicity of undisturbed requests under every interleaving of two handlers, three requests and crashes |
| `filestore_live` | every request is answered |
| `filestore_serial` | one request at a time: the handlers and the file implement `TaskService` |
| `deploy` | deployments of two handlers with changing tasks, queries that are disturbed, opens, reads, writes, copies and restarts that fail wholly or half way, a skipped slave and crashes: no HAProxy runs a part without overlap, unless a part was taken for whole; success is true for one that nobody overlapped, or one of its own failures accounts for what HAProxy runs |
| `business_list` | the check is exact for distinct names; no legal list is refused |
| `page` | the form and the list page, with slides, late answers and other users, one range of two ports and two tasks |
| `scripts` | jQuery's lists, requests, conversions, events and effects, called again from their own callbacks |
| `widgets` | alertify and the widgets, with clicks before timers and transitions are over |

Every property of these runs is paired with a mutation of a definition that
breaks it (the operators marked "Mutant" before the definition they change).

The runs `service_full`, `filestore_lost_tasks` and `deploy_overlap` check one
property each, which TLC finds violated; they are the findings of section 4.

Bounds, and why they are enough:

- *Two handlers.* Each disagreement shown is a conflict of a pair, and the
  properties that hold speak of one handler against all others; that two stand
  for any number is not left to TLC: the theorems are about any set of handlers.
- *Three arrivals* (`MaxArrivals`; two in `page`) let a request meet what two others, finished
  or crashed, left behind: an offset that is not 0, rubbish in the file.
- *Ports.* `MinPort` and `MaxPort` stand for 1000 and 99999. With ranges of
  three and two ports there are gaps, a full range, and biggest ports below, in,
  at the end of and above the range.
- *Ids.* The lists stored at the start have gaps, and ids and ports in opposite
  orders.
- *One task* in `deploy`: configurations of two lengths, and so longer, shorter
  and equal ones written over each other. `CopyMethod` is 1 (which has a step that
  2 has not) or 3. The constraint `Bounded` goes no further where two failures of
  requests under way are unnoticed, where HAProxy runs a part (no step reads what
  it runs, so what follows also follows on a restart that failed), and where the
  master is deployed to with `CopyMethod` 3, which only the slave's branch reads.
- *Three business types* over the ports 0 to 4 have every order of their
  ends.
- *Page*: two tasks that fill a range of two ports, so that a deletion frees an id
  and a port and the next application takes both; two requests, which may be under
  way together; one question at a time (`MaxAsked`). Once a user was hasty the run
  goes on while only one request has arrived (`Bounded`).
- *Scripts*: four operations on a list, or on a Deferred, from inside its callbacks
  or not, let one callback remove itself, add another and fire again; `when` has
  two Deferreds and three operations. Two requests and one abort meet in every
  order. Two elements, three bindings and two events under way give delegation,
  a nested event and an unbinding between them. Four calls of effects are two
  fades, a `stop` and what follows.
- *Widgets*: three dialogs are one shown, one that waits and one opened later; three
  calls of a modal while hides overlap; three items, panels and tabs are the
  least with one that is neither old nor new; two ends of transitions per pane.

Fairness. `filestore_live` assumes weak fairness of each handler's own
steps, which the Go scheduler gives a goroutine that can run (no step waits for
another handler). Nothing is assumed of users or crashes. `MaxArrivals` matters
here: if requests kept arriving for ever, their seeks could keep setting the
offset back under a reader, and its `readAll` need not end. What is shown is that
it does once users fall silent.

`scripts` assumes weak fairness of timers that are set and of functions called
inside jQuery, which return; `widgets` that of the timer a modal dialog sets when it
is hidden. That a transition ends is assumed nowhere, as an element that is not
displayed never tells of it. Log messages of alertify and slides of a carousel
have no timer for that case, so nothing is claimed of their ends.

`CHECK_DEADLOCK FALSE` is given where the model may stop: users may fall silent
(runs without crashes), and the check of a configuration is over after a step.

## 4. Where the code and its words differ

1. **The last port of a range is lost** (`service_full`). `autoAssignPort`
   searches below `upperLimit` and gives up when that is `lastPort`. Once a port at or
   above the last one is assigned, the last one is never given out; its comment
   (`main.go:161-163`) names "all ports are assigned" as the reason.
2. **Inserting loses tasks** (`filestore_lost_tasks`). A handler whose offset
   another moved reads nothing, takes that for an empty list and writes it back
   with its own task only.
3. **Success of overlapping deployments** (`deploy_overlap`). One truncates what
   another is about to read or start.

Other behaviour that the modules have, as the code does, and that a property was
worded around:

- two applications that read the ports before either inserts get the same port
  (`FileStore`; ids stay unique nevertheless);
- `applyConf` reports success although the rebuild was given up (no common part, no
  file), the query of the tasks was disturbed and a configuration without tasks
  was deployed, a file was written or read in part, or the copy had no input;
  `IsolatedApplies` says that nothing else than such a failure of the same
  request (`ignored`) may stand between success and the tasks, and `NotTorn` that
  only a part taken for whole is ever run. It also does for the slave when
  `CopyMethod` is neither 1 nor 2, which both leave out (`Deploys`);
- within 400 ms of `cancel` the preview button of the form that slides away still
  works, and a row may be edited while the list slides away: the submit button is
  then there for servers that were previewed for another task than the one whose
  id is sent (`Page`, `hasty`);
- ranges are checked in a map from names, so a range out of order passes when a
  later entry has its name (`BusinessList`, where `StartsIffLegal` speaks of
  distinct names);
- an id that was deleted by somebody else may be given to a new task, and a list
  page loaded before acts on that one (`Page`, `foreign`);
- a confirmation that is answered while a prompt or an alert waits behind it may
  throw before the caller's function is called (`Alertify`, `lost`);
- a request that is aborted in a function for `ajaxSend` ends twice
  (`Ajax`, `abortedInSend`); any `stop()` called at the end of an effect, one that
  empties the queue during a delay, and an effect queued, with none waiting, at the
  end of one that `stop()` completed may let two effects run (`Effects`, `misused`);
  clicks before an earlier transition is over may leave two panes displayed or an
  indicator that is not that of the item (`calm` in `Tabs` and `Modal`, `hasty` in
  `Carousel` and `Alertify`);
- a source of suggestions that answers late gives a menu for a text that is not
  there any more (`Typeahead`, where only arrays are promised to fit).

Not worth a run: the file store reports one deleted task whatever it deleted
(`applicationDB.go:287`), so the check at `main.go:401` never fails.

## 5. Proofs

All theorems hold for every value of the constants that satisfies the named
assumptions: ports are naturals and `MinPort` is at least 1
(`PortsAssumption`), each range is in order and legal (`RangesAssumption`, what
the check of `BusinessList` is there for), requests are of the five kinds and the
lists stored at start have unique ids and ports (`ServiceAssumption`,
`StoreAssumption`).

- `TaskDataProofs`: facts about the operators. The greatest and least element of
  a finite set exist; the next id is fresh; the automatic choice is a first fit;
  an assigned port was free; each kind of change keeps ids and ports unique.
- `TaskServiceProofs`: `TypeCorrect`, `DistinctTasks`, `FirstFit`, `NearlyFull`,
  `PortsAreKept`. The invariant is typing with unique ids and ports; the action
  properties follow from it for the one action that changes tasks.
  `PageUsesService` (the pages extend the service) shows each step of a page to
  be a step of `TaskService` or none, so `DistinctTasks` and the others hold
  with browsers in front of it. `SubmissionsMatch` needs `FormInv`: unless the
  user is hasty, a form with a preview stays open, because its cancel is hidden and
  it is not on its way out, so that no row is edited beside it. `RowsAreActedOn` and
  `RowsStayWithTasks` need that requests name rows of the list as loaded
  (`CallInv`) and, unless somebody else changed the tasks, that each stored task
  is one of those rows but for its servers, and what was reported deleted stays
  away (`ShownInv`).
- `FileStoreProofs`, in three layers:
  - `TInv` (typing, unique ids, and that a handler about to truncate or write
    serves a modifying request) gives `TypeCorrect` and `DistinctIds`. Uniqueness
    of ids is only inductive together with that of the rows in the handlers'
    hands: they are what is written next.
  - `IsolationInv` adds what a handler that is alone may rely on at each of
    its steps: the file still holds `before`, the offset is 0 where it must be,
    and the rows it read are `before` (or, once computed, their change). It gives
    `CrashWindow` and `IsolationIsAtomicity`. The invariant is needed because the
    property speaks of the last step only, and what a read decoded to is
    decided several steps earlier.
  - `SerialInv` adds that in a serial behaviour the handler in the store is
    alone, and gives `Implementation`: each step of the detailed program is a
    step of `TaskService` or stutters. The mapping shows the stored tasks as
    they were while a writer is between `Truncate` and `Write`.
- `ConfDeployProofs`: `TypeCorrect`, `NeverTorn`, `UndisturbedApplies`. `TidyInv` says of
  every place a configuration passes through, at each step of the one handler that
  is inside (`OnItsWay`), that it is whole or empty, that a file about to be written
  is empty, and that the slave's file may hold a part only where a restart does
  not follow before a copy has ended. `AloneInv` follows an undisturbed handler from
  its query through the new file, the bytes read back and the target's file to the
  running process (`Due`): each holds the tasks of some moment of the request, or
  what a failure that went unnoticed has put into `ignored`. Success is announced
  only at the end of that chain.
- `WidgetProofs`, a section for each widget, and one for the effects of jQuery. A
  handler of a widget is a few functions called in a row on one record; that such a
  row exists, ends in one state, and keeps what each of its functions keeps are the
  lemmas `RunStays` and `RunExists`.
  - alertify: `HeadListens`, for which the end of another dialog's transition must
    only be awaited when a dialog was opened hastily; `AnswersInOrder`, because the
    queue holds the numbers that follow those already answered.
  - tooltip: `TipsAgree`. Each `hide()` that waits for a transition also waits for
    its timer (`DocumentInv`), and the pointer's timer is the one for the side the
    pointer is on (`PointerInv`).
  - accordion: `OnePanelOpen`. An open panel's busy object is the one its data
    holds, which is the one another panel asks: so it is not closed before its
    transition is over, and nothing opens beside it. A closing panel has lost its
    object and may be opened again by a new one.
  - tabs: `PaneOfChosenTab`. While `calm`, either everything is settled or one
    fade is under way, and its end is still to come.
  - carousel: `CarouselSlidesOn`. One invariant holds always (items carry a class
    of a slide only while `sliding`), a second one (`GoodCarousel`) while nobody was
    hasty: the items stand as one stage of a slide has them.
  - modal: `ModalIsWhatItSays`. A calm dialog goes through five stages, and in
    each it is known what waits for which end or timer.
  - typeahead: `SuggestionsFit`. At most one suggestion is lit, and the menu is that
    of the text last looked up, as long as somebody looks.
  - effects: `EffectsTakeTurns` and `OpacityRestored`. The invariant (`EffectsSound`)
    describes the stack: below, at most one loop over timers or one `stop()`; above
    that, calls of `dequeue()` that have started an effect, whose queue is marked
    by the sentinel; on top, perhaps, a `dequeue()` that is about to be called, and
    over it a function of a script. Nothing runs whenever `dequeue()` is about to
    be called (`Due`, `ScriptDue`), which is why it never starts a second effect;
    the exception is a `stop()` that has emptied the queue. For the order of ends,
    what waits has a greater number than what runs, and that than what has ended
    (`EndOrderInv`). For the opacity, an effect that runs shows the element and
    carries its full opacity as the one to go back to (`StyleInv`).
- `CallbacksProofs`, for jQuery's lists of callbacks, `Deferred` and `when`.
  - sequences: `Kept`, what a loop leaves of an array, is a recursive function of the
    elements seen, not `SelectSeq`, so that what it leaves can be proved: if it were
    not true after each of them there would be a least number of them after which
    it is not (`LeastNat`, `Reaches`).
  - lists: `CallsWhatIsDue`. Each list that fires is on the stack once
    (`StackSound`), and what it has left to call follows the callback at its index,
    or the one running if one is (`ListGood`). That is why `remove()` may correct
    index and length by counting: it is called between events or by a function of a
    script that a loop has called. Of `Deferred` and `when` it needs that no list
    is told to close or fire itself (`CallbacksFor`). Nothing is claimed once a
    callback has thrown or has emptied the list that calls it (`broken`).
    `ValuesInOrder`, that values do not mix, is claimed in broken states too, so its
    invariant (`ValuesInv`) is one of its own: what a list fires is not older than
    what its callbacks were last called with, what waits to be fired is not older
    than that, in order, and at a list that fires only, and what is remembered is
    what was fired last (`ValueGood`). Scripts fire with a new value each time, and
    only the lists of `when` pass on a value that others were fired with.
  - promises: `PromiseKept`. Each list for an outcome is at one `Stage`: not yet
    told, closed, firing or told, with a number of the callbacks it has called out
    of all it ever had, which are those that `Deferred` and `when` put there and then
    those added. A list that fires closes the opposite one with its second
    callback; no script runs before that (`Closing`), and a list is closed by
    nothing else (`ClosedByOther`), so that there is one outcome, which is the state
    the first callback sets (`OutcomesAgree`). `when()` has still to wait for 2 less
    the arguments whose list is past its fourth callback, the one that counts down
    (`WhenCounts`). The numbers are not variables of the model: `PromiseInv` says
    that there are some, which each step may choose anew. That nothing is forgotten
    when no script runs follows with `CallbacksInv`: no list fires when the stack
    is empty. The lemmas go through the kinds of step (an addition, a call of
    `fire()`, a callback of each kind, the end of a loop, a throw) once for the lists
    and once for what they say of the Deferreds.
- `ScriptProofs`, a section for each of requests, conversion and events.
  - requests: `OneOutcome` and `CountsRequests`. A request goes through its points
    in one order; the invariant gives, for the point a request is at, what is on
    the stack of it, what was logged and which of timer and transport it may still
    have. `jQuery.active` is the number of the requests between their two ends,
    which is where the set of requests has to be finite.
  - conversion: `ConvertedAsAsked`. While the loop of `ajaxConvert` runs, the content
    counts as of the type last reached (`CountsAs`: also through converters that
    leave the value as it is), and what remains of the types ends in the wanted one.
  - events: `EventsAlwaysBubble` and `OneIsAlwaysCalledOnce`. Of what is bound to
    an element the delegates come first, and each part is in the order of binding,
    so a queue made of it is ordered; what an event still has to call comes after
    what it has called (`EventOrder`). For `one()`: what is in a queue may have been
    unbound, but its number is not given again, and what was called for its one
    time is bound nowhere and waits in no queue, unless another event overtook
    this one (`QueueInv`, `IsUnbound`).
- `BusinessListProofs`: `CheckIsExact`, `LegalIsNotRefused`. Comparing neighbours
  is enough because first ports grow along the whole sorted list: an entry ends
  before its neighbour begins, and so before any later one does. Because the order
  is a permutation of the indices, every pair of entries is met.

The proofs of widgets and of jQuery assume of the constants no more than the code
does: there is at least one item in a carousel (`CarouselAssumption`), and the set
of requests is finite (`AjaxAssumption`); `EventsAssumption` says that elements have
a finite depth and that having no namespace is one of the namespaces; `ConversionAssumption` says of a converter
what `$.ajaxSetup` takes, `TypeaheadAssumption` that what is searched is a list of
texts. With a single item `next()` finds none to slide to, and `CarouselAgrees`
says nothing of `sliding` then.

Only model-checked:

- liveness, which needs fairness: `Answered` of the store, `TimedRequestsEnd` of
  requests, `PromiseOfEffects`, and `HiddenDisappears` of modal dialogs;
- the violations, which are single behaviours.

Every other property of a passing run is stated by a theorem.

## 6. Not modelled

The MySQL store, `StorageTransform`, the dialogue of the ssh session, the reload of
the password file, failing system calls on the store's file, the other checks of
the configuration and the templates. A restart script or an `scp` that outlives a
crashed console is taken to end before the next deployment begins. Of the browser's libraries: jQuery's
selectors, traversing, attributes, style, data and support tests, its `pipe`,
prefilters, jsonp and default actions of events; Bootstrap's dropdowns, alerts,
buttons, scrollspy and affix. They are functions of the document that do at once
what they are asked for. `PROJECT.json` gives the reason for each.

## 7. What could follow

1. `SshCopy`: the messages between the goroutine, the session and `scp`, as an
   implementation of `Copy`, `CopyEnds` and `CopyWithoutInput` of `ConfDeploy`.
2. `MySqlStore`: one statement per operation, concurrent `applyVPort`s, the
   statements that always fail, as another store below the handlers.
3. `StorageTransform`: a partial run, a repeated run.
4. Failing `Truncate` and `Write` in `FileStore`.
5. `ConfDeploy` over `FileStore`: the steps of the query, where `QueryDisturbed` is
   its outcome.
6. `HtpasswdProvider`: the shared reload.

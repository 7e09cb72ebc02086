# plane-forge-bridge in TLA+

plane-forge-bridge relays issues, comments and pull-request state between a
forge (Forgejo or Gitea) and a Plane workspace. It is a stateless-looking HTTP
server: each webhook it accepts makes it look something up on one service and
write something on the other. What makes it hard is that the two stores, the
webhook queue and every other handler move on between those two calls, that both
services send the bridge's own writes back to it, and that their deliveries are
repeated, reordered and timed out. The specification here is about that.

## 1. Inventory

| component | state | operations | talks to |
|---|---|---|---|
| webhook server, `internal/server/server.go` | the loop-break LRU; one goroutine per request | verify, parse, marker check, dispatch by kind, record, answer 200/202/4xx/500 | both parsers, engine, LRU |
| engine, `internal/sync/engine.go`, `comment.go` | none of its own (links, clients, resolvers) | `HandleForgeIssue`, `HandleForgeComment`, `HandleForgePullRequest`, `HandlePlaneComment` | both clients, resolvers |
| Plane work items, `internal/sync/planeworkitem.go` | none | `HandlePlaneWorkItem`: create a forge issue for a new item, skip updates and deletions | both clients, resolvers |
| pull requests, `internal/sync/pullrequest.go` | none | find `[IDENTIFIER-n]` in title, body, branch | engine |
| label resolution, `internal/sync/labels.go` | per-project and per-repository label caches, one mutex each | list once, find, create what is missing | both clients |
| state resolution, `internal/sync/state.go` | per-project list of states with its age | find a state ID by name | Plane client |
| identity resolution, `internal/sync/identity.go` | member list with its age, forge users found and not found | e-mail or override to user | both clients |
| loop-break LRU, `internal/idemp/lru.go` | bounded list and map of (source, delivery, target) | `Seen`, `Record` | server |
| loop-break marker, `internal/idemp/marker.go`, `internal/sync/marker.go` | none | wrap, extract, strip an HTML comment at the end of a body | engine, server |
| clients and parsers, `internal/plane`, `internal/forge` | none | REST calls, webhook payloads to events, signatures | the two services |
| configuration, `internal/mapping` | the loaded file | load, environment overrides, validate | main |
| process, `cmd/plane-forge-bridge/main.go` | life cycle | load, listen, serve, drain for 15 s, exit | all |

What makes the system correct:

- engine, server and services together: nothing the bridge made is mirrored
  back, copies go where the links say and where their thread is, one original
  has one copy, nothing a user wrote is lost, the copy agrees with the original
  when all is quiet, traffic dies out;
- caches: what a cache answers was once true of the service, an entry missing
  on the service is created at most once per instance, no entry is served when
  it is too old;
- LRU: it answers for the last `capacity` distinct keys, and its list and map
  agree;
- marker: what is wrapped is extracted again, with the same fields, and only
  then;
- configuration: what passes validation makes every later lookup unambiguous;
- process: a shutdown ends, waits for the handlers as long as it said, and its
  exit status tells whether any was cut off.

Where it is hard: `PROJECT.json` lists each hazard at its line. In short: two
handlers between look-up and write (`engine.go:330` and `:376`); deliveries
handled before the one they depend on; repeated deliveries, which nothing stops
(`Seen` is never called); a lost response after an applied write; senders that
time out while the handler goes on; a restart with other links; a shutdown that
gives handlers half the time one of their calls may take; markers that Plane may
strip, and markers seen where they are not meant.

## 2. Modules

| module | what it is |
|---|---|
| `Trackers` | the two services: their stores, the webhook queue, the REST calls of the clients, and what the services' own users do. External to the code, modelled from the clients, parsers and handlers |
| `Bridge` | the server's routing and the engine's handlers, each a look-up, a write and an answer; deliveries, faults, time-outs, restarts |
| `BridgeProperties` | what the composition promises, and the fairness |
| `BridgeInvariant` | the inductive invariants: `Traceable`, `AtMostOne`, `Paid`, `NothingLost`, `InStep` |
| `Bridge_proofs` | the proof that they are, and the theorems |
| `Mirroring` | what the bridge promises users of the two services, without handlers, webhooks or texts: originals, and copies of them over links |
| `BridgeRefinement` | `Bridge` as an instance of `Mirroring` |
| `BridgeRefinement_proofs` | the proof that it implements it |
| `MCBridge` | instances for TLC: link lists and budgets |
| `Recency` | what the loop-break cache promises: a window over the keys recorded last |
| `LRU` | `internal/idemp/lru.go`: the list, the map and eviction |
| `LoopBreak_proofs` | that `LRU` implements `Recency`, and its invariants; the invariants of `Texts` |
| `ListCache` | what the state and the label caches share: an entry per project and process, its mutex, its age, the call that fills it, and the service behind it |
| `StateCache` | `state.go` on top of `ListCache` |
| `LabelCache` | `labels.go` on top of `ListCache`: names to labels with creation, labels to names |
| `ListCache_proofs`, `StateCache_proofs`, `LabelCache_proofs` | the invariant of an entry, and what it means for the callers of `StateCache` and `LabelCache` |
| `IdentityCache` | `identity.go`: overrides, the list of members, the search by address |
| `IdentityCache_proofs` | its mutexes, its windows, how old an answer may be, and who may be missed |
| `MCStateCache`, `MCLabelCache`, `MCIdentityCache` | their instances for TLC |
| `ConfigLoad` | `internal/mapping`: overrides from the environment, defaults, validation, look-up of the secrets |
| `Webhook` | one delivery on its way through the server up to the first remote call: body, signature, parsers, marker, gates of the handlers |
| `Process` | one run of the program: load, listen, handle, and the end, with `ConfigLoad` and `Webhook` inside |
| `Process_proofs` | its type, its exit status, its grace period, its answers, its gates |
| `MCProcess` | the files, environments, senders and deliveries TLC tries |
| `Marker` | `idemp/marker.go` and the renderers of `internal/sync`: wrap, extract, strip |
| `PullRef` | `parsePRRef`: which work item a pull request is about |
| `Texts` | a text written, copied, stored and announced again; a pull request that names an item |
| `MCTexts` | `Texts` and `LRU` side by side for TLC |

`Bridge` does not contain the caches: a resolver runs between a handler's
look-up and its write, changes nothing `Bridge` keeps and can only delay or fail,
which `Bridge` allows at that point. The caches in turn do not need the handlers:
their callers are any goroutines. So each part is checked by itself. `Process`
takes a handler's remote calls for what they are to the server, something that
takes time, returns one of a few kinds of reply and may be cut off; `Bridge` has
what they do. `Bridge` keeps of a text whether it ends in a marker; `Texts` shows
that this is all that is needed, and what it takes for a copy to end in one.

### State and actions of `Bridge`

A worker is one goroutine of the HTTP server. `Begin` is a request that passes
the marker check and is dispatched to a translator method; `Dismiss` is one
answered without a remote call (marker found: 200; kind not handled or no link:
202). `LookupByRef` is `GetIssueByExternalRef`, `LookupBySequence` is
`GetIssueBySequenceID`, `LookupParent` is `GetIssue` with `parseExternalRef`.
The writes are `CreateItem` and `Reconcile` (the two branches of
`handleOpened`), `UpdateText` (`handleEdited`), `UpdateState`
(`handleStateChange`), `MoveForPull` (`HandleForgePullRequest`), `CommentOnItem`
(`handleForgeCommentCreated`), `CommentOnIssue` (`handlePlaneCommentCreated`)
and `CreateIssue` (`handlePlaneWorkItemCreated`). `Answer` is the end of the
`dispatch*` function: it records the delivery when the outcome names a target,
then responds.

`recorded` is the loop-break LRU without its bound: the code records and never
asks, so what it holds changes no step. `LRU` models it with its bound.

Look-up, write and answer are separate steps since each is a remote call (or a
response) of its own, and the code holds no lock across them. The resolvers for
states, labels and members that run between look-up and write change none of the
state modelled here; that they may fail is part of `CallFails`.

A call can fail before it takes effect (`CallFails`), or take effect and lose
its response (`Applied`, second disjunct). Both take from the budget `fault`,
except for a handler whose sender has hung up: the request's context is then
cancelled and every call of that handler fails for free.

### The services

Text is a revision number, and whether it ends with a marker. A user can edit
the marker out of an issue body but never fakes one. The payload of a webhook is
a snapshot taken when it is queued. `ref` is the `external_id` of a work item
and `by` the original of a copy; `by` is a history field no action of the bridge
reads.

Switches: `KeepsBodyMarker` and `KeepsCommentMarker` say whether Plane keeps
HTML comments in descriptions and comments (the sanitiser of the server is a
matter of its version, and `planeworkitem.go` says it strips them);
`UniqueRefs` says whether Plane refuses a second item with the same external
reference; `Ordered` and `Retries` say how the senders behave.

### State and actions of the caches

`LRU` keeps the list and the map of the code apart, as the code does; `Seen` and
`Record` are its two methods, each atomic under the mutex. `Recency` is the
abstract specification: the distinct keys recorded last, most recent first.

In `ListCache` a caller is a goroutine inside `ResolveStateID`, `resolveLabels`
or one of their siblings. `Begin` is the call, `Acquire` the mutex together with
the look at the entry's age (`Fresh`), `ListServed` and `ListReturns` the two
ends of the remote list call, `CallFails` its error. `StateCache!Answer` is the
search for the name. `LabelCache!LookUp` is the loop over the names up to the next
one the list lacks, `CreateServed` and `CreateReturns` the creation of that one;
the mutex is held to the end, as `defer` makes it. `IdentityCache` has two
mutexes and per address an entry of its own: `AcquireMembers`, `ListServed` and
`ListReturns` are `listPlaneMembers`; `AcquireLogins`, `SearchServed` and
`SearchReturns` are `lookupForgeByEmail`; `AskServed` and `AskReturns` are
`lookupRealForgeEmail`.

Time is a clock that advances while callers wait for remote calls; a step inside
the process takes no time, and a remote call at most `Timeout`. Users add,
rename and delete objects, or change addresses, at any step. Fields named
`since`, `held` and `begun` are history, read only by properties: they say when
something was true, so that "not older than" can be stated. An address that never
changed has `since = -1`.

### State and actions of `Process`, `Webhook` and `ConfigLoad`

`ConfigLoad` abstracts a setting to empty, good or bad: a bad value lacks the form
the setting needs, a bad name of a variable is one that holds no secret.
`Overridden` is `applyEnvOverrides`, `Completed` and `Valid` are `validate`,
`SecretsFound` is `resolve`; `ErrorOf` gives the sentinel in the order of `Load`.

`Webhook` writes the way of a delivery as a sequence of gates: what a gate reads,
when it applies, what it answers. `Verdict` is the answer of the first that
applies. A gate that reads an object the event does not have gives `panic`. The
gates of `Checks` are `readBody`, `VerifySignature` and the event header,
`ForgeParse` and `PlaneParse` the parsers (which differ: the forge's looks at the
event's name before the body and refuses an event without its object, Plane's
decodes first and takes an absent `data` for an empty one), `MarkerGate` the
loop break, `Dispatch` the translators up to their first call.

`Process` has main (`Load`, `Shutdown`, `ServerFailed`, `Drained`,
`DrainGivesUp`, `Collect`: the two arms of the `select` in `ListenAndServe` and
what follows them), the goroutine that serves (`Listen`, `ServeFails`,
`ServeEnds`, and the channel `errCh` between the two), and per request a
connection and its handler: `Accept`, `Drop`, `HeaderRead`, `Handle` (the
verdict), `LookupReturns`, `WriteReturns`, `Respond`. `Do` is what the clients
make of a reply, `Found` what the look-ups make of that. `Signal` is SIGINT or
SIGTERM, which ends the process if it comes before `signal.NotifyContext`; `Kill`
is a crash. A panic ends the handler and not the process, as in `net/http`.

### State and actions of `Texts`

A text is a sequence of tokens: words, white space, line ends, markers, lines of
the preface for unmapped authors. `Wrap`, `Extract` and `Strip` are those of
`idemp/marker.go`; `RenderComment`, `RenderDescription` and
`RenderPlaneWorkItemDescription` the renderers. What looks like a marker but has
a field it cannot have is a word. `Write` is a user typing or pasting (markers
too), `CopyFromForge`, `CopyFromPlane` and `CopyItem` are the handlers' copies,
`Store` what the other service makes of the end of a text. `PullRef` abstracts a
title or body to the bracket references in it and a branch to its identifier,
number and what follows.

## 3. Runs

In `Bridge` every outside step is counted in `spent`: opening, editing, closing
an issue, commenting, pull requests, creating, moving or deleting an item,
faults, restarts. `Budgets` is a set of scenarios; a behaviour goes on as long as
some scenario allows all it has spent. These are the only bounds; everything
else follows from them. The caches have the bounds their cfg names: time, calls,
faults, users' changes, objects. `Process` is bounded by the requests and its
timeouts, `Texts` by the length of what a user writes.

| run | instance | properties |
|---|---|---|
| `serial` | one handler, ordered deliveries, two faults; an issue edited once and flipped twice, or a thread of two forge comments and a Plane comment | `TypeOK`, `OneMirror`, `Converged`, `NoCommentLost` |
| `crossing` | two handlers, any order, no marker kept in descriptions; an issue and an item created with an edit and a fault, or comments on both ends next to another item, or comments touched, or the item deleted, or a restart in the middle of handlers, or a pull request, a user's move, an edit and a deletion | `NoBounce`, `CommentsBounceOnce`, `RightThread`, `DuplicatesNeedFailures`, `EditsKeepState`, `MirroringSpec` |
| `rewired` | two repositories, two projects, no marker kept at all; a restart with other links, or a comment and a fault | `RightProject`, `Settles`, `EventuallyMirrored` |
| `process` | every file and environment with one mistake; every delivery under four configurations; two handlers and a signal at any time | `CleanExit`, `CutOffsAreOld`, `DecidedForGood`, `NeverPanics`, `ServedSound`, `Stops` |
| `texts` | texts of up to four tokens, four keys in a list of two | `Coherent`, `Ordered`, `PromiseSpec`, `EchoRecognised`, `TextKept`, `PullNamesItem` |
| `states` | two callers of one entry, two names, two changes, one failing call | `OneListPerWindow`, `Current`, `MissesExpire`, `Answered` |
| `labels` | two callers of one entry, lists of up to two names or IDs, names in use refused, one change | `TypeOK`, `CurrentLabels`, `RefusalsExpire`, `CurrentNames` |
| `duplicates` | three callers in two processes, a name may be taken twice, one failing call | `DuplicatesNeedCause`, `Answered` |
| `identity` | two callers, one user and one member to match and a pair mapped by configuration, two addresses, one change, one failing call | `MutexHeld`, `MemberCurrent`, `LoginCurrent`, `MissesExpire`, `OneCallPerWindow` |

The type invariants of `StateCache`, `IdentityCache`, `LRU` and `Process` are
proved (section 4) and not checked again by a run.

What they show. `serial`: with one handler and ordered deliveries an issue has
one item, the two agree when all is quiet, and no comment is lost. `crossing`:
in whatever order, nothing the bridge made is mirrored back, as long as Plane
keeps the markers of comments; comments stay with their thread, duplicates need a
failure or a restart, edits never touch a state, and the whole is `Mirroring`.
`rewired`, where Plane keeps no marker at all, has a Plane comment copied back, which
`Settles` shows not to go on: copies go where a link in some configuration says,
also across a restart, traffic dies out, and what was opened is mirrored in the
end. `process`: the process never serves with a configuration that is unsound,
answers a delivery 500 only after a remote call, never reads an object that is
not there, always stops when told to, and says by its exit status whether it cut
anything off, which it does only to handlers that had the whole grace period.
`texts`: a copy is known for what it is whatever its text holds, a text loses
nothing on its way, and a pull request moves the item its title, else its body,
else its branch names, where a number of no use hides none in the next place. The
caches: an answer was true not longer ago than their time-to-live and a call, a miss is not kept longer than a find, callers share
calls, and no failure leaves a mutex locked or is kept as a miss for others.

Why the bounds are enough. In `Bridge` the interesting orders need two handlers
of the same delivery, one delivery overtaking another, or one failure between two
steps of a handler. Each happens with one issue and one or two other events, two
handlers and one or two faults; more of the same only repeats them. `serial`
assumes that a side sends a delivery only after the one before has been
answered, and one handler. Without ordered deliveries `Converged` and
`NoCommentLost` are false of this code: an event that overtakes the opening of its
issue is dropped for good, and an opening repeated late brings back an old text and
an old state (no other run has a property of that). With more than one handler
`Converged` and `OneMirror` are false (see the findings). So that run says exactly
what sender behaviour the bridge relies on.
In the caches a time-to-live of 2 and calls of up to 1 let a list be fetched,
used, outlived and fetched again within 4 or 5 ticks; two callers are enough for
one to wait for the other, three for a second process beside a waiting pair. In
`labels` and `duplicates` the page is large enough for all labels; what happens
with more than a page is listed as a hazard. A list of two is the shortest with a
first, a last and a key in neither place.
In `process` a tick is 15 seconds: reading a request and a remote call take up to
2, the shutdown waits for 1, so that a call can outlast the shutdown and one
begun before can end within it. Three calls are a look-up, a resolver's and a
write; more resolvers only repeat the second. Mistakes in files and flaws of
deliveries are tried one and two at a time: each is found by one check, and two
show which comes first. One request takes all deliveries, since what a handler
makes of its delivery does not depend on the others; two take sound ones while
the process stops.
In `texts` four tokens put a marker, white space on both its sides and a word in
any order; titles hold two references, bodies one, numbers are 0, two ints and
one that is too large, so that each place can name the same item, another or none. The texts and the cache share no state, so each is
explored while the other rests.
The handlers of `crossing` are interchangeable, as are callers and addresses in
`identity`: those runs use symmetry, and check no liveness.
`CHECK_DEADLOCK FALSE` where it is set: when the budgets are spent and everything
is answered the system stops.

Three runs expect a violation; each shows a sentence of the documents that the
code does not keep.

- `repeated`: the LRU is said to stop a second delivery; it is never consulted.
- `concurrent`: two handlers of one opening create two items.
- `planeborn`: comments on issues created for Plane items are dropped.

Read in the code while modelling, and not the subject of a run:

- `docs/design.md:217` has a pull request that links several work items move all of
  them. `parsePRRef` gives one number, the first reference of the title, else of the
  body, else the branch, and `HandleForgePullRequest` moves that item only;
  `PullNamesItem` says which.
- `internal/sync/README.md:391` has the bridge recover a comment that came before its
  issue was mirrored "on the next forge → plane delivery". No delivery but its own
  brings a comment, and that one was answered 202 and is not sent again
  (`engine.go:618`).
- `internal/sync/README.md:379` has the bridge act only on what it was told to
  mirror. `engine.go:724` looks up the link of a comment's issue and does not test
  it: comments of items whose link was removed still go to their repository.
- The comment at `state.go:29` says readers keep the values they have during a
  refresh; the mutex taken at `state.go:64` makes them wait.
- The comment at `labels.go:186` takes the IDs that are dropped for deleted
  labels; labels newer than the cached list are dropped as well.
- The comment at `labels.go:26` expects a second label after a renaming; Plane
  refuses the name and the event fails until the list expires.
- `docs/design.md:262` has the shutdown drain handlers before it closes the
  listener; `http.Server.Shutdown` closes the listener first, and handlers are
  cut off after 15 s, half of what one remote call may take (`CutOffsAreOld`
  states what is left of the promise).
- The comment at `plane/parse.go:39` falls back to the envelope when the header's
  event is unrecognised; the code does so only when the header is empty, and an
  empty header has been refused before.
- `comment.go:18` says a trailing marker is always present; an event ID the
  marker cannot hold, such as that of a delivery without the header, leaves none
  (`EchoRecognised` makes the exception).
- `planeworkitem.go:384` leaves two forge states mapped to one Plane state for
  the loader to report; the loader does not look at a link's `state_map`, nor
  whether the states exist, which is found out by the first delivery that needs
  one and answered 500 from then on.
- `reviewed` is a legal key of `pr_state_map` that no event stands for.
- `LRU.Seen`, `idemp.Strip` and `ExtractPlaneRefMarker` are called by tests only.

### Fairness

Weak fairness for accepting a due delivery and for the next step of each
handler. The first is the senders' promise (they keep delivering what is due);
the second holds since goroutines are scheduled and both clients give up after
30 s, so that every remote call ends. Nothing is assumed of users, faults or
restarts, which their budgets bound. In the caches (`states`, `duplicates`) weak
fairness is assumed of each caller's steps, for the same reason, and none of
time, users or faults; a mutex is granted once it is free and nobody else asks,
which is all that the bounded number of calls needs.
`Process` assumes weak fairness of main, of the goroutine that serves (not of its
failing), of the handlers together and of time: goroutines are scheduled and the
15 s of the shutdown pass. It assumes nothing of senders, signals or remote
calls, which may last until their timeout.

## 4. Theorems

`Bridge_proofs` proves, for all values of the constants that satisfy the named
assumptions of `Trackers` and `Bridge` (any repositories, projects, link lists,
number of handlers, budgets, and all settings of the switches), that `Spec`
implies always `TypeOK`, `NoBounce`, `CommentsBounceOnce`, `RightThread` and
`RightProject`.

The argument. Those properties speak of stored objects only and are not
inductive: a handler about to write could break them. `Traceable` adds what
every queued webhook tells (`HookOK`: it names an existing object of the
repository or project it says, and the first webhook of a copy shows the marker
unless Plane stripped it) and what every handler knows (`HandlerOK`: its
delivery had no marker, and the item it found is the one that refers to the
issue it handles). No step takes back an object, a webhook, or what an object's
origin is: that is `Grows`, and under it whatever is known of an object, a
webhook or a handler stays known (`IssueStaysOK` to `HandlerStaysOK`). So each
action only has to establish it for what it adds: one lemma per REST call
(`PostIssueSound` ...) says what the call needs, one lemma per action shows that
the action has it.

`OneItemPerIssue` proves `OneMirror` in any order of deliveries and with any
faults, repeats and restarts, provided that Plane refuses a reference in use
(`UniqueRefs`) or there is one handler; run `concurrent` shows that without
either it is false. `AtMostOne` adds to it what the one handler knows
(`Absent`): while it is about to create, its look-up still holds, since nobody
else creates items with a reference.

`DuplicatesArePaidFor` proves `DuplicatesNeedFailures` for any finite number of
handlers. The argument counts claims. A claim is what is, or may become, a copy
of an original's: the copies there are, deliveries that are still due and were
not handled before, and handlers that have not written yet. `Paid` says that all but
`Price` of them are claims to an original of their own, where `Price` is the
failures so far, and as many as there are handlers for each restart. A step without a
failure only turns one claim into another; a failure may leave a claim where
there would have been none, and a restart one for each handler it cuts off.

`CommentsArrive` proves `NoCommentLost` for any number of handlers. It assumes
ordered deliveries (`Ordered`), senders that retry (`Retries`), links that never
change (`KeepsLinks`: one configuration, or no restart) and items that nobody
deletes (`KeepsItems`). `NothingLost` follows a comment and its issue at once: an
issue is announced by an `opened` that comes before all its comments
(`Announced`), a comment a user wrote carries no marker (`Unmarked`), and each of
the two is on its way or has its copy (`Followed`). What makes it inductive is
that a comment's delivery is only begun when its issue's has been answered, so the
look-up for the parent finds the item unless the issue's delivery is due again,
and then the comment's fails with it.

`CopiesConverge` proves `Converged`: when nothing is under way, an issue and its
item agree in text and state. Beyond the assumptions of `CommentsArrive` it needs
one handler, and that no user moves items and no pull request does
(`KeepsStates`), since the bridge mirrors states one way only. `InStep` says of
each issue with an item what is still to come. A handler's earlier deliveries are
over, or due again (`InOrder`); of two webhooks of an issue the later has the later
text (`Versioned`); there is a webhook for the text and one for the state the issue
has now (`TextAnnounced`, `StateAnnounced`); and each text and the last state
announced has been taken over or its webhook is pending (`Taken`). The hard step
is the end of a delivery: it may be taken off the list of what is to come only if
the issue has no item, or if the handler wrote what the webhook said
(`StepReleases`), and no delivery from before it is left that could write
something older over it (`CopyWritten`). `AtMostOne` and `NothingLost` are part of
the argument: the handler must have found the one item there is.

`BridgeRefinement_proofs` proves that `Bridge` implements `Mirroring`
(`BridgeMirrors`): of each stored object only its place and its origin are kept,
and every step adds one thread or comment that `Mirroring` allows, or none. A
step that creates a copy is allowed by what `Traceable` says of its handler and
delivery; all others leave places and origins alone. It also proves
`EditsKeepState` (`TextAndStateApart`): a step that changes an item's text on
behalf of an edit leaves the state as it is.

`LoopBreak_proofs` proves for any capacity asked for (the code clamps one below 1 to 1)
and any set of keys that the cache is never over its capacity (`TypeOK`), that
map and list hold the same keys (`Coherent`), that the list is in the order in
which its keys were last recorded and a key pushed out of it is older than all it
holds (`Ordered`), and that `LRU` implements `Recency` (`PromiseSpec`): each step
of the list and the map is a step of the window. The invariant adds that no two
keys were last recorded by one call (`Distinct`). That is what turns "the
key is in the map" into "fewer than `cap` keys are newer", which is all a caller
of `Recency` sees. The string a key is indexed by determines the key since
neither a source nor a delivery ID, a UUID, contains the bar they are joined by.

It also proves the other half, `EchoRecognised` and `TextKept`, for texts of any
length, whatever markers, quotes and white space they hold. `Frames` relates a copy
to what it was made from: both have a last word; the copy agrees with the original
up to the original's; below that it holds only markers and white space, and its
own last word is the marker of the delivery, or is none. Each renderer makes such
a copy (`CommentFrames`, `ItemFrames`), the service's handling of trailing white
space keeps it one (`StoreFrames`), and what `Extract` and `Strip` make of it
follows (`FramesShow`). The places of words stand in for the library's searches:
`TrimmedIs`, `ExtractIs` and `StripIs` say what those compute. `PullNamesItem` is
proved for any titles, bodies and branches from the same view of the search for a
reference (`BracketFinds`, `FirstOfThree`, `ParseNames`).

`ListCache_proofs` and `StateCache_proofs` prove for any number of callers,
entries and names, any time-to-live, time-out and page that two lists stored in
one entry are a time-to-live apart (`OneListPerWindow`), and that a state
answered had the name asked for within a time-to-live and a call (`Current`).
The invariant `CacheInv`: whoever is inside holds the mutex, alone (`Exclusive`);
a call under way is no older than the time-out (`Timed`); a call is only under
way while the entry is unknown or too old (`Needed`), which only the holder of
the mutex can change; every pair in an entry or a response was true on the
service at a time that can be computed from the entry's age or the call's
(`Sourced`). `StateCache` adds that a caller about to answer holds a fresh entry
(`Ready`), which is true since no time passes before it answers.
`MissesAreRecent` needs the other direction, that what is on the service is in the
list (`Whole`). It assumes that a list call brings all there is (`OnePage`): the
code reads one page.

`LabelCache_proofs` proves for any callers, processes, labels and times, with
wanted lists of any length up to `MaxLabels`, the types, `CurrentLabels`,
`RefusalsExpire`, `CurrentNames` and `DuplicatesNeedCause`. The invariant says what
a caller asks for (`Asks`) and what it knows of the list it uses (`Uses`). The
mutex is held over all creations of an event, so a list is in use longer than the
time-to-live: by a call for each label created (`InUseSince`). A list names no
object twice (`Keyed`), and no name twice where the service has none twice
(`Named`). `RefusalsExpire` assumes `OnePage`, and `CurrentNames` also that names
differ, at first and later (`NamesDiffer`); otherwise the map of the code keeps
one of two labels of one name. `DuplicatesNeedCause` is a sum: the labels a name
has, and one for each process that may still make one (`MayMake`), are no more
than the processes, the lost responses and the users' changes. A process may make
one while the list it has, or is just getting, lacks the name, and by `OnePage` no
new list lacks what is there. It assumes that there are finitely many processes, at least one, and that
at first no name is taken twice.

`IdentityCache_proofs` proves for any accounts, addresses, overrides, callers and
times that `TypeOK` and `MutexHeld` always hold, that callers share calls
(`OneCallPerWindow`), and that an account is only matched with one with which it
had an address in common, no longer ago than the two caches may be old
(`MemberCurrent`, `LoginCurrent`). The invariant says of each caller what it
knows and since when it is true (`Informed`), that it only calls for what is too
old (`Needed`), that a mutex is held by who is inside, alone (`Locked`), and of
each cache that what it says was true an age before it expires (`Sourced`). What
somebody had at some time stays true (`Remembered`), so a step only has to show
what its own caller learned; whether it enters, leaves or stays inside a mutex is
settled once for all steps (`StaySound`, `EnterSound`, `LeaveSound`).
For `MissesExpire` the other direction is added (`Complete`): the list of members
shows whoever kept an address since it was fetched (`Shows`), a search that found
nobody found nobody who had the address since (`Searched`), and where no call has
failed a forge user goes by the placeholder only if it has no address or had another
one before (`Asked`, `NotSeen`). The rest of the invariant does not mention
failures: a failed call changes no cache, so that it matters to its own caller only. The list of members has no pages, and a search for a
whole address is taken to bring all who have it, so no page is assumed here.

`Process_proofs` proves for any files, environments, deliveries, senders and
timeouts: `TypeOK`, `CleanExit`, `CutOffsAreOld`, `DecidedForGood`, `ServedSound`
and `NeverPanics`. The invariant adds that a connection lives only in a process that
serves and is at least as old as the shutdown (`PlaceOK`), that the listener is
open only until main is told to stop, and that the server ends without an error
only after that (`MainOK`). That the first gate to apply exists, and is no
500 under a configuration the loader let through, is proved of the gates of
`Webhook` one handler at a time; so is that a gate which reads an object comes
after one that stops deliveries without it.

Every invariant and action property that a run checks is proved, but for what a
proof assumes as said above. Only model-checked are the liveness properties
(`Settles`, `EventuallyMirrored`, `Answered`, `Stops`), which are out of the
prover's reach.

## 5. Not modelled

- Labels, assignees, due dates, priorities as contents of an issue: they are part
  of the payload and decide no step of a handler.
- The computation of the HMAC, HTTP and JSON encoding, rendering to HTML.
- `/healthz`, which reads nothing and changes nothing; connections that are used
  for more than one request; the write timeout of the server (that a sender may
  never hear of an answer is in `Bridge`, as a sender that hung up).
- The clients' operations no handler calls: they are dead code in the program.
- Reading a plane-ref marker back, which no production code does.
- The senders' limit of retries, which is not part of this code.
- `test/e2e-docker`: a test double.

## 6. Plan

Modelled so far: the composition (`Bridge`) and its abstract specification, the
process with its configuration and the way of a delivery, the loop break, the
caches of states, labels and identities. Left:

1. Lists longer than a page, once the documents say what should happen to them.
2. Links whose identifier names another project: `Bridge` has them
   (`identifies`); what the senders of such deliveries do decides whether traffic
   dies out.
3. Proofs: the part of the liveness properties that is safety, which is that
   nobody is stuck: a due delivery can be begun or is in hand, a caller that waits
   for a mutex waits for one who is inside and can go on.

New questions about parts already modelled go into the existing runs, as further
properties or scenarios; a new module brings a run of its own only if it has
behaviour of its own to check.

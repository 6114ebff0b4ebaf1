# vossibility-collector in TLA+

vossibility-collector copies the issues, pull requests and events of GitHub
repositories into Elastic Search. One process (`vossibility-collector run`)
consumes the webhook events that arrive on NSQ topics, and at every full hour,
day or week copies all open items. This directory holds its specification: TLA+
modules, the TLC runs that check them and the proofs TLAPS checks.

Paths below are relative to the repository; `run.go`, `live.go`, `github/sync.go`
and so on are under `src/cmd/vossibility-collector/`, and go-nsq's `consumer.go`
and `conn.go` under `vendor/src/github.com/bitly/go-nsq/`; `exec.go`, `funcs.go` and
`parse/` are those of the repository's template language, under
`src/object/template/`. (There and in `PROJECT.json`, `src/` is the directory of
the repository's own packages.)

## The system

| Component | State it keeps | Operations | Talks to |
|---|---|---|---|
| main loop, `run.go` | the select it is in, `nextTickTime`, pending signals | stop when all queues exited, pass a signal on, run a synchronization under the write lock | consumers (`Stop`, `StopChan`), handlers (RWMutex), synchronization job (call) |
| NSQ consumer, go-nsq | connection, `stopFlag`, `incomingMessages`, 30 s timer, `StopChan` | connect, receive, start closing, close, exit | nsqd, its handler goroutine, the goroutines of `monitorQueues` |
| message handler, `live.go` | none between messages | `HandleMessage`: lock, parse, subscribe?, fetch labels, store | GitHub, storage cascade, NSQ (by the error it returns) |
| storage cascade, `storage/blobstore.go` | the indices, in Elastic Search | `Store` for a live event, the current state or a snapshot, each falling through to the next | Elastic Search |
| synchronization job, `github/sync.go` | two channels, two wait groups, the page and repository it is at | list, fetch, index, shut down, go on to the next repository | GitHub, storage cascade |
| pagination, `github/sync.go` | the page it is at | choose the first page, list a page, go on to the next | GitHub, whose list moves meanwhile |
| schedule, `config/periodicsync.go`, `storage/repository.go` | none | time to the next tick, name of the state index | clock |
| configuration, `config.go`, `config/` | read once | parse, verify | |
| blobs and transformations, `blob/`, `transformation/` | one document | `Push`, `Snapshot`, `HasAttribute`, `Apply` | template language |
| template language, `src/object/template` | a lexer's position, a parser's tokens, the variables of one execution | scan, parse, execute a template on a document | lexer and parser over a channel; functions of `storage/templatefn.go` |
| user store, `storage/user.go`, `sync_users.go` | documents in Elastic Search | write all, read one | |
| mappings, `sync_mapping.go` | index templates in Elastic Search | write one for every repository | |
| `sync`, `limits` commands | none | one job, or a request per repository | |

What is hard in it:

* **interleaving**: one goroutine per handler, five to twenty goroutines per
  synchronization over two channels that are closed and replaced for every
  repository, a lock between handlers and synchronization, and the goroutines of
  go-nsq;
* **unreliable delivery**: NSQ delivers at least once and in no order; a message
  that is held too long, for example by a handler waiting for a synchronization
  of an hour, is delivered again and counts as another attempt;
* **partial failure**: an event is three writes without a transaction, and every
  request to GitHub or Elastic Search may fail;
* **stopping**: signals, connections that break or are being set up, a 30 second
  limit and a main loop that is busy synchronizing;
* **checks far from their use**: what `verify` accepts once is relied upon for every
  document, and what the parser of a template has checked is relied upon by its
  execution;
* **a stack by hand**: variables of templates are pushed, overwritten in place and
  popped to a mark, in the parser and in the execution; tokens are pushed back
  into three places;
* **data shared by reference**: JSON objects are Go maps; what a template yields
  may be a part of the document it is applied to, and keys are visited at random;
* **time**: ticks on the local clock, index names in UTC, durations computed from
  remainders, synchronizations that take longer than the period.

`PROJECT.json` lists each hazard at its line, with the properties that cover it.

## Modules

| Module | Models | Proofs |
|---|---|---|
| `SyncJob` | `syncCmd.Run` with all of its goroutines | `SyncJob_proofs` |
| `SyncPromise` | what the comment on `Run` promises, without goroutines or channels | |
| `Collector` | `doRunCommand`, `monitorQueues`, and the life of each NSQ consumer | `Collector_proofs` |
| `LiveEvents` | one repository's handler, the three indices, nsqd and the synchronization that writes to them | `LiveEvents_proofs` |
| `LivePromise` | what storing events promises to who reads the indices, without queue, handler or lock | |
| `PeriodicSync` | tick arithmetic, the main loop's use of it, the state index | `PeriodicSync_proofs` |
| `Pagination` | which items the pages of a job have, while GitHub's list changes | `Pagination_proofs` |
| `Transformation` | `Apply`, `ApplyMap` and `Push` on JSON objects that are references | `Transformation_proofs` |
| `Documents` | from the configuration file to the indices: which files are accepted, which document goes where; users and mappings | `Documents_proofs` |
| `TemplateLexer` | `parse/lex.go`, a goroutine, with the parser that reads from it | `Template_proofs` |
| `TemplateTokens` | the tokens of `parse/parse.go`: `next`, `peek`, `backup` and their kin, as operators | `Template_proofs` |
| `TemplateTree` | the grammar of `parse/parse.go` and the printing of `parse/node.go`, as operators | |
| `TemplateValues` | the values templates compute with, and the comparisons of `funcs.go`, as operators | `Template_proofs` |
| `TemplateStack` | the stack of variables of `exec.go`, as operators | `Template_proofs` |
| `TemplateExec` | the rest of `exec.go` and the logical functions of `funcs.go`, as operators | |
| `Template` | a template from its items through its trees to its execution | |
| `MCSyncJob`, `MCCollector`, `MCLiveEvents`, `MCTransformation`, `MCDocuments`, `MCTemplate`, `MCTemplateLexer` | instances for TLC | |

The modules overlap where components meet, and abstract from each other there:
in `Collector` a handler and a synchronization are merely busy; in `LiveEvents`
there is one handler with all its steps, and a synchronization is a set of items
read and a set still to be stored; in `SyncJob` storing is one step; in
`PeriodicSync` only the times count. `SyncJob` has the pages of a repository fixed
and goroutines to work on them; `Pagination` has pages that change and no
goroutines. `LiveEvents` prepares an event in one step that may fail;
`Transformation` is that step, for a document and its fields; in `Documents` what
counts of a document is where it goes, and any of its writes may fail. In
`Transformation` a template is one of a few shapes, `TemplateLexer`, `TemplateTree`
and `TemplateExec` are the language itself: `Template` starts from items, since
`TemplateLexer` shows what items are made of characters. The facts one module takes from another are
properties there: that a synchronization ends (`Terminates` of `SyncJob`), that
it runs with handlers outside (`PauseExcludesHandlers` of `Collector`).

Definitions whose comment starts with "Mutant" are variants of the definition
that follows, with a plausible mistake in it. They are not part of the
specification; each property is known to fail with one of them.

### SyncJob

`main` is where the goroutine that runs `Run` is: `start` (of an iteration),
`list`, `send` (ranging over a page), `closeFetch`, `waitFetch`, `waitIndex`,
`done`. Every goroutine of every repository has a program counter (`fpc`, `ipc`),
the channel its `range` loop has evaluated (`fchan`, `ichan`) and the entry it
holds. The point of `fchan` and `ichan` is that `s.toFetch` and `s.toIndex` are
fields that `Run` overwrites: a loop reads its channel once, when the goroutine
first runs, while a send reads the field each time. Channels are numbered by the
iteration that made them. A send blocks on a full buffer, a receive on an empty
one, and a closed and empty one ends the loop.

An entry is a position in GitHub's answer rather than an issue number, so
the same issue on two pages is two entries. `PageOf` answers an empty page past
the end, which `NextPage` follows with 0, as `resp.NextPage` does. The goroutines
of a repository start in one step, which hides nothing: they block on empty
channels until `Run` has started all of them. Calls to GitHub and Elastic Search
have both outcomes. Left out: the sleep between pages, the content of documents.

`SyncPromise` is the abstract specification: repositories one after the other, their
pages listed whole and in their order, up to the last or to the first that cannot be
listed; each listed entry attempted once, for which it counts attempts; no moving on
before all have been. `SyncJob` implements it with the number of times that an indexing
goroutine has disposed of an entry as its `attempts`.

### Collector

`main` is the main goroutine: `select`, `lock` (inside `Lock()`), `sync`,
`returned`; `panicked` when some goroutine has brought the process down. The
RWMutex is that of Go: a waiting writer keeps new readers out (`WriterPending`),
gets in when the readers it found have left, and on `Unlock` all the waiting
readers get in before another writer does (`AfterUnlock`). A consumer's
connection goes from `open` to `closing` (StartClose was sent), to `draining`
(the read loop is over, messages may be unanswered) to `closed`, and by the
lookup loop to `dialing` and `open` again. Up to two messages are in flight: the
one the handler works on, which may have timed out at nsqd, and one the read loop
is handing over; `incomingMessages` has no buffer. `Stop` (in `MainSignal`) closes
`incomingMessages` when no connection is registered and otherwise grants 30
seconds; the handler's end or the 30 seconds lead to `exit()`, which waits for the
lookup loop (`CloseStopChan`), then to `Monitor`, and when all are monitored to
`MainStop`.

A message whose attempts are used up is finished without the handler and without the lock
(`HandlerGivesUp`); which message that is, `LiveEvents` says.

Abstract: durations (a timer that is armed may fire), what handlers do, one nsqd
per topic (as in the README's deployment), and nsqlookupd.

### LiveEvents

The content of an item is its version, the number of events it has had; an
event carries the version it made. `nsqd[e]` is the state of the message at nsqd,
`arrived` what nsqd has sent to the consumer, with its attempt number: a message
that timed out is both queued at nsqd and still in the consumer's hands, and an
answer to it is then refused (`Finish`, `Requeue`). `Take` is go-nsq's
`handlerLoop` with the attempt limit, `Lock` to `StoreSnapshot` are the steps of
`HandleMessage`: between any two of them, the world moves on. Each write may fail
before or after it has been done. The synchronization reads items one by one
(open ones are listed), and stores what it has read one by one, in any order.

An event about an item of kind `pull_request` has its labels fetched: the check
for labels the event brings itself never finds any (see the hazards), so there is
no other path. Abstract: transformations, which may fail before the first write;
go-nsq's backoff after an error, which delays deliveries as a slow nsqd does.

`LivePromise` is the abstract specification. It has the items with their versions, the
three indices and the set of events that are done with; no queue, no attempts, no lock.
An event becomes a live event, then the current state, then the snapshot, or stops on the
way; a snapshot is a copy of the current state of that moment; a synchronization has
the indices to itself and writes an item once; an event is done with when its indices have
had it, or when an attempt has failed or the process has died. `LiveEvents` implements
it: what has failed or may have been cut off by a crash is `Troubled`, and what a
synchronization has yet to read or to store is `Unsynced`.

### PeriodicSync

Time is in seconds of UTC from a midnight between Saturday and Sunday, the local
clock is `Zone` ahead. `armed` is when `time.After` was last evaluated and `wait`
the duration it was given, `nextTickTime`: a signal evaluates it again with the
same duration. `stored` and `indices` are the state indices written by this
synchronization and by earlier ones. Index names are numbers, one per hour or
day. Left out: daylight saving and clocks that are set; fractions of seconds,
which `time.After` adds to the time of a tick but the computation of the next one
drops.

### Pagination

Items are numbers in the order of creation, which is the order of the list, so
the newest is `count`. `open` are those the periodic synchronization asks for
(`state=open`); the `sync` command asks for all. A page is a range of positions
in what is selected *when it is asked for* (`OnPage`), and the answer says whether
there is another one (`NextPage`). Between two pages, items are opened, closed
and reopened. `untouched` are the items that have been open ever since the job
began, the ones a user would expect to be listed. `job` is one of the option
records the code can make: of the main loop, or of the `sync` command with or
without `--from`. Left out: deleted or transferred issues, and what becomes of a
listed item, which is `SyncJob`.

### Transformation

Documents are heaps: sequences of objects, an object being a function from field
names to values, a value a text, a number, null, an array or the number of an
object. The root is object 1; `Apply` makes the object of the result
(`Result`), and may make others (`Descend`, `Evaluate`). A template is one of the
five shapes the documentation shows. `Visits` are the values its execution visits
and `Value` what the visitor makes of them: nothing is null, one value is that
value, several are an array. The keys of a transformation are visited in any
order; a key is pushed as a path (`SetPath` of go-simplejson) or as metadata
(`PushSpecial`). `Missing` is a field that is not there, of which every field is
missing too; a field of null, of a text or an array is a `Failure`, which ends the
transformation with an error. Left out: the functions that call GitHub or Elastic
Search, pipelines and variables, the type and id of the blob beyond metadata.

### Documents

The configuration is a file as the TOML decoder sees it: repositories with their
sections, event sets, transformations. `ParseConfig` is `verify` with its three
parts, then `NewPeriodicSync` and, for each repository, `NewRepository`; a file is
`rejected` by the first or `fatal` in the others: for a periodicity that is none of the three,
a template that does not parse (`Loads`) or an event set that is not there. A transformation is a function from keys to templates of
four shapes, those that decide where a document goes or what is in it: a text, the
number, the author, a nested transformation. A blob carries what `blob/blob.go` says
(`type`, `id`, `snapshotID`, `snapshotField`, `data`), and two things no code keeps:
the item it is `about` and whether it is still `raw`. `Store` is
`transformingBlobStore.Store` with everything below it: the transformation is looked
up by the storage and the type, applying it may fail, and of the one to three
writes that follow any number is done before one fails. It is reached from
`HandleEvent`, `IndexItem` and `IndexUnfetched`, the last for a pull request that is
stored as the issue that was listed. `SyncUsers` and `SyncMapping` are the two other
commands, of which any part may be done. `Known` is the lookup of `user_data`, by the login
in lower case; `FnUserData` ignores its error, so that a lookup that fails yields an unknown
user. Each lookup of a document may fail on its own (`answered` are those that did not; a
document's author keeps it, for the properties to tell the two kinds of unknown apart).
Elastic Search itself is external: documents by index, type and id, and indices
that take their mapping from the index templates that are there when the first
document is put (`MappedWith`).

Names of repositories and indices are sequences of words, for the dashes in them
(`engine-` is a prefix of the indices of `engine-ui`). Left out: dates in the names of
indices, which are `PeriodicSync`; two writers at once, which are `LiveEvents`.

The event set that a repository's section names is part of a file and not of what
`DecodedEvents` returns: the field is unexported (`config/configfile.go:62-64`), and
the vendored TOML decoder skips those (`vendor/src/github.com/BurntSushi/toml/type_fields.go`).
So every repository has the set `default`, whatever `docs/configuration.md:50` says
of `events`.

### TemplateLexer

Inputs are sequences of characters, of which each class has one or two members; of
the two line ends only a newline ends a quoted string, as in `lexQuote`.
`lexer.fn` is the state function that `run` calls next, and one action is one call:
it moves `pos`, and gives what it emits to `sending`, the state function going on
only when its items have been received, since the channel has no buffer. An item is
a type and a part of the input. A quoted string is scanned one turn of the loop of
`lexQuote`, `lexRawQuote` or `lexChar` at a time; the other runs of characters are
scanned in the step in which they begin. The parser is what the lexer notices of one:
it receives (`NextItem`), asks for nothing after the last item, or has failed
(`StopParse`), after which the goroutine of the lexer stays behind for good, in the
middle of a send. Left out: runes of more than one byte; one keyword stands for all.

### TemplateTokens and TemplateTree

Each function of the parser is an operator that takes a parser and returns one: the
items received, the tokens held back (`held`, `peekCount`), the variables declared,
and the token or node that the function returns. Where the code panics with an error,
the parser has `failed`; where it would wait for another item, it is `waiting`; where
`recover` itself panics, it has `crashed`. That is how a definition, parsed by another
tree on the same lexer with tokens of its own, is written as `Definition`.
Texts that are printed one after the other, of which a comment or a definition stood between
the two, are scanned again as one (`Scanned`). `TemplateTokens` has the functions between the lexer and the grammar; `Ahead` is what
they are about, the tokens that `next` will return: those held back, then what the lexer
sends. `nextNonSpace` is written with the number of spaces ahead instead of a loop. `String`
gives the items that a node's text has, instead of the text. Left out: positions and
line numbers, what is between quotes, numbers that do not fit, copies of trees.

The parser is a copy of `text/template/parse` that only its own tests link:
`template.go`, `exec.go` and `helper.go` import the package of the Go distribution,
of which it is a copy at an earlier time.

### TemplateValues, TemplateStack, TemplateExec and Template

An execution is a record passed from one operator to the next: the stack of
variables (`TemplateStack`), what has been visited, the value returned, and how it has ended. A value
has the tag of what reflection sees: null and missing differ, a number of a document
is a `json.Number`, which is a string (so that 0 is true, and no number of a document
equals a constant). Errors are panics that `errRecover` returns; panics with anything
else, and runtime errors, end the process (`crashed`), as does a template that calls
itself (`MaxDepth`).

`Template` composes them: a template is written piece by piece, the parser gets as
far as it can after each piece, `Finish` is the end of the file or an error of the
lexer, and `Run` executes a template that has been parsed. Pieces that no lexer
sends one after the other are kept out by `Lexed`. Left out: methods and fields of
structs, `index`, `len`, `call`, `print` and the escaping functions, floating-point,
unsigned and complex numbers, channels, and templates that are associated with each
other after parsing.

## Runs

| Run | Instance | Checks |
|---|---|---|
| `sync_repos` | 2 repositories, 4 + 1 listed entries on 2 + 1 pages, of which the first three are pull requests; the second repository from its second page on; 2 fetching and 2 indexing goroutines | nothing is sent on a closed channel, nothing leaks from one repository to the next, the job ends although each goroutine may have to wait for room in a channel, and it implements `SyncPromise` |
| `collector_run` | 2 repositories, 2 signals, any number of ticks and messages | the lock, the wait for all queues, the stop, and that a signal ends the process |
| `collector_panic` | same | `NeverPanics`, violated |
| `live_faults` | 2 events of a pull request, a thing without snapshot and one not subscribed to; 2 attempts, 2 timeouts or crashes, 1 synchronization | what a finished event has stored, what is given up, what a synchronization overwrites, and that it implements `LivePromise`, by which every event is done with some day |
| `live_latest` | 2 events of one issue, 5 attempts, nothing times out or crashes | `SnapshotLatest`, violated |
| `periodic_hourly` | hourly, UTC+2, 3 synchronizations of 2 items, steps of 0 s to 1 h, 1 signal | ticks are on the hour, one per hour, and only those during a synchronization are missed |
| `pagination_pages` | pages of 2, up to 5 items, 3 closings or reopenings, the three kinds of job | what is listed, and what is missed |
| `pagination_from` | same | `CompleteFrom`, violated |
| `transformation_keys` | 5 documents (no, one or two labels; a nested object present, absent or null), all transformations of up to 3 of 6 keys by 6 templates | every key is stored, the source stays as it was, `ApplyMap` agrees with `Apply` |
| `documents` | 18 variations of the example configuration, 2 repositories of which one has the other's name as a prefix, an issue and a pull request, 2 documents stored, a users file with one login in lower case and one that has a capital letter | what is accepted suffices, one document per item, users, mappings |
| `lexer_items` | actions of up to 2 of 25 characters or 3 of 12, unclosed ones, comments with text around, up to 5 of `{ / * } a` | items tile the input, the lexer ends |
| `template_parse` | up to 5 actions, 5 with definitions, 5 words of an action, 4 parts of a call, 4 actions with variables declared or used as arguments; 2 documents | parser, printing, scopes, what ends the process |

Bounds, and why they are enough:

* `SyncJob`: two repositories, because what can go wrong between iterations goes
  wrong between two. Two goroutines of each kind, so that one can be ahead of the
  other; a channel has as many slots as there are goroutines. The first repository
  has two pages, and three pull requests to begin with, one more than either channel
  holds: the listing goroutine waits for room in `toFetch` while no fetching goroutine
  has got to run, and for room in `toIndex` with its issue when fetched pull requests fill
  it, as the fetching goroutines then do too. Of the second repository the job starts on a
  later page, as `start_index` is meant to make it. Nothing in the module is bounded by a
  guard. The proofs are for any numbers.
* `Collector`: two queues, since the lock and the wait for all queues are the
  only places where queues meet; `MaxSignals` is 2, as a second signal during the
  stop is the interesting one (`Stop` does nothing the second time). Ticks,
  messages and reconnections are unbounded.
* `LiveEvents`: `MaxVersion` 2 has an older and a newer version of an item;
  `MaxEvents` 2 then has any two events, of one thing or of two, and things that
  are not tracked have one version only. `MaxAttempts` is 2 instead of go-nsq's 5,
  so that giving up is reached by errors, by timeouts or crashes (`MaxFaults`) and by
  both. `MaxSyncs` is 1.
* `PeriodicSync`: `MaxTicks` 3 and `Delays` with steps below, at and above the
  length of a period; `Start` is just before a boundary. The runs are hourly; for
  daily and weekly ticks the same properties are proved.
* `Pagination`: `PerPage` 2 is the smallest size for which the default start is on
  the first page; `MaxNumber` 5 gives three pages, the last one not full;
  `MaxChanges` 3 lets several changes fall between the same or different pages.
  The proofs are for any of them.
* `Transformation`: three keys, since a collision needs two and a third may come
  before, between and after; among the keys are a prefix of two others, two that
  share an object, and a special one.

* `Documents`: `MaxStores` 2, as what can go wrong with an item takes a document
  of a live event and one of a synchronization, or two of them; the files are the
  example and what becomes of it when one entry is left out or changed. The proofs
  are for any files, items and number of documents.
* `TemplateLexer`: two characters reach each pair of a start and what follows it,
  three of a smaller set the numbers, escapes and parentheses; comments and
  delimiters have every order of up to five characters of their own.
* `Template`: pieces are whole actions, definitions, words, or parts of a call, so
  that a few of them reach what is deep in one respect: five actions suffice for an
  `if` in a `range` with an `else`; four actions with arguments for a variable that is
  declared and then used before a space and something that is not `:=` (`{{$x .a}}`), which
  is what three tokens are held back for, and for declarations in parentheses; and the
  documents have a list of two, so that there is a second iteration. `MaxDepth` 2
  has a template invoked, and one that invokes itself overflow.

`CHECK_DEADLOCK` is on in all runs: a finished job, an ended process and an empty
queue are steps that change nothing, and so are a lexer that has ended and a template
that has been refused or executed; nothing else may stop.

### Fairness

* `SyncJob`: weak fairness of each goroutine. Go schedules what can run, and each
  call of GitHub or Elastic Search returns, with an error or without; a request
  that never returns would stop the job, as it would the program.
* `Collector`: strong fairness of the cases of the `select`, which picks at random
  among those that are ready, so that one that is ready again and again is
  picked; weak fairness of every other goroutine's step, including that a handler
  receives or gives up what is there for it, that it returns, that a synchronization does (`Terminates`), that dialing ends (go-nsq
  has a dial timeout) and that an armed 30 second timer fires. Not assumed: that a
  tick comes, that a message or a signal does, that nsqd answers `StartClose`,
  that a broken connection is found again.
* `LiveEvents`: nsqd delivers while something is queued, in any order, the handler goes on, a running
  synchronization does. Not assumed: that any write ever succeeds, that a
  synchronization starts.
* `TemplateLexer`: weak fairness of both goroutines. Not assumed: that the parser
  ever stops early.
* The other modules have safety properties only.

### What the runs show

`SyncJob` is as its comment says: no entry is attempted twice or forgotten, and nothing is
listed behind a page that failed. The order of the two `close` calls and the two
`Wait` calls is what it rests on: drop either wait and goroutines outlive their
repository, send on a closed channel, or write to the wrong index.

`Documents`: what `verify` accepts is enough for every document to be transformed
(`NothingStoredRaw`; the check of the mandatory events is what it rests on). An item
has one document in the snapshot index, whichever way it got there, as long as the
transformations of events agree with those of snapshots on type and id; a pull
request that could once not be fetched has a second one, of type `issue`, for good
(`OneDocumentPerItem`). Whoever a document calls known has an entry, and a user whose entry
is in lower case is known unless the lookup failed (`KnownAuthors`); the spelling of the entry
is one of the differences below. The name of one repository may begin with that of
another: the pattern `engine-*` matches the indices of `engine-ui`, but as all
templates have the same mappings, no index is without (`EveryIndexMapped`).

The language: the parser never asks for an item after the last, which would block it
forever, and loses no word among the tokens it pushes back; what it prints, it
reads. The stack of variables is the scope that the template's text shows
(`LexicalScope`), and the execution finds each variable that the parser has let
through (`VariablesFound`), but for three cases named below. Whatever else is wrong with a
template or its document is an error that the execution returns, but for three kinds of
panic that end the process (`PanicsNamed`).

The three runs that end in a violation are where the code and what is said of it
differ:

1. `collector_panic`: `Stop` does not see a connection that is being set up. It
   closes `incomingMessages`, connecting succeeds, and the first message is sent
   on the closed channel. For a message the consumer has read before, closing is
   safe: `ClosedAfterLastMessage` holds and is proved.
2. `live_latest`: the snapshot index is to hold "the latest version of all GitHub
   items" (`storage/blobstore.go:17`). An event whose last write fails is handled
   again after the next event of the same item, and the old version stays.
3. `pagination_from`: `sync --from 200` starts with item 201 rather than 200
   (`sync.go:18`, `sync.go:23-24`), because page `from/100 + 1` comes after the one that has
   item 200. What holds, and is proved, is that every item after From is listed
   (`CompleteAfterFrom`).

Smaller differences that the models show, though no run is spent on them:

* A synchronization that crosses the full hour writes to two state indices, each
  without the items of the other (`blob/blob.go:47`), where
  `storage/blobstore.go:133-135` has one index of a given moment. `IndicesApart` is
  what holds: where the local clock starts its hours when UTC does, no two
  synchronizations share an index.
* The periodic synchronization is not of the "complete state"
  (`docs/configuration.md:26`): closing an item moves those after it up by one
  position, across a page boundary that the job has passed. What holds, and is
  proved, is that each closing costs one item at most (`MissesNeedClosings`).
* `start_index` is never used, since From is 1 and not 0 by default, in both
  commands (`github/sync.go:153-156`).
* A pull request that cannot be fetched is stored under the type `issue`
  (`github/sync.go:241`), and keeps its old document of type `pull_request`.
* Not every key has its field (`docs/configuration.md:111`) when one is the prefix of
  another: which one is lost depends on the order of a Go map, and one order writes
  into the source document. Without such keys every key is stored and the source
  stays as it was (`EveryKeyStored`, `SourceUntouched`).
* The "graceful stop" of `run.go:36` lasts 30 seconds: go-nsq closes `StopChan`
  then, and `doRunCommand` returns with handlers in the middle of an event.
  `ExitIsGraceful` says so: each handler had ended, or had its 30 seconds; it does not
  exclude that the end comes between two writes of one event.
* `errRecover` is to turn "panics into returns from the top level of Parse"
  (`exec.go:97-98`), but knows only errors. `{{(.a).a}}` on a document in which `a` is null
  ends the process: `validateType` calls `reflect.Zero` with a type that it has just found
  to be nil, which panics with a string. So do a constant or nil in parentheses followed by a
  field, `{{user_data context}}`, whose argument is the result of a function and of the wrong
  type, and a template that invokes itself.
* `user_data` is to use "its value as a document identifier"
  (`docs/configuration.md:149-150`), but looks it up in lower case (`storage/user.go:25`), while
  `sync_users` writes each login as the file has it (`sync_users.go:39`): a login with a
  capital letter, spelled the same by the file and by GitHub, is never found.
* An error of a user's lookup is not told apart from a user that is not there
  (`storage/templatefn.go:68`): the document is stored with an unknown author.
* A template that ranges over labels yields an array, as
  `docs/configuration.md:126` says, only for two labels or more: see `Value` of
  `Transformation`.
* The key `events` of a repository (`docs/configuration.md:50`) is never read, see
  above.
* A snapshot field that the transformation lacks is accepted, and the snapshot is
  stored under the id `<nil>`: see `Snapshot`. A metadata value that is not a string
  is dropped without an error (`Apply` ignores what `Push` returns), and inside a
  nested transformation `_type` is a field like any other (`ApplyMap`).
* The scope of a variable "extends to the "end" action" (`src/object/template/doc.go`):
  one that the first list of an `if` declares is known in its `else` to the parser,
  and undefined to the execution; so is the `$x` on the right of `{{$x := $x}}`; and so is
  one declared in an argument that is never evaluated, as in `{{(.a) ($x := .b)}}{{$x}}`, or
  in `{{.m.f ($x := .b)}}{{$x}}` when there is no `m` (`exec.go:362-364`, `exec.go:468-470`).
* Two texts with a comment or a definition between them are printed without it and parsed
  again as one text, so that the tree that was printed and the one that is read differ in
  that (`TextsJoined`).
* An `{{else}}` outside of any control structure is accepted, and becomes a node of
  the tree, where `parse/node.go` says it does not appear. With a definition of the
  same name, `IsEmptyTree` panics over it, and `recover` over that panic: `crashed`.
* `{{range $i, .a}}` is accepted, with one declaration, and so is a pipeline that
  ends in `|`. `Parse` returns what it has got together with an error, where its
  comment says the map is empty.

## Proofs

Every theorem of the eight proof modules is checked by TLAPS, with no
assumptions beyond those the modules state on their constants, which TLC evaluates
on the instances:

* `SyncJob`, `Collector`, `PeriodicSync`, `Pagination`: a finite set of queues, at
  least one goroutine of each kind, a positive page size (above one in `Pagination`),
  naturals where the code has counts, a periodicity among the three;
* `LiveEvents`: items have one of the four kinds, there is at least one version and
  one attempt;
* `Documents`: names are sequences, no transformation is the nil one
  (`TransformationFromConfig` makes none), nesting is one level deep, a snapshot field
  is an object, a field `author` is what `user_data` returned, and logins are records
  of a person and a spelling;
* `Transformation`: a document's objects refer to objects of the document; keys are
  paths that are not empty, and templates have the five shapes; what
  `apply_transformation` applies does not use it again; the special fields begin with
  an underscore;
* `TemplateLexer`: templates are sequences of the characters the module names;
* `TemplateValues`: different strings have different places in an order of integers.

Each inductive invariant named below is a state predicate that TLC can evaluate: on the
instances of the runs it holds in every state (replace the cfg's invariants by it, in a
module that extends the proof module and defines the same constants).

**SyncJob.** `IInv` has one conjunct per part of the state. `Position` ties the
current repository to the phase. `ChannelState` says which channels are closed in
each phase, and that those of later iterations are empty. `FetcherState` and
`IndexerState` say that goroutines only live in the phases between their start and
the wait for them, that the wait group counts exactly the live ones, that each
reads the channel of its own repository, and that one that has left its loop has
seen its channel closed and empty. None of these is inductive without the other:
that `wgFetch = 0` means nobody is left to send needs the count, that the channel
is empty then needs what the last goroutine saw, and that a late starter reads the
right channel needs that `cur` has not moved, which is again the count.
`EntriesKept` adds where entries are: listed ones are under way or attempted,
those under way belong to the current repository; `OneCopy`, that an entry is in one place
only, of the page being sent, the two channels, the hands of each goroutine and the entries
attempted, and was attempted once at most; `PagesListed`, that what is listed of the current
repository are its pages up to the one the job is at. From these follow `TypeCorrect`,
`NoPanic`, `Isolation`, `AllDone`, and step by step `ImplementsPromise`: `ListPage`
is a `List` of one page more, disposing of an entry its only `Attempt`, `FinishRepository` a
`MoveOn`, the rest stutters.

**Collector.** `LockInv`: no handler inside during a synchronization, none blocked
while the main loop is in its select or has returned. `ConsumerInv`: without a
connection nothing is in flight, a busy handler has a message, a closed channel
means stopping and nothing in flight. `StopInv`: a closed `StopChan` goes back to
`exit()`, and that to the end of the handler or the 30 seconds. They give
`MutualExclusion`, `NoHandlerForgotten`, `CloseIsSafe` and `GracefulExit`; type
correctness itself needs `ConsumerInv`, for the count of messages.

**PeriodicSync.** `NextTickIsNext` is the arithmetic: from any integer time each of
the three sums of remainders leads to the first boundary strictly after it, by way
of `HourlyTick`, `DailyTick` and `WeeklyTick`. The invariant says that while the
loop waits, `wait` is the duration computed at the end of the last
synchronization, and orders the last tick, that end, `armed` and the clock.
`Boundaries`, `NeverTwice`, `MissedByOverrun` and `IndicesNeverShared` follow for any time
zone and any durations. `MissedByOverrun` says that without signals the next tick is that of
the first period to begin after the synchronization ended, so that each missed period began
while it was running (`MissedBeganDuringSync`), though it may have ended within the period.
`SplitByHourOnly` says that the items of one synchronization are in one index unless the hour
of UTC (the day) changes while it runs.

**Pagination.** For a job over all items, positions are numbers and `ListedIsRange`
says that what is listed is exactly the range between its first page and the page
it is at. For a job over open items the argument counts crossings: `Behind` are
untouched items at positions that have been passed without being listed, `Again`
those that are listed already and come once more. Listing a page adds to neither;
opening an item adds one at the end; closing one moves those after it up by one
position, so that one of them at most enters `Behind`; reopening one moves them
down, and adds one to `Again` at most. `CrossingsBounded` says this, with
`NoneBeforeOpened` it is inductive, and `Complete`, `MissesBounded` and
`RepeatsBounded` follow for any page size and any number of changes.

**Documents.** `Configured` says that a running collector's event sets are those
that `NewRepository` makes of an accepted file, so that the two snapshot events are
in each of them and no transformation in them is nil. `Placed` says of a document
in an index of a repository that, for an item whose tables agree, its id and type are
the item's: for the snapshot of a live event because of the table of the event, for
the other storages because of `KeepsTypes`. `Right` adds that it is transformed, and
the proof of a step is that each of the writes of `Store` is right, in its own index
and in any other. The strengthening is needed because `OneDocumentPerItem` says nothing
before the file is accepted and nothing of the other repositories' indices; that no
index of one is an index of another, or a live index a snapshot index, is the
injectivity of `Append`. `MInv` adds the index templates: one that has a repository's
name has its pattern, since the names of templates differ when those of repositories
do, and after a successful `sync_mapping` all are there. A step makes new indices only
by storing, in an index of the repository it stores for, which that repository's pattern
matches: that is `Mapped`, for the indices made after the mapping was. `Authors`
follows a login from the document to the users index, for any file and any spelling: what is
found is an entry of that person, and an entry in lower case is found unless the lookup
failed. tlapm does not prove that a literal is a `STRING`; the index
names are shown to be sequences over a larger set of words instead. `Invariant` holds
for every set of files that satisfies the assumptions (names are sequences, no
transformation is the nil one, nesting is one level deep and a snapshot field is an
object), any items and any number of documents.

**LiveEvents.** `World` ties versions to events. `Cascade` says what the handler has
written by the step it is at. `SyncAlone` keeps a synchronization and the handler
apart, and says that what it has yet to read and what it has read are different items.
With `SyncNotOverwritten` these are inductive, and `FinishedIsStored` follows step by
step: an answer is only accepted for the delivery that nsqd still counts as in
flight, and only `Succeed` after the last write, or `Take` at the attempt limit,
finishes. `NeverDroppedUntried` is the hard one, as it speaks of a number that a
delivery carries and not of what has happened. It rests on `FirstComesFirst`: while
the process has not died, every event that has been delivered either has been tried,
or is being handled, or has its first delivery waiting before any later one. A queue
that is taken from the front keeps this; a timeout puts the event behind. It holds
for any number of items, attempts, timeouts and synchronizations.

`KeepsPromise` maps each step to one of `LivePromise`. It needs, beyond the invariant
of the properties, that a version in the state index is one it has ever had
(`StateIsCurrent`), and that what is delivered, handled or read has happened (`Known`);
then `StoreState` is a `BecomeState`, since `Cascade` has the event among the live ones,
`StoreSnapshot` a `BecomeSnapshot`, since no other handler and no synchronization has
come between the two writes, an accepted answer is done with its event because of
`FinishedIsStored`, and everything of NSQ stutters.

**Transformation.** When no key begins another, what has been pushed is a tree:
`IInv` says that there is a function from the paths visited so far to objects of the
heap (`node`), one object each and none of the source, such that each key's parent has
the key's value in it, and the source is as it was. A step of `SetPath` goes along
this tree or extends it (`Descend`, `Make`), and `Put` at the end disturbs no other
key, since a key whose parent is the same object ends in another field. Evaluation may
only append objects, and what it yields from the source is the same in any heap that
has the source at its beginning. `SourceStays` and `KeysStored` are read off this tree;
`NestedSame` needs in addition that with plain keys the tree is its root. The theorems
are for documents of any shape, any transformations, and keys of any length.

**Template.** The lexer. `TemplateLexer`: `Position` says for each state function where it stands
between `start`, `pos` and the end of the input, and which characters it has behind it;
without it, that an item looks as its type says cannot be shown in the step that sends
it, since the step that recognised its beginning was another one. `Joined` says that
the items so far end where the next one starts, or that a comment lies between.
`Parens` equates `parenDepth` with the parentheses among the items, so that
`RightDelim` is only sent with as many closed as opened. `EndsLast` says that nothing
follows an item that ends the scan. With `ItemsTile` they are inductive, for any
template. `SpacesApart` follows from the tiles: two spaces in a row would be two runs of
blanks that touch, and the first would not have ended there; only comments can lie
between items, and an action has none.

The tokens. The state of a parser is reduced to `Ahead`, the sequence of tokens that
`next` will return. `BackupUndoesNext`, `PeekTakesNothing` and `NextNonSpaceTakesWord` say
what each function does to it, for any number of tokens held back and any source;
`NextNonSpaceLoops`, that the model's `NextNonSpace` is the loop of the code.
`VariableGoesBack` and `DelimiterGoesBack` are the two places where the grammar looks
further than one token: putting a variable back needs all three places, and it needs that
no two spaces come together (the middle place has room for one), which is what
`SpacesApart` proves of the lexer. Their hypothesis that at most one token is held back
when they begin is a fact about the grammar, whose operators are recursive: it can be
read in `parse.go` (each caller has just taken or peeked at one token), and is not proved.

The stack. `Above` says that one stack is another with more on top. `BelowUntouched`: no
operation on top disturbs what is below, in particular not the writing in place by which
a range sets its variables, as long as it has declared those it sets. So `ScopeCloses`
is about any body of an `if` or `with`, and `Bound` is the loop invariant of a range:
`RangeDeclares` establishes it and `RangeBindsEachItem` keeps it, whatever the body has
pushed. `DeclarationHides` makes lookups lexical, one declaration at a time. What is left
to TLC is to put these together along a tree, `LexicalScope`.

The comparisons. `ComparisonsAgree` is that the six comparisons are consistent for any two
values (`Consistent`), a number of a document being a string to them; TLC evaluates the same
on the values of the documents of `template_parse`, as an assumption of `MCTemplate`.
`EqIsDisjunction` is the comment on `eq`, for any number of arguments.

Induction. The library's induction rules take an operator, which no installed prover
instantiates. What is used instead is that a set of naturals that is not empty has a
least element (`First`, from the library's well-founded relations): it is enough for
the recursive functions `Lookup` and `SetPath`, for scanning a run of characters, and
for the first argument that decides `eq`. Trees of nodes, which have no such measure
at hand, are out of reach, and so are the recursive operators on them.

Only model-checked:

* liveness under fairness, which is out of the prover's reach: `Terminates`,
  `SignalEndsProcess`, `SyncGetsLock`, `LexerEnds`, and what the `PromiseSpec` of `SyncJob` and that of
  `LiveEvents` say of the end, beyond the safety part that is proved;
* of the template language what is about trees: `NeverReadsPastEnd`, `EveryWordOnce`,
  `Reprint`, `VariablesFound`, `LexicalScope` and `PanicsNamed`. The parser and the execution are
  recursive operators, which tlapm cannot use; what is proved are the tokens and the
  stack that they work on.

## Not modelled

* The rest of the template language: methods and fields of Go structs, `index`,
  `len`, `call`, `print` and the escaping functions, numbers other than integers,
  `newNumber`, the copying of trees, and templates that are parsed one
  after the other into one set, or from files (`template.go`, `helper.go`): the
  collector calls `Parse` once for each.
* The check for labels in `HasAttribute`, which looks for a key with a dot in it and
  never finds one; `days_difference` and user functions, which are values that do not
  depend on the rest of the system.
* `limits`, `main`, the construction of the client: a request or a print each.
* The vendored libraries other than the parts of go-nsq that `Collector` and
  `LiveEvents` name; of the TOML decoder what `DecodedEvents` says; Elastic Search as
  the code uses it.
* Two processes at once, such as the `sync` command beside `run`: they share no lock,
  and what they write is written over one another. `Documents` has both writers in
  any order, one document at a time.

## Plan

Done: 1. `SyncJob` with `SyncPromise`; 2. `Collector`; 3. `LiveEvents` with
`LivePromise`; 4. `PeriodicSync`; 5. `Pagination`; 6. `Transformation`; 7. `Documents` with
the configuration, users and mappings; 8. the template language: `TemplateLexer`,
`TemplateTokens`, `TemplateTree`, `TemplateValues`, `TemplateStack`, `TemplateExec`,
`Template`; proofs of 1 to 7, of the lexer, the tokens, the stack and the comparisons.

What would come next:

1. The grammar as a machine over the tokens, with a stack of the functions that are
   active instead of recursion: that at most one token is held back where the grammar
   looks further, and that no item is asked for after the last, could then be proved.
2. The execution as such a machine over the stack of variables, with `LexicalScope`.
3. What `Pagination` lists as the pages of `SyncJob`: one theorem on what a
   synchronization stores of a list that changes.

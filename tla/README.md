# A verification project for valisgo

valisgo is an artifact registry: an HTTP server that stores packages of four
formats (plain files, PyPI, npm, Go modules), proxies upstream registries and
combines repositories into virtual ones, with a CLI that logs in and forwards
package-manager traffic with credentials. This directory holds TLA+ modules of
its server and its CLI, translated from the Go sources, the TLC runs that check
them on small instances, and proofs that TLAPS checks for every instance. Paths
below are relative to the repository's root.

## 1. The system

| component | code | state | operations |
|---|---|---|---|
| package and file stores | `internal/store`, `internal/domain` | tables `packages`, `package_files` with unique indexes on (repository, normalized name) and (package, filename) | `Create`, look-ups by name, lists |
| blob storage | `internal/storage` | a bucket: key -> bytes | `Put`, `Get`, `Delete` |
| file protocol | `internal/registry/file` | none of its own | upload, download |
| PyPI protocol | `internal/registry/pypi` | `downloadSF` (flights in memory) | upload, download, proxied download, simple index |
| npm protocol | `internal/registry/npm` | `downloadSF` | publish, download, proxied download, metadata |
| Go protocol | `internal/registry/golang` | `downloadSF` | upload, download, proxied download, version list and info |
| metadata cache | `internal/proxy` | `sf` (flights), cached indexes in the bucket | `FetchMetadata`, `revalidateMetadata`, `StreamAndSave` |
| virtual repositories | `internal/registry/virtual.go`, the `virtual*` functions of the protocols | members in order of priority | dispatch of downloads, merging of metadata |
| routing and management | `internal/server/registries`, `internal/server/management` | tables `registries`, `repositories` | validate and dispatch a request; create and list |
| web login, authorization | `internal/server/authapi`, `internal/auth` (middleware), `router.go`, `middleware.go`, `casbin.go` | three cookies in the browser; one policy | login, callback, token and policy check |
| browse pages | `internal/server/browse` | none | four read-only pages |
| CLI login and local proxy | `internal/auth` (`LoginBrowser`), `cmd/cli/cmd`, `cmd/cli/proxy` | a port, two channels, the refresh token in the keyring, the token source of a running proxy | login, logout, proxy |
| CLI commands | `cmd/cli/cmd`, `cmd/cli/client`, `cmd/cli/printer` | none | one request to the management API each |
| start-up, seed | `cmd/server`, `cmd/seed`, `internal/database` | none | routes, configuration, demo data |

**Interaction.** A request is routed by registry and repository name to the
protocol's handler. The handler runs on a goroutine of its own and talks to two
stores, the database and the bucket, by single calls: there is no transaction,
no lock and no queue. What requests share is therefore the two tables, the
bucket, and (for proxied content) the singleflight groups in memory. npm and PyPI
accept uploads into a proxy repository too (they refuse only virtual ones), and those
go past the flights.
`FetchMetadata` leaves a goroutine behind that outlives its request. In front of
the handlers stand a token check and a policy check; a browser without a token is
redirected through `/login`, the OIDC provider and `/callback`, and all the server
knows of such a login is what cookies and URLs bring back. The CLI's processes
share the machine's port for callbacks and one keyring entry.

**What is hard.** Several uploads of one file, each a check, a blob, a row and
perhaps a rollback; failures and crashes between those calls; `storage.Put`,
which commits partial blobs and hides the error of its last call; blob keys that
name less than rows do (file names for npm and PyPI, paths whose slashes meet for Go);
a flight whose leader fails for everybody; a look-up that is stale when a flight
begins; an upload into a proxy past the flight; an upstream that breaks off in the
middle; revalidations that finish out of order; a cached index that is stale or cut
short;
two creators of one name, each a look and an insert; two logins over one pair of
cookies; handlers of a login that send to nobody; processes that hold copies of a
refresh token that works once; a refresh whose answer is lost.
`PROJECT.json` lists these at their lines ("hazards").

**What makes the components correct.**

* Uploads: a file is created once; what was acknowledged stays downloadable as
  recorded; a loss is never silent; lost races are conflicts or errors, never
  two successes.
* Proxied downloads: one fetch per key at a time, rows and blobs agree, everyone
  gets the same bytes, every waiter is answered.
* Metadata cache: answers everyone, converges to upstream, and does not go back.
* Virtual repositories: the first member that has a name wins, for metadata and
  download alike; a failing member does not hide the others.
* Management: one creator of a name is acknowledged, and what was acknowledged
  serves every later request.
* Web login: it leads back to the page it began on, and fails only for a reason.
* CLI: a login saves only its own token and ends; a proxy is rejected only if its
  token expired or was revoked, if another process used it up, or if the answer to
  its own use of it was lost.

## 2. The modules

| module | models | built on |
|---|---|---|
| `ArtifactRepo` | the tables and the bucket of one repository; the calls that upload handlers make, each one step; the crash of the server | |
| `HostedUpload` | `handleUpload` and the hosted `handleDownload` of file and PyPI | `ArtifactRepo` |
| `WriteOnce` | abstract: each file a register that is written at most once | |
| `HostedUpload_proofs` | theorems about `HostedUpload`, its refinement of `WriteOnce` among them | `HostedUpload`, `TLAPS` |
| `GoUpload` | `handleUpload` of Go | `ArtifactRepo` |
| `NpmPublish` | `handleUpload` of npm with its loop over attachments | `ArtifactRepo` |
| `ProxyDownload` | a proxy repository of PyPI, npm or Go: `handleDownload`/`proxyDownload` with `StreamAndSave`, and the uploads that npm and PyPI accept there | `ArtifactRepo` |
| `MetadataCache` | `FetchMetadata` and `revalidateMetadata` for one key | |
| `VirtualRepo` | the dispatch of downloads over the members of a virtual repository, Go's `.info`, and the merged index pages of PyPI, npm and Go | |
| `GoUpload_proofs`, `NpmPublish_proofs`, `ProxyDownload_proofs`, `MetadataCache_proofs`, `VirtualRepo_proofs` | theorems about them | the module, `TLAPS` |
| `Management` | the tables of registries and repositories with their indexes; management API, validation and dispatch of package managers' requests, look-ups of the browse pages | |
| `WebLogin` | one browser with a cookie jar and several tabs at `/login`, the provider, `/callback` and the pages | |
| `Frontend` | the HTTP surface as `cmd/server` mounts it: API clients and tabs, token and policy checks, on the same tables | `Management`, `WebLogin` |
| `Frontend_proofs` | theorems about the three of them | `Frontend`, `TLAPS` |
| `CliLogin` | the processes of `valisgo-cli` on one machine: `LoginBrowser`, keyring, logout, local proxies | |
| `CliLogin_proofs` | theorems about it | `CliLogin`, `TLAPS` |
| `MC*` | small instances of the above | |

**State.** `packages` and `files` are the tables: `files[a]` is the hash recorded
for artifact `a = <<package, filename>>`, or `None`. `blobs` is the bucket. The
hash of a file is the content itself. For each request, `req` is what the client
sent, `pc` the next call of its handler, `status` its answer. `wrote` is history:
what the request's `storage.Put` did. Sizes, versions, headers and wording are
left out. npm and PyPI keys are file names. A Go key is module, slash, version, and a
version may have slashes of its own (`ParsePath` splits at the last `/@v/`): paths are
sequences of `Segments` and `goBlobKey` concatenates them, so that version `b/v` of
module `a` and version `v` of module `a/b` have one key.

In `Management` a row of `registries` is its ID, name and format, one of
`repositories` the ID of its registry and its name; `nextID` is the sequence the
database takes IDs from; `seen` is the registry row a handler has read. `hit` and
`knew` are history: who met a fault, and what had been acknowledged when a request
came. In `WebLogin`, `jar` is the cookies, and a tab's record is where it is and what
the request on its way carries (`sent` is the copy of the jar from the moment it was
sent). In `CliLogin`, `pc[l]` is where `LoginBrowser` is and `listener[l]` where its
goroutine is; a `callback` is a request of a browser, whose handler is in the state
`sending` while it blocks on a channel; `Senders(l)` are those handlers. A refresh
token is a number; `live` are those the provider accepts, `expired` those that ended on
their own, `spent` says which process used one up, and `lost` are those whose
replacement never arrived.

**Actions.** One action is one call of the database, the bucket or the upstream,
with the control flow up to the next call: handlers interleave exactly at these
calls. A handler's early return is `Answer`, its next call is `Goto`. The HTTP
status is named by its meaning (`created` is 201, for PyPI 200; `error` is 500).

**Faults.** The constant `Faults` selects what the environment may do:
`db` (a statement fails without effect), `dbLost` (an insert commits, its answer
is lost), `put` (copying to the bucket fails at any point, on the side of the bucket
or of the client: nothing, or a torn blob, is committed, because `Put` defers `Close`),
`close` (the commit fails and `Put` drops that error), `get`, `delete`, `upstream` (it
cannot be reached, answers an error, or breaks off in the middle of a body, which leaves
the same torn blob), and `crash` (the process dies with every request in flight; tables
and bucket survive, flights do not). A client that disconnects cancels its request's
context, which the handler sees as one of these.

**Singleflight** is a library, modelled by its contract: the first caller of a
key leads, callers that come before it ends wait, all get its result.
`FlightFails` and `FlightLands` end a flight for everyone in one step.

**Composition.** `Frontend` is the product of `Management` and `WebLogin`: a tab whose token
and policy pass (`Admit`) takes the step `Receive` of a caller in the same moment, and its
answer (`Show`) ends both. `ArtifactRepo` holds the steps the upload and download handlers
are composed of. `VirtualRepo` stands on top of `ProxyDownload` and `MetadataCache` without
including them: a member's download or metadata fetch is one step there. A download has the
outcomes that `ProxyDownload` shows its client (all bytes, some bytes, Go's 404, the empty
200 of npm and PyPI). A metadata fetch returns what the upstream lists, or a cached copy:
one from an earlier time (`former`, `Copies`), or, after a failed save, one that is cut
short (`TornListings`), which npm and PyPI cannot parse and Go reads line by line. Its
requests meet only in the rows, so one request and the rows other clients add (`Publish`,
uploads into proxies of npm and PyPI included) cover any number of them. A file stands for
one version of one package. `sent` is what the client has received, piece by piece, each
with the member it is from; `docs` are the listings an index request has collected. npm and
Go merge a listing into `index` when they receive it, PyPI merges all of them when it has
asked the last member, as the code does (`mergeMetadata`, `deduplicateFiles`). An npm
document has tags of its own: the row last returned is a local member's `latest`, an
upstream tags what it likes. `order` is any order of the members that `ORDER BY priority
DESC` may return. A virtual repository without members is left out: it answers 404 at once.

## 3. What the runs check

| run | instance | shows |
|---|---|---|
| `hosted_races` | 3 uploads, 2 contents, 2 packages sharing a file name, 1 download, no fault | `FailureHasCause`: a 500 means a rival of the same file won the insert; `DownloadExplained`: 404 only before the first acknowledged upload, other bytes or a 500 only with a culprit: an upload of the file that was not acknowledged, or another package's file of that name |
| `hosted_faults` | 3 uploads of one file, 1 download, every fault | `AtMostOneCreated`, `LossIsReported`, `SettledIsImmutable` (of files that share their key with no other package's: `OwnsKey`), and refinement of `WriteOnce` |
| `hosted_rollback` | 2 uploads of one file, no fault | **violated**: the rollback deletes the winner's blob |
| `go_upload` | 3 uploads over 3 versions of 2 modules, two of which share a version and two a key, every fault | `AtMostOneCreated`, `LossIsExplained` (no damage across modules that share a version, and by other paths only through a common key), `RecordedHasBlob` |
| `npm_publish` | 2 publishes of up to 2 attachments, 2 packages sharing a file name, every fault | `AcknowledgedIsRecorded`, `PublishedOnceIsSafe` |
| `proxy_faults` | PyPI, 3 requests, downloads or uploads, naming 2 packages and 2 contents, every fault | `RowsAreIntact`, `OneRowPerName`, `NoNilRow` |
| `proxy_live` | Go, 3 downloads of 2 versions that lead to one key, the upstream may fail, break off and change | `NoNilRow`, `AllReceiveTheSame`, `EveryDownloadIsAnswered` |
| `metadata_cache` | 2 slots for requests that are used again and again, 3 versions upstream, every fault until they cease | `RegressesOnlyWhenRaced`, `Converges`, `EveryRequestIsAnswered` |
| `virtual_repo` | 1 request, 2 files, a local member and two proxies (one shares the local member's priority), every format, every content of the upstreams, stale and cut copies, 2 dist-tags, every fault | `FirstHolderServes`, `OneMemberAnswers`, `IndexFollowsPriority`, `TagsFollowPriority` |
| `virtual_seed` | the local member and the proxy of `cmd/seed`, no fault | **violated**: the index prefers the proxy |
| `frontend` | 3 API clients, or 2 tabs, or a tab among 2 clients; 2 names of registries, 1 repository, formats with and without a handler, IDs that clients choose, 2 logins, every fault | `OneCreator`; `AcknowledgedIsUsable`: what was acknowledged before a request came is found by it; `FailureHasRival`: a 500 without a fault has another creator; `ReturnsToOwnPage`, `LoginFailureExplained` |
| `cli_login` | 2 logins, 2 callbacks, 2 proxies (2 processes in all), 1 request at a time, 2 refresh tokens, a provider that rotates; lost answers, expiry and revocation, a proxy whose server fails | `SavedIsOwn`, `RejectedHasRival`, `LoginEnds` |

The type invariants carry the facts about control that types do not: a download that
waits has a flight to wait for, a handler that uses a registry has read it from a
table it is still in, a tab is in the server exactly while it waits, the port belongs
to the login that serves.

**Bounds.** `Uploads`, `Downloads` and `Requests` bound how many requests exist (in
`MetadataCache`: exist at the same time); `MaxVersion` bounds how often the
upstream index changes. A race over one file needs a winner and a loser; the third
upload is the one that comes after, or damages what the loser left. Two packages
that share a name and one that does not are all the ways keys can coincide; for Go, two
modules that share a version, and two paths that meet in one key.
Two contents tell "mine" from "not mine". In `MetadataCache` two writers in flight
suffice to reorder, and three versions let a stale write land between two newer
ones. In `VirtualRepo` three members are first, middle and last, in every order that
their priorities admit, with the local one before or after a proxy; two files let
one version come from one member and the other from another, and three rows (`MaxRows`; two in
`virtual_seed`) are one each for two members and one that is there before or comes late.
`Pasts` are the listings that copies may be of: the run has one in which the upstreams
held a file each, against every present, so that a copy has more, less or something else.
In `Frontend` a name
needs two creators and a third request that depends on them; a login needs a rival in
the other tab; what a login does to API clients, and they to it, needs one of each
(`Crowds` lists these, and the theorems hold for every crowd). Repositories have one
name because registries with two names already tell rows apart. In `CliLogin` two logins
compete, and two callbacks are the least that leave a handler behind; two processes
share a token, and the second of two tokens is the one a rotation gives. `proxy_faults` is
of PyPI, whose uploads check and roll back, and `proxy_live` of Go; npm, and Go under the
other faults, are covered by the theorems. `Uploads` and `Contents` are
symmetric sets: no action tells their members apart. Runs with liveness use no symmetry. The hosted, npm, Go upload and virtual models end
when all requests are answered; `AllAnswered` stutters there, so any other state
without a successor is a deadlock that TLC reports.

**Fairness.** `ProxyDownload` and `MetadataCache` assume weak fairness of each
request's own steps: the Go runtime schedules every goroutine, and every database
and bucket call returns. For the upstream it is an assumption about the
environment, because `http.DefaultClient` has no timeout: one that accepts a
connection and stays silent keeps a flight open for ever. `Converges` also
assumes that clients keep asking (only a request starts a revalidation) and that
failures cease (`CalmDown`); the bound on versions makes the upstream rest.
`CliLogin` assumes weak fairness of `LoginStep(l)`: the goroutines of a login run, and
a provider that was asked for a token answers or fails. Users may do nothing for ever (no browser may open, no tab
may come back) and so may the server behind the proxy. `LoginEnds` therefore begins at
a login that has something to receive, and it names the one case in which such a
login does not end.

**Findings.**

1. `hosted_rollback`: two uploads of one file pass the check; one inserts its row
   and is acknowledged; the insert of the other fails, and its "Best effort
   rollback" (`internal/registry/pypi/upload.go:68`, likewise
   `internal/registry/file/handler.go:180`) deletes the blob the winner's row
   points to. The file cannot be downloaded any more, and a new upload is answered 409.
   The properties of the other hosted runs are stated so that they hold in spite of
   it: a damaged file always has an upload to blame, one that was not (or not yet)
   acknowledged, one whose commit failed unseen, or one of another package's file of
   the same name, which shares the key and may well have been acknowledged.
2. `virtual_seed`: `cmd/seed/main.go:73` calls priority 1 "Local repo first", but the
   store walks the members by `priority desc`
   (`internal/store/repository_store.go:37`): the proxy, priority 2, comes first, and
   its files shadow the local ones of the same name.

`FirstHolderServes` names two more things to know about virtual repositories of npm
and PyPI: a proxy that comes first ends the search for clients that do not carry the
query of an index page (400), and for those whose upstream fails (an empty 200). A member
that fails is not promised to serve, but it excuses nobody else, unless the search ended at
it or it broke off while it was sending. `OneMemberAnswers` shows that only a Go proxy can
leave a body mixed.

**What else the properties say about the code.** Nothing in the repository promises
otherwise, so these are no findings; they are the exceptions that properties name.

* A revalidation compares upstream's answer with what its request had read, and a slow
  one overwrites a newer index (`internal/proxy/proxy.go:81-83`):
  `RegressesOnlyWhenRaced` says that nothing else takes the cache back.
* Two Go paths may meet in one key, since a version may hold slashes; the comment of
  `goBlobKey` (`internal/registry/golang/util.go:42-44`) speaks only of modules that share
  a version, and `SharedVersionOwnKey` proves what it says. `LossIsExplained`,
  `RowsAreIntact` and `NoNilRow` name the other case.
* An upload into an npm or PyPI proxy does not join the flight of its file: it can
  overwrite what a download records, and add a second row for the name. It is the
  `Intruder` of `RowsAreIntact`.
* A copy of a Go version list that was cut short is served as it is, and its last line
  may be half a version (`internal/registry/golang/metadata.go:86-94`):
  `IndexFollowsPriority` excepts it.
* An npm publish is answered 201 even if attachments could not be stored
  (`AcknowledgedIsRecorded` has the fault as an excuse, and bites only where there is
  none), and a second publish of a version overwrites the blob of the first
  (`PublishedOnceIsSafe` speaks of files that one publish carries).
* A package manager's request for an unknown registry is answered 500, not 404:
  `GetByName` returns nil without an error and the middleware reads its ID
  (`internal/server/registries/api.go:76`). `AcknowledgedIsUsable` says that this never
  happens to a registry that was acknowledged.
* The loser of two creations that both found nothing is answered 500, not 409, and a
  body may bring an ID that the sequence hands out later, so that an insert of a free
  name fails (`internal/server/management/api.go:118`): both are in `FailureHasRival`.
* A format without a handler is stored and refused only when it is used (501).
* Two logins in one browser overwrite each other's cookies: the first one fails with a
  state mismatch, and never ends on the other's page. A provider that sends no
  `id_token` leaves an opaque access token in the cookie, and the page redirects to
  the login again, without end (`internal/server/authapi/api.go:102`).
* The error of the `AddPolicy` at start-up is ignored (`internal/server/casbin.go`):
  without that policy everything is forbidden.
* A second callback to a CLI login leaves a handler that sends to nobody, and the
  deferred `Shutdown`, which has no deadline, waits for it for ever
  (`internal/auth/auth.go:102-111`).
* A refresh token that a provider rotates is not written back to the keyring
  (`cmd/cli/cmd/proxy.go:57`): the next proxy that reads the keyring is rejected. If the
  answer to the refresh is lost, the process itself is, from then on: it still holds the
  token it used up.
* A local proxy whose server fails ends without a shutdown and cuts what is in progress
  (`cmd/cli/proxy/proxy.go:75-77`).
* The generated API client of the CLI sends no token (`cmd/cli/cmd/root.go:82-84`).

## 4. What is proved

All theorems hold for every value of the constants: any number of requests, names,
contents, tabs, logins and processes, and every set of faults.

| module | theorems |
|---|---|
| `HostedUpload_proofs` | `TypeCorrect`, `AtMostOneCreatedHolds`, `LossIsReportedHolds`, `FailureHasCauseHolds`, `DownloadExplainedHolds`, the action property `SettledIsImmutableHolds`, and `HostedImplementsWriteOnce`: the handlers of file and PyPI implement `WriteOnce` |
| `GoUpload_proofs` | `GoTypeCorrect`, `GoAtMostOneCreated`, `GoLossIsExplained`, `GoRecordedHasBlob`, from `GoInvariant` |
| `NpmPublish_proofs` | `NpmTypeCorrect`, `NpmAcknowledgedIsRecorded`, `NpmPublishedOnceIsSafe`, from `NpmInvariant` |
| `ProxyDownload_proofs` | `ProxyTypeCorrect`, `ProxyRowsAreIntact`, `ProxyOneRowPerName`, `ProxyNoNilRow`, `ProxyAllReceiveTheSame`, from `ProxyInvariant` |
| `MetadataCache_proofs` | `CacheTypeCorrect` and the action property `CacheRegressesOnlyWhenRaced`, from `CacheInvariant` |
| `VirtualRepo_proofs` | `VirtualTypeCorrect`, `VirtualFirstHolderServes`, `VirtualOneMemberAnswers`, `VirtualIndexFollowsPriority`, `VirtualTagsFollowPriority`, from `VirtualInvariant` |
| `Frontend_proofs` | about `Management`: `ManagementTypeCorrect`, `ManagementOneCreator`, `ManagementAcknowledgedIsUsable`, `ManagementFailureHasRival`, on `TablesInvariant`; about `WebLogin`: `WebTypeCorrect`, `LoginReturnsToOwnPage`, `WebLoginFailureExplained`, from `WebInvariant`; about `Frontend`: `FrontendImplementsManagement`, `FrontendImplementsWebLogin`, `FrontendTypeCorrect`, and with them every property of the two components for the whole server |
| `CliLogin_proofs` | `CliTypeCorrect`, `CliSavedIsOwn`, `CliRejectedHasRival`, from `CliInvariant` |

**Hosted uploads.** `AtMostOneCreated` is not inductive: it does not say why the second
insert fails. `UniqueWinner` does: an upload whose insert succeeded (about to reply,
or answered) finds its own content recorded, and no two such uploads share a
file. It is preserved because an insert needs the row to be missing and no
step removes one. `LossIsReported` needs to know what an upload that is about to
insert finds in the bucket. `PendingExplained` says it: its own content, unless
the bucket lost it, a rival recorded the file already, or a culprit wrote the blob
since. A `Culprit` is sought among all uploads with the key, so that both hold for files
that share it; only `SettledIsImmutable` needs a file to own its key. `WroteAfterPut` ties the
history to the handler's position. `IInv` is the conjunction of all these; its
preservation has one step per action, and the theorems follow from it. The
refinement (mapping in `HostedUpload`: `recorded <- files`, `outcome <- status`, an offer
is a request) maps the successful (or ambiguous) insert to `Write`, replies to
`Created`, `Conflict`, `Reject` or `Fail`, and everything else to a stutter; that a
`created` reply is a legal step of the register is again `UniqueWinner`.

`FailureHasCause` needs an invariant of its own, `FailureExplained`, for runs without
faults: every row has the upload that won it (its insert succeeded), whoever is about to
roll back, or was told 500, found the row of its own file, and whoever looks its package up
a second time finds it, since the insert that failed says that a rival's is there.
`DownloadExplained` is carried by `DownloadFacts`, one conjunct for each place a download
can be at: one that knew of an acknowledged upload finds a row of that name, the row it
holds stays where it is (no step removes one), and what it found under the row's key is
compared with the row at that moment. A difference makes an upload a culprit by
`LossIsReported`, and `CulpritOfRowStays` says that it remains one.

**Go uploads.** The invariant `GoInv` has the same parts without a rollback to excuse: a
rival that overwrote a pending blob is always a culprit. That one whose path differs is of
another version is `SharedVersionOwnKey`: a key is the module's path followed by the
version's, and equal tails of equal sequences leave equal heads. `WrittenStays` (what an
upload wrote is there or was overwritten, because this handler deletes nothing) and
`RowsHaveWriters` (a row has an upload that went through `Put`) give `RecordedHasBlob`.

**npm publishes.** `AttachmentsSettle` follows the loop: an attachment gets its fate when the
loop comes to it, and each fate has its reason (a row, a garbled body, a fault), so that a
publish which ended with 201 has none left to do. `AcknowledgedIsRecorded` follows from it.
`SolePublishIsSafe` says of files that are not recorded yet what `PublishedOnceIsSafe` says
of those that are: the sole publish finds in the bucket what it wrote there. It holds since
only a publish that carries the file writes its key; `RowsHaveCarriers` supplies the publish
that a row is from.

**Proxied downloads.** `LeadersAlone`: who is inside a flight leads the flight of its key,
so there is one for each key. `NothingYet`: past the look-up inside the flight, no row of
the file exists, unless that look-up failed (`blind`) or somebody writes the key outside of
the file's flights (`Excused`: an upload of npm or PyPI, or a Go download of another version
with the same key; whoever became such an `Intruder` remains one). But for those only the
leader of the key inserts a row. `Pending`: what a leader is about to record is what the
bucket holds, with the same exceptions. `RowsWait`: a download that returns to storage finds
a row, because a flight that lands has one, unless the flight was that of another Go version
(`Misled`); this is `NoNilRow`. `RowsAreIntact` and `OneRowPerName` follow. That everybody
receives the same bytes when only the upstream fails (`Benign`), breaking off in the middle
included, needs two things besides: no look-up was blind and no commit was lost
(`NothingHidden`), and a client that got a part of a file got it from the stream of its own
flight and never from storage (`Received`).

**Metadata cache.** `WritersAreFresh`: a writer, be it the flight or a revalidation, that
nobody has overtaken since it fetched holds nothing older than the cache. A fetch
establishes it because the cache is never ahead of upstream (`NothingIsNewer`), and a write
makes all other writers `raced`. A write that takes the cache back is therefore one of a
raced writer.

**Virtual repositories.** The invariant has two halves, each about one request. *Downloads*
(`SearchFacts`): a member that a search has left behind had nothing or failed itself,
unless a member before it broke off while it was sending (`PassedHadNothing`, `BrokeOff`),
and a client that still waits has received nothing, unless that was a Go proxy
(`BytesExplained`). Each step of a member ends the search or moves it to the next
one; what it may do is stated once (`SearchMove`), and one lemma per step shows that it does
no more. `OrderOfMembers` gives that a search which has no member left has asked them all:
an order of finitely many members without repetitions names each of them, by cardinality.
*Index pages* (`IndexFacts`): the listings are of members left behind, in their order
(`ListingsAreReal`: of what a member has or a copy of it had, unless a Go proxy's copy was cut
short); what a member left behind had when it was asked, or a proxy has in every copy
(`HadFiles`), is among them, or that member failed (`PassedAreListed`); `index` is what
merging these listings gives (`IndexIsMerged`), each tag that of the first listing which has
it (`FirstTag`). The
last needs that npm's merge of one more listing is PyPI's deduplication of the longer
sequence (`TakesMerges`, on `DeduplicatedAppend`). What a deduplicated index lists, and that
it lists nothing twice, are lemmas about every sequence of listings (`DeduplicatedCovers`,
`DeduplicatedOnce`). They need that a file that is listed has a first listing, which would be
an induction over the sequence; the invariant carries it along (`HasFirsts`), one listing at
a time.

**Management.** `TablesInv`: names and IDs of registries are unique, every row has a
request that inserted it (`RowsHaveWriters`), whoever was told "created" has its row, and
`OnTrack` ties each statement to the handlers that contain it. `OneCreator` then follows
from the row of the first creator: it is there, rows are never removed, and the index
refuses the second. For `AcknowledgedIsUsable` the request's own look-ups are followed: what
it knew when it came is in the tables, and stays there.

**Web login.** `JarIsPaired`: the page in the jar belongs to the login whose state is in it,
because both arrive and go together; `SentIsPaired` says it of the copy that a callback
carries, `StatesDiffer` that no two logins share a state. A callback whose state is right
therefore brings the right page. `Undisturbed`: a tab at the provider that no other login
and no expiry has disturbed finds its own state.

**The whole server.** `Frontend` implements each component alone, with the identity as the
mapping: a step of the other component is a stutter. The components' theorems then hold
for `Frontend` without another invariant. Only its type invariant needs one
(`PageIsFetched`): the request a tab waits for is a read of its page.

**CLI.** `TokenIsOwn`: a login that has a token heard the code of its own tab; that is what
the comparison of the states gives, whoever's listener has the port. `SavedIsOwn` follows,
as the keyring is only filled by `Finish`. `SpentIsKnown`: a token that is no longer
accepted ended on its own (`expired`) or was used up by a process, and that only with
rotation; `ProcessesDiffer`: every process has a number of its own and holds what it used up
only if the answer was lost (`lost`), since it keeps what a refresh gives it. Whoever is
rejected therefore holds what expired, what somebody else used up, or what it used up itself
without hearing of the next.

**Assumptions.** Those of the modules: the values that stand for "nothing" or for damaged
data (`None`, `Torn`, `Absent`, `Garbled`) are not values of anything else, artifacts are
pairs of a package and a file name (for Go, both paths: `PathsAssumption`), `Faults` names
only known faults, callers are clients or tabs but not both, pages are reads, and a virtual
repository has members, finitely many of them. TLC evaluates them in the runs. Bounds that are numbers (`MaxVersion`, `MaxLogins`,
those of `CliLogin`) may be any; no other set is taken to be finite.

**Model-checked only.** Every invariant that a passing run checks is proved, and so is every
action property and refinement. Liveness stays with TLC (`EveryDownloadIsAnswered`,
`EveryRequestIsAnswered`, `Converges` and `LoginEnds`): TLAPS does not reason
about fairness and ENABLED here. So do the violations that `hosted_rollback` and
`virtual_seed` find. No module declares a RECURSIVE operator, and none folds: what the code's
merging loops compute is written as the set they end with, and that the loop of npm ends
with the set of PyPI is `TakesMerges`.

## 5. What is left out, and why

* A hash is its content: no collisions. Sizes, versions, media types, headers and
  log lines. `ContentLength` -1 (`internal/proxy/proxy.go:131`) is therefore a
  hazard that no property covers.
* An npm publish of several attachments into a proxy is several uploads there, with an
  answer each; the loop itself is `NpmPublish`. The extensions of Go files are part of their
  versions, and `.mod` alone is told apart (`ModFiles`), where the code does.
* An upstream that accepts a connection and stays silent: fairness assumes it away, as said
  above.
* One repository, one metadata key: keys begin with the repository's number and do
  not interact across repositories.
* The verification of tokens, Casbin's matcher, the OIDC provider, browsers and the
  keyring are external: a token is good, opaque or expired, a policy is there or not,
  the provider hands out tokens and may rotate them.
* The workload-identity token sources (`internal/auth`) and a proxy with a static token
  (`VALISGO_TOKEN`) have no state.
* The simple index of all PyPI packages and the index pages of a single repository are
  read-only lists; path parsing and templates of the browse pages decide only wording.
* The CLI's commands, its printers and the generated client: one request each, no
  state. Configuration, migrations and the rest of `cmd/seed`: none either.

## 6. Plan

Done: every component with state of its own, as Section 2 lists it, and proofs of all
safety properties that the runs check. What is left, in this order:

1. `WriteOnce` for the other publishers: what `GoUpload` and `NpmPublish` implement of it
   (a Go upload checks nothing before its insert, an npm publish writes several registers),
   and the register's own properties proved from its specification.
2. An abstract specification for `VirtualRepo`, the answer of the first member that has
   the file, and its refinement.
3. The simple index of all packages (`handleSimpleIndex`) and the pages of single
   repositories with their error answers.

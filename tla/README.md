# TrustMCP: TLA+ models and proofs

TrustMCP lets a vendor publish its security evidence (artifacts, attestations,
a mark that says "agent-ready") and lets buyers and their agents read it with
scoped keys. The program has two parts that keep state:

- the **network API** (`src/apps/network/app`, Python, FastAPI and SQLAlchemy on
  PostgreSQL), which is where the trust decisions are made;
- the **web application** (`src/apps/web`, TypeScript, Next.js and Prisma), with
  teams, accounts, scans and migrations of its own, which calls the network API
  through the TypeScript client (`src/packages/trustmcp-sdk`) from the owner's
  console and the public trust center.

Everything else (command line, MCP servers, conformance runner, docs) is a client.

This directory holds models of both, the TLC runs that check them on small
instances, and TLAPS proofs that all but one of the safety properties hold on every
instance.

## What makes this code hard

One fact decides almost everything: **no row is locked and none carries a
version.** A FastAPI endpoint that is not `async` runs in a thread; `db.py:42-63`
gives every call a session with `autoflush` and `expire_on_commit` off, on
PostgreSQL's READ COMMITTED. So

- a call decides on the rows it *loaded*, whatever was committed since;
- its commit writes *the columns whose value it changed*, and no other;
- a column assigned the value it was loaded with is not written at all;
- an update of a row that was deleted meanwhile matches nothing, and the whole
  commit is rolled back;
- `audit` and `record_change` commit too, so most endpoints are several
  transactions, and the process may stop between any two.

Calls to the outside (CRM, DNS, webhook deliveries, Drive) stand between the load
and the commit and stretch the window to seconds. Background tasks run after the
answer, in the same process's memory, and are gone when it stops.

The web application adds two facts. Its server actions are **sequences of Prisma
statements with no transaction around them**, each its own, so an action may stop
between any two; and a **page is a snapshot**: buttons and forms act on what was
true when it was rendered, forms replace whole lists, and long work (a scan, a
migration) runs detached from the request that began it.

Each model therefore has **one record per call in flight**, holding what that call
loaded, **one action per transaction** (or per outside call) of an endpoint, and, in
the web's models, **one record per browser tab** holding what it shows.

## Inventory

Sources are under `src/apps/network/app` unless they say `web:` for
`src/apps/web/src`.

| Component | State | Operations | Interacts with | Hard behaviour | What makes it correct |
|---|---|---|---|---|---|
| **Access keys** (`routers/keys.py`, `manage.py:1619-1729`, `public.py:285-331`, `security.py`, `read.py`, `storage.py`) | `key_requests`, `access_keys`, `audit_log` | request access (with or without a contract), automatic release, approve, deny, revoke, reclaim by e-mail, authenticate, read an artifact | CRM, mail, artifact storage | an owner decides while the intake waits for the CRM; two approvals; reads in flight past revocation or expiry; reclaim after revocation | a decision is made once; every key goes back to a request, its list and its NDA; reads stop at the cut; every read is logged |
| **Agent-ready mark** (`manage.py:1109-1202, 1508-1544`, `services.py:44-62`, `verification.py`) | `vendors.mark_status`, `vendors.domains`, `domain_verifications` | add, verify, remove a domain; revoke and reinstate the mark; update the profile | DNS, `.well-known` | a lookup between load and commit; a recomputed value that equals the loaded one is not written; duplicate rows | the mark is there if and only if a domain is verified, unless revoked; a verified domain was proven; a revocation is sticky |
| **Change feed** (`oscal/feed.py`, `routers/oscal.py`) | `oscal_changes` | record a change; poll; stream | every management endpoint, polling and streaming consumers | numbers without a lock; two SELECTs per poll; filter after the cut; dropped connections; a stop between change and record | numbers gapless and in order; no consumer passes over a change |
| **Change subscriptions** (`feed.py:260-315`, `routers/oscal.py:201-370`, `webhooks.py`) | `oscal_subscriptions`, tasks in memory | subscribe, unsubscribe, fan out, deliver, suspend | access keys, subscribers' endpoints | tasks overlap, fail, are lost; rows deleted while a task posts; keys cut | suspension only for failures; cursor only for what was heard; a failing endpoint hinders no other; a cut key ends delivery |
| **Artifacts and versions** (`manage.py:500-665`) | `artifacts`, `artifact_versions`, stored blobs | create, upload, update, delete | feed, freshness, reads | two uploads archive one version and write one storage key | history complete, one version per number, blob and hash agree |
| **Drive sync** (`drive_sync.py`, `routers/drive.py`, `drive_rules.py`) | `drive_connections`, `drive_files`, artifacts | connect, set folder, discover, decide, publish, scheduled sync, disconnect | Google Drive, artifacts, feed | the owner decides while a sync publishes; content changes between listing and download; two publications of one file | only what the owner included is published; one artifact per file; the newest content gets published |
| **Agreements and e-signature** (`public.py:220-239, 336-393`, `manage.py:1055-1081`, `esign.py`, `routers/esign.py`) | `agreements` | submit, send an envelope, receive events | DocuSign | events late, twice, before the envelope id is stored | a terminal status stays; an event for an envelope sent is not lost |
| **Branding and custom domains** (`manage.py:340-420, 1212-1500`, `provision_certs.py`, `domain_connect.py`; `web: components/custom-domain-panel.tsx`) | a JSON column of `vendors` | save the form, upload logos, set, verify, configure, remove a domain; the certificate job | DNS, the edge, Render's API, the panel in a tab | every writer rewrites the whole column it loaded; answers that come after the panel has moved on | only a proven host is served; none comes or goes by itself; a verified one goes live |
| **Freshness and expiry notices** (`services.py:189-217`, `notify_expiring.py`) | `artifacts.expiry_notified_at` | the daily job | mail | a stop between mail and mark | nobody is left out, at most one notice too many |
| **Updates, subscribers, ask** (`manage.py:945-1035`, `public.py:242-281`) | `updates`, `subscribers` | replace updates, subscribe | mail | replacing a list while notifying | each new update is announced once |
| **Rate limiter** (`ratelimit.py`) | counters in memory | hit | every public endpoint | fixed windows, one per process | the limit, around the boundary |
| **OSCAL documents** (`oscal/*.py` but the feed) | none | build, parse, validate | all evidence | data transformation | the documents' shape |
| **Teams** (`web: lib/team.ts`, `lib/roles.ts`) | `Membership`, `Invitation`, `Organization` | invite, accept, revoke, remove, change role, join by domain | sign-in | count then delete | a team keeps an owner; an invitation is used once |
| **Accounts** (`web: lib/account.ts`) | `User`, `Account` and what they own | merge, delete, unlink a provider | teams, sign-in | statements without a transaction | nothing is lost or owned twice; one way to sign in is left |
| **Scans** (`web: lib/mcp-audit`, `app/(app)/audit/actions.ts`) | `McpAuditScan`, credentials, clauses | start, run, rescan, ask, publish, delete | the audited server, an LLM | runs detached from requests; two runs of one scan; a publication in two steps | a scan ends; what is shown of a finished one is whole; only safe tools are called |
| **Migration** (`web: lib/migration.ts`, `browserbase.ts`, `ai-labeler.ts`, `components/migration-panel.tsx`) | `TrustCenterMigration` and what it imports | start, request phase, resume, import phase, retry, delete | browser sessions kept by a service, network API | phases detached from requests; retry after a partial failure; buttons on an old page | a completed migration accounts for every item; the row tells the truth; sessions are closed |
| **SDK client** (`packages/trustmcp-sdk`) | none | one method per endpoint | network API | a lost answer looks like a lost request | the right credential for each method |
| **Owner's console** (`web: app/(app)/tc/[vendorId]`, `components/*-editor.tsx`, `*-picker.tsx`, `form-guard.tsx`) | the page of each tab | open, edit, save, import, autofill, artifacts, settings | network API | forms rendered long ago replace whole lists; read, merge, write; several calls of which one fails | what the owner knows and what the owner types stays |
| **Public trust center, Requests page** (`web: components/trust`, `app/(public)/trust/[vendorId]`, `tc/[vendorId]/requests`) | the visitor's page, keys on their way | ask, subscribe, request, reclaim, approve, deny | network API, mail | a key is shown once; answers to a modal that was closed | a key reaches whoever asked, and opens no more than was asked for |

## Modules

| Module | What it is |
|---|---|
| `AccessKeys` | requests, keys, decisions, reclaim and reads |
| `AgentReadyMark` | domains, their verification, and the mark |
| `AbstractFeed` | what a change feed promises: every consumer receives the one sequence, in order, to its end |
| `ChangeFeed` | the log, its writers, streams and pollers; its stream is shown to implement `AbstractFeed` |
| `ChangeSubscriptions` | webhook subscriptions and the fan-out tasks |
| `DriveSync` | a linked Drive folder: rows, decisions, syncs, publications, version histories, hand uploads |
| `Roles` | the roles of a workspace, their rights and ranks |
| `Workspace` | members, invitations, joining by domain, accounts and their providers, trust centers; EXTENDS `Roles` |
| `CustomDomain` | the branding column, its handlers, the certificate job, the panel |
| `Migrations` | a migration's row, phases, browser sessions and what they copy |
| `Scorecard` | which tools are probed, and what a scan's scores are made of |
| `Scans` | a scan's row, runs, questions and publication; EXTENDS `Scorecard` |
| `Sdk` | the client's methods, and the network's artifacts as they change them |
| `Console` | the owner's pages and their actions; EXTENDS `Sdk` |
| `AccessDesk` | requests and keys between the visitor's page and the Requests page; EXTENDS `Console` |
| `TrustCenterPages` | the console, the Requests page and the public page on one trust center, composed |
| `MC<X>` | values for the constants of `X` |
| `<X>Proofs` | theorems about `X`, checked by TLAPS |
| `ChangeLogProofs`, `VendorDomainProofs` | theorems about `ChangeFeed` and `ChangeSubscriptions`; about `CustomDomain` and `AgentReadyMark` |

The components meet in three places. `ChangeFeed` and `ChangeSubscriptions` share
the log: the first models how numbers are taken and read, the second takes the
numbering for granted and models what is pushed. `ChangeSubscriptions` knows keys
only as live or cut (`CutKey` stands for `AccessKeys`' `Revoke` and expiry). The
mark is independent of the keys. `DriveSync` is a writer of the log: its publications
and uploads are `Change`s there. The web's pages meet in a fourth: `TrustCenterPages`
composes the console, the reviewers and the visitors over one set of lists, artifacts,
requests and keys. What the network does with one of their calls is a single step
there; its interleavings are `AccessKeys`'. The operators before each definition that a
comment calls a *mutant* are changed copies of it, the kind of slip the property
named in PROJECT.json is there to catch; no model uses them.

### AccessKeys

| Code | Model |
|---|---|
| a row of `key_requests` | `requests[r]`: status, form (contact, list, evidence), key, auto |
| a row of `access_keys` | `keys[k]`; `origin`, `how`, `revokedAt` are history |
| `_handle_request` | `FileRequest` (NDA gate, first commit), then `AutoGrant` (CRM and agent answers, mint, second commit) or `LeavePending` (no rule applied, or the process stopped) |
| `auto_release_reason`, `recommend` | `AutoReleaseReason`, `Recommend`: the weights of the code; the CRM's answer is free, and free again when the agent asks a second time |
| `approve_key_request` | `LoadApproval` (404, 409), `CommitApproval` (inherited or own list, mint, grant) |
| `deny_key_request` | `LoadDenial` (no status check, as in the code), `CommitDenial` (no write if it was denied already) |
| `revoke_key` | `Revoke` |
| `reclaim_access` | `LoadReclaim` (newest granted request of the contact), `CommitReclaim` |
| `authenticate_key`, `require_scope`, `get_artifact`, `_artifact_link` | `Authenticate`, `TouchKey`, `LogRead`, `SignUrl`; `Refuse` for every 403, 404, 409 |
| `verify_local` | `ExpireUrl` |

Abstracted: a vendor's settings do not change during a behaviour; every key lives
`KeyTtl` (the owner may shorten it on approval); e-mail addresses are compared as
values, not case-folded; one vendor, published; webhook notices and mails; scopes
other than the artifact list. The route for an old version's content signs its URL
before it logs the read; `EveryReadIsLogged` is about the main route.

### AgentReadyMark

A call enters (`Enter`: `require_owner` or `db.get` loads the vendor's columns),
looks (`StartVerify`, `FindChallenge`), decides and commits. `CommitVendor` and
`Written` are the session's rule: a column is written if its value differs from
the one *loaded*. `remove_domain` flushes before it recomputes, so from
`FlushRemove` to `CommitRemove` it holds PostgreSQL's lock on the rows it wrote;
`VendorHeld` and `RowHeld` make others wait for them. `Publish` and `Withdraw` are
the vendor's doing, outside the program. `proven` is history: rows whose challenge
a lookup found.

### ChangeFeed

`Change` is the first commit of a management call, `Number` and `AppendChange` are
the SELECT and the INSERT of `record_change`, `Crash` the stop in between.
`StreamTick` is one turn of `stream_events`, `ReceiveFrame` the client's, and
`Reconnect` a lost connection resumed with `Last-Event-ID`; `pending` is what TCP
still carries. `StartPoll` and `FinishPoll` are the two SELECTs of `changes_since`.
A page of rows with equal numbers is cut anywhere, since `ORDER BY sequence` says
no more. `raced` and a row's `late` are history: a row is `Undisturbed` unless an
overlapping call made it so, by committing a higher number before it or the same one.
`prune` has no caller and is left out.

### ChangeSubscriptions

`Record` is an endpoint that records a change and schedules nothing,
`RecordImport` and `RecordDrive` are those that schedule a task, for the number they
recorded or for the newest there is when the task starts. `StartFanOut` loads the
active subscriptions, `DeliverOk` and `DeliverFails` stand for up to three attempts,
`CommitFanOut` is the one commit at the end, `FailFanOut` the same commit when a row
was deleted, `LoseTask` the process's end. `OpenSubscription` and
`CommitSubscription` are the read of the cursor and the INSERT.

### DriveSync

A row and an artifact are numbered per Drive file, so artifact `<<f, i>>` has f for
its `source_ref`. A file's content is its revision number; 0 is what was uploaded by
hand. `begun`, `approved`, `contended` and a call's `failed` and `overtaken` are
history or bounds.

| Code | Model |
|---|---|
| `sync_now`, `sync_due_connections`, `sync` | `ListFolder` (the connection is loaded, the folder listed), `discover`, `publish` for each file, `EndSync` |
| `discover` | `LoadRows`, `CommitDiscover`, or `FailDiscover` if the folder was unlinked in between |
| `classify` and the decision on a new row | `Verdict`, `FirstDecision` |
| `decide_file` | `LoadDecision`, then `CommitExclude`, or `CommitInclude` and `publish`; `decide_many` is `CommitExclude` for each of its files |
| `publish` | `Download` or `FailDownload`; `PutContent` (which artifact, which key, the storage written); `CommitPublish` (archive, new version, the row), or `FailPublish` when a row it updates is gone |
| `upload_artifact_content` | `LoadUpload`, `CommitUpload` |
| `connect`, `update_connection`, `disconnect`, `delete_artifact` | `Connect`, `UpdateConnection`, `Disconnect`, `DeleteArtifact`, one transaction each |

The storage is outside the transaction: `PutContent` writes `blobs` at once, and stays
if the commit fails. What a row remembers as published is the revision the sync was
*told of*, while the bytes are of the revision Drive had at the download; only if the
first is never ahead of the second does the next sync put things right
(`SyncCatchesUp`).

Abstracted: the rules do not change during a behaviour; one connection per vendor, as
`connect` and `_get_connection` have it; `missing_since`, proposals, presentation
settings, connection status and sync mode, which no decision here reads; loading the
connection and listing the folder are one step, and so are loading the artifact and
writing the storage: what happens in either gap overlaps the call in the model too. A
hand upload's key has a random suffix, so its bytes are its own.

### Workspace

An action is one statement that writes, with the reads since the statement before it;
`Begin…` actions are the reads at a server action's start. `Stop` ends a call between
two statements, `Throws` is a statement that finds its row gone or breaks a constraint.
`raced` is history: another call has written since this one began.

| Code | Model |
|---|---|
| `removeMember`, `changeMemberRole` (`team.ts:148-164`) | `BeginRemove`, `Remove`; `BeginChange`, `Change` |
| `createInvitation`, `acceptInvitation`, `revokeInvitation` | `BeginInvite`, `Supersede`, `Send`; `BeginAccept`, `Admit`, `Settle`; `BeginRevoke`; `Expire` |
| `addAllowedDomain`, `removeAllowedDomain`, `setDomainJoinRole`, `autoJoinByDomain` | `BeginDomain`, `WriteDomains`; `BeginJoinRole`, `WriteJoinRole`; `BeginSignIn`, `Join`, `JoinFails` |
| `activeOrg`, `createTrustCenter` | `BeginVisit`, `Found`; `BeginCreate`, `CreateVendor`, `CreateRow` |
| `unlinkProvider`, `deleteAccount`, `mergeAccounts` (`account.ts`) | `BeginUnlink`, `Unlink`; `BeginDelete`, `Delete` (with the schema's cascade); `BeginMerge` and one `Merge…` action per statement |

Left out: names of users and workspaces, and the cookie of the active workspace.

### CustomDomain

`Lookup`, `Upsert`, `Refuse` and `Answer` are a handler's parts: it loads the column,
asks DNS, the edge or Render, and writes the whole column back. `JobLoads` and
`JobWrites` are one vendor's turn of `provision_certs.py`. `Render`, `Click`,
`openConnect` and `Detect` are the panel and the branding form in a tab, with what the
page showed when it was rendered. `EditZone` and `EdgeTurns` are the world. A logo is
the number of its upload, a challenge the number of the call that made it; `proved` is
history.

### Migrations

`Advance(r)` is every step of a phase: `Requesting` to `Await` is `runRequestPhase`,
`Importing` to `Complete` is `runImportPhase`, with one action per write of the row and
per call (`Extract`; `Copy` for each part; `Document`, `Skip`, `createArtifact`,
`uploadArtifactContent`, `Count` for each document). `Log` is a line of the log between
two calls; like every write it may fail. `CallFails` and `WriteFails` lead to `Fail`;
`LoadFails` is a read before the `try`, which ends the phase with nothing recorded, and
`Hangs` a call nobody answers. `closeSession` may leave the session open, `startSession`
may open one and fail, and `RequestAccess` may come back without having asked, since the
code looks at none of these. `Stop` is the process's end, `Expire` the service ending a
session. `startMigration`, `resumeMigration`, `retryMigration`, `deleteMigration` are
the actions behind the panel's buttons, offered by the status a tab *shows*. `asked`
and `troubles` are history: what was asked for, and which of the faults happened, each
under its name, so that a property can say which of them it excepts.

### Scans

`Step(r)` is every step of `runScan`: `Load` (with the credential and its decryption),
`Inspect`, `researchVendor`, `Probe`, `Judge`, `Score`, `Complete`, and the catch
(`WriteFails`, `Fail`). `LoadFails` is what fails before the `try` (the row, the log, the
credential, or the write that says there is none) and `Hangs` a reply that stalls; neither
records anything. `Restart` is the process's end.
`startScan`, `rescan`, `deleteScan`, `publishScan` (a check and a write), `unpublishScan`,
`interrogate` are the actions; credentials, clauses and the encryption secret change in
between. What the model and the server reply is a constant set: `Scorecard` computes
from it which tools are probed (`isAutoProbeSafe`), what becomes of the controls, and
the score and the grade. `called` and `crossed` are history. Left out:
`updateScanDescription` and the log.

### Sdk, Console, AccessDesk, TrustCenterPages

`Sdk` lists the client's methods with their verb and credential; `Console` and
`AccessDesk` make their calls through it. A tab (`page[t]`) shows a list as rendered, the
owner's draft, and the action it waits for as a list of calls still `todo`; a call is
answered, fails before it is done, or fails after it (the answer is lost). A row of a
list is a name and whether it has its one more property: a control's description, a
standard's evidence, a claim that is a list, an answer to a question. What saving makes
of rows is one operator per section (`saveControls`, `saveFaqs`, …), translated with what
they drop, as are links to evidence that is gone (`Evidenced`, `Stored`). The forms of one page
share one guard: when another form's action brings the page back, text typed into the
list's form is still in its inputs, over rows that may have moved (`Rerendered`), and the
guard does not know of it (`unguarded`). A visitor's page (`site[v]`) has one modal at a
time and a queue of calls, which may outlive it. `held` and `lost` are history: the keys
whose requester has them, and those nobody has, with what became of each (`Losses`).
Which artifacts are public is left open, so the model offers to view any.

Left out: the Drive, presentation and dashboard pages, search and layout; the
custom-domain and branding pages are in `CustomDomain`.

## Runs

`tlc -config <run>.cfg <module>`; times are with two workers.

| Run | Size | Shows |
|---|---|---|
| `AccessKeys` | 3.1M states, 75 s | One request filed with either of two forms under either of two policies, decided by its intake and an owner at once; two keys; a reclaim; a read; a clock of three instants. `GrantIsBacked`, `NdaBeforeKey`, `ReadsStopAtTheCut`, `DenialHolds`. |
| `MarkConcurrent` | 3.3M, 80 s | Two calls on two domains and two rows. `VerifiedWasProven`, `MarkWasEarned` and `RevocationHolds` under any overlap; `MarkFollowsDomains`, that mark and verified domains agree, while no two calls have overlapped. |
| `FeedReaders` | 134k, 70 s | One writer at a time, five changes, one of them lost, pages of two, a stream that drops twice, a poller that does not filter. `ImplementsFeed`: the stream is the abstract feed, fairness included. With overlapping writers it is so up to the first row they disturb, which is proved (`StreamFollowsFeed`). `UnfilteredPollCatchesUp`. |
| `FeedWriters` | 215k, 13 s | Two overlapping writers, two crashes; three changes of two models, pages of two; a stream that drops twice, a filtering poller. `Gapless`, `LostOnlyToCrashes`; `StreamMissesNothing` and `PollMissesOnlyRaces`: of the changes that no overlapping call disturbed a stream passes over none, and a poller only over those committed between its two SELECTs. |
| `SubscriptionTasks` | 907k, 34 s | Two overlapping tasks on two subscriptions, one of them filtering; two changes, one lost task, deletion, a cut key. `SuspensionWasEarned`, `CursorWasHeard`, and `TaskReachesAll`: a failing or deleted subscription keeps no other from being posted to. |
| `DriveSync` | 1.5M, 93 s | One file of two revisions, two calls at once and three in all, any of them a sync, a decision or an upload; two rows and two artifacts, deletion, unlinking with and without purge, relinking. `PublicationHadConsent`, and for a file no two calls worked on at once `OneOfEach`, `HistoryIsWhole`, `SyncCatchesUp`. |
| `Workspace` | 373k, 81 s | Two server actions at once, three in all, one of which may stop midway; a team of three users, or of two with somebody outside; two invitations, two providers, a workspace and a trust center yet to be created; no sign-in by mail. `LastOwnerStays`, `AccountsHold`, `JoiningHolds`; that rows refer to rows that are there is proved (`TypeCorrect`). |
| `CustomDomain` | 518k, 54 s | Two tabs, two host names, three calls, one turn of the edge or of the zone, and the job. `ServedWasProved` under any overwriting; `HostStays`; `VerifiedGoesLive`, under fairness; `Inv`, the types and what the panel offers and what the calls hold. |
| `Migrations` | 188k, 21 s | One row, three phases begun from two tabs, a source with one part, an NDA and two documents of which one has a bad link, one trouble of any kind (a fault, or a click on an outdated page), under fairness. `RowIsTrue`: the count is backed; "awaiting release" was asked for, unless an agent came back without asking; no session is left open, unless one of six named troubles happened (closing or starting it failed, the process stopped, a write failed, something was deleted, a button was pressed on an outdated page, an open session could not be reached). `CompletionHolds`. `PhasesEnd`: a migration under way comes to wait, complete or fail, unless the process stopped, the row could not be read before the `try` or not be written, or a call hangs. |
| `Scans` | 297k, 42 s | One scan, two runs of it, a server with a tool that reads, one that deletes and one that executes, two controls and a clause, two questions, one fault. `Inv` (only safe tools are called, answers are kept), `ScoreIsBacked` (the score lies between the lowest and the highest of the scorecard's twelve, and F or A has a dimension behind it), `FinishedIsWhole`, and `ScansEnd`, under fairness: a scan comes to rest unless the process was restarted, its failure could not be written, its row not be read, its credential not be decrypted, or a call hangs. |
| `TrustCenterPages` | 1.16M, 115 s | Two tabs and a visitor, four pages opened or actions called, with the controls, standards and claims; two artifacts, two requests. `KeyReachesRequester`: every live key is held, on its way, or lost for one of six named reasons. `GrantStaysNarrow`, `EvidenceIsThere`. `EditsStay`: a row known as it is stays, a link to evidence that is gone excepted, and what was typed since another form of the page was submitted is not left without a question. `Inv`, the types and that a busy modal has its call. |

`TrustCenterForms.cfg` checks the same with the other four sections (3.8M states, five
minutes).

One listed run is expected to fail. It states what the repository says of the program,
and TLC shows an execution of the code that does otherwise:

| Run | Property | Execution |
|---|---|---|
| `MarkRemovalDuringVerify` | `MarkNeedsDomain`: the mark "falls back to 'unverified' if no verified domains remain" (`manage.py:1185-1187`) | a removal loads the vendor unverified, a verification grants the mark, the removal recomputes "unverified", equal to what it loaded, and writes nothing |

Further configurations are kept beside it. `MigrationsFaults.cfg` passes: `Migrations`
with two troubles, without fairness. The others have one property each, which TLC refutes
(`tlc -config <cfg> <module>`):

| Configuration | Module | Property | Execution |
|---|---|---|---|
| `AccessReclaimRevoked` | `MCAccessKeys` | `RevokingEndsAccess`: "revoke any key at any time; reads stop immediately" (`docs/private-public-docs.md:28`) | approve, revoke, reclaim, read. No two calls overlap |
| `FeedStreamTwoWriters` | `MCChangeFeed` | `StreamSkipsNothing`: no "silently skipping the gap" (`routers/oscal.py:180-182`) | two calls take one number; the stream receives the first and asks for greater ones |
| `SubscriptionCutKey` | `MCChangeSubscriptions` | `CutKeyStopsDelivery`: "revoking or expiring the key stops delivery" (`routers/oscal.py:227-229`) | subscribe, revoke the key, record a change: it is posted |
| `DriveTwoPublications` | `MCDriveSync` | `HashIsOfBytes`: archived "with the same hashing and the same audit trail" as a manual upload (`google-drive/page.mdx:138-139`) | a sync and an inclusion of one file both put their content under the key of the next version; the one that commits last has the hash of its own download over the bytes of the other's |
| `BrandingWideLogo` | `MCCustomDomain` | `WideLogoStays`: "Same preservation for the directly-uploaded wide logo" (`manage.py:371-380`) | upload a wide logo, save the branding form, which sends no wide logo's URL (`tc actions.ts:62`): its storage key is dropped |
| `ScanUnreadableKey` | `MCScans` | `RunsRecordTheirEnd`: "runScan records failures itself" (`audit/actions.ts:203-205`) | the encryption secret changes after a credential was stored; `runScan` decrypts it before its `try`, throws, and the scan stays active |
| `MigrationUnasked` | `MCMigrations` | `PausesAfterRequest`: a session is started "to request the documents"; "it then pauses ("awaiting release")" (`DEPLOY.md:256-258`) | the agent comes back without having submitted the form; the phase logs what it says, writes "Access requested" and pauses (`migration.ts:235-264`) |
| `TrustCenterUnguarded` | `MCTrustCenterPages` | `UnsavedInputWarns`: "warns before leaving a page with unsaved form input" (`form-guard.tsx:7`) | text is typed into the controls' list; the page's other form (the library or the import) is submitted, which clears the guard's one flag (`form-guard.tsx:33`); the page comes back with the text still in its input, and a link is followed without a question |

Other places where code and text disagree, seen while modelling; the models follow the
code, and no property says otherwise:

- "Leave unchecked for full access" (`requests/page.tsx:91`; `tc actions.ts:545`): the
  network keeps a request's own list when none is ticked (`manage.py:1635-1639`).
- Limited access with nothing chosen, or with a contract attached, asks for everything
  (`trust/[vendorId]/actions.ts:39-50`).
- Saving the controls' form drops every description, as does importing a list; a claim of
  several choices with one chosen is saved as text.
- Editing an artifact from its own page sends an empty product list and clears the
  association (`tc actions.ts:260`).
- The attestations' editor keeps its rows in `useState` across a redirect to its own page:
  claims an autofill added are not in it, and the next save drops them.
- The form guard does not see edits made by buttons, and forgets edits on submit even if
  the save then fails.
- A standard whose evidence was deleted loses the link with the next save of the list, and
  with it the knowledge that there was any (`manage.py:849`).
- "Your request was approved" is mailed only where a mail server is configured and the
  request names a contact; otherwise `approveKey` makes the key, says nothing and the
  secret is gone (`mail.ts:15-17`, `tc actions.ts:548`).
- "runRequestPhase records failures itself" (`migrations/actions.ts:76-78`): not those of
  its reads before the `try`. The same holds of `runScan` (`engine.ts:454-466`).
- A modal whose server action throws stays busy until it is closed.
- A workspace can end with members and no owner without any overlap (`TeamHasOwner` in
  `Workspace`): the only member leaves while an invitation is pending, whoever accepts it
  cannot become owner.

The properties that hold say how far each of these reaches: a denial is overwritten
only by a call that had seen the request pending (`DenialHolds`); a revocation of
the mark only by a reinstatement or a call that loaded the vendor before it
(`RevocationHolds`); a stream passes over a change only if an overlapping call disturbed
it, by a number taken twice or committed late (`StreamMissesNothing`), and a poller
misses, beyond those, only what was committed between its two SELECTs
(`PollMissesOnlyRaces`); changes are lost only to crashes (`LostOnlyToCrashes`);
a Drive file's history is whole unless two calls worked on it at once
(`HistoryIsWhole`); a workspace loses its last owner, an account its last way to sign in,
or a merge something of its source, only to a call that decided on what another has
since overwritten (`LastOwnerStays`, `AccountsHold`); a host comes back or goes away only
through a column loaded before (`HostStays`); a completed migration names what it left
out (`CompletionHolds`); a finished scan is mixed only if two runs overlapped
(`FinishedIsWhole`); a browser session is left open only by a close or a start that failed,
or another of the troubles `Leaks` names (`RowIsTrue`); a key is lost only with an answer
not heard, a modal closed, a mail that nobody could be named for, that was skipped, or
that failed (`KeyReachesRequester`).

### Bounds

- **Calls.** Two at once are enough for every race above: each is between one call
  that loaded and one that committed. The proofs cover any number.
- **Keys and requests.** Two keys let one request have two (approval and reclaim, or
  two approvals). A second request would add only which of two a reclaim picks.
- **Time.** `MaxTime` 2 with lives of 1: a key and a URL each live, end and are
  tried after their end.
- **Drive.** Two revisions: one published, one newer. Two rows and two artifacts show a
  second of either. Two links: unlinked and relinked once. Three versions: two
  archived below a current one. Three calls in all: a sync or a decision, a second that
  overlaps it, and one that finds what they left. One file: files share nothing but
  the connection and the sync's loop, and the proofs cover any number of them. Its
  verdict is "include", which is what consent turns on; the other two only insert rows
  that no sync publishes, and are covered by the proofs.
- **Log.** Pages of two and three or five changes: full pages, half-full ones, and
  empty ones after a filter.
- **MaxDrops, MaxCrashes, MaxStops** bound how often a connection, a call or a task
  is lost; one is enough to see what it does to the rest.
- **MaxFailures** is 10 in the code and 2 here, with two changes, so that suspension
  is reached by two overlapping tasks.
- **Workspace.** Three calls: two that overlap, and one before or after that sets them up
  (an invitation sent, a merge that stopped). Three users: two owners and a third, or an
  owner, a member and a stranger.
- **CustomDomain.** Three calls: a host registered, verified, and a third that overlaps
  the job or replaces it. Two hosts, so that one can be mistaken for the other.
- **Migrations.** Three phases of one row: the request phase, its import, and a retry or a
  second import beside it. Of the source's parts one is there: they are copied by one
  loop, each as the others. One trouble, a click on an outdated page being one: each is met
  by the phases that come after it. `MigrationsFaults.cfg` checks `RowIsTrue` and
  `CompletionHolds` with two (961k states, 28 s), and the proofs cover any number.
- **Scans.** Two runs of one scan, overlapping or one after the other; a publication and
  two questions on the way.
- **TrustCenterPages.** `MaxActs` 4 pages opened or actions called by everyone together:
  two tabs each open and save, or a visitor asks, a reviewer opens and approves, and the
  visitor asks again. Moves within a page are not counted; `MaxTouched` 1 row is edited.
- Symmetry is declared for keys, domains, calls, tasks and tabs, only in runs without
  liveness properties.

Deadlock checking is off: with the bounds used up a model has nothing left to do.

### Fairness

Only what the code's schedulers do by themselves is assumed fair. In
`ChangeFeed!FairSpec` the stream's generator ticks, TCP delivers what it carries, and
a poller polls again; nothing is asked of writers, and connections may be lost, up to
the bound. In `Migrations!FairSpec` and `Scans!FairSpec` a detached phase or run goes on
to its next step, since the process is long-lived and a call it awaits returns or fails -
or hangs, which is a fault of its own (`Hangs`), because the code's time limits end with
the headers of an answer or are left to the libraries. Stops, restarts, hanging calls and
reads that fail before the `try` are allowed, up to the bound, and the properties except
by name what they leave behind, since nothing in the code picks it up. In `CustomDomain!FairSpec` the certificate
job runs again and again (it is a cron job) and a request that was begun is answered;
nothing is asked of owners, zones or the edge.

## Proofs

| Module | Theorems | Argument |
|---|---|---|
| `AccessKeysProofs` | `Invariance`, `TypeCorrect`, `GrantsAreBacked`, `NdaPrecedesKeys`, `LimitsAreKept`, `CutsHold`, `ReadsAreLogged`, `RevocationIsFinal`, `DenialsHold` | `Inv` follows a URL back: to a read that authenticated while the key was live and logged what it read (`UrlsInv`, `ReadersInv`), to the key's mint (`KeysInv`), to a filed request with its form and NDA (`RequestsInv`). `CallsInv` carries this over the gap between a call's load and its commit. |
| `ChangeLogProofs` | `LogInvariance`, `TypeCorrect`, `LogIsGapless`, `OnlyCrashesLose`, `StreamIsComplete`, `PollsMissOnlyRaces`, `StreamFollowsFeed` | Of `ChangeFeed`. `WritersInv`: a number taken follows one in the log, where rows stay. `LossInv`: a call at rest holds no change, so a change in neither the log nor a call was lost to a crash, whatever overlaps. A row that comes undisturbed comes after all there is, and once disturbed a row stays so; hence what is on its way to a client has every undisturbed row from its last frame on (`StreamsInv`), and a poll's page every undisturbed one it wants up to the page's end, but for what its two SELECTs let in between them (`PollsInv`), with any number of writers. `FeedInv` adds that while no row is disturbed (`Ordered`) numbers run from 1 to the log's length and a client's sequence is the log's beginning, which is the refinement mapping: up to the first disturbed row every step is a `Record`, a `Deliver` or a stutter of `AbstractFeed`. |
| | `FanOutInvariance`, `FanOutTypeCorrect`, `SuspensionsAreEarned`, `CursorsAreHeard`, `SuspensionsAreFinal`, `TasksReachAll` | Of `ChangeSubscriptions`. `CountsInv`: no count, in the table or loaded by a task, exceeds the failures there were; so overlapping tasks err in the subscriber's favour only. For `TasksReachAll`, `PostsInv`: a task under way has posted to, or has yet to post to, every subscription it loaded as active that wants its change; filters never change (`FilterStays`) and the log only grows (`LogGrows`), so nothing others do takes one off its list. |
| `DriveSyncProofs` | `Invariance`, `TypeCorrect`, `PublicationConsent`, `ExcludedStays`, `FilesHaveOneOfEach`, `HistoriesAreWhole`, `SyncsCatchUp` | In three layers. Consent (`ConsentInv`) holds under any overlap: what a call has for included is approved, and its row still reads so unless it was excluded since. Shape (`FilesInv`) holds of each file that is not contended: one row, one live artifact with a whole history, and what the one call at work on it loaded is still there (`Fresh`, `Current`), under keys no later version has (`KeysInv`). Catching up: what anyone was told of Drive, in a row, an artifact or a call, lags behind Drive in the order it was told, listing before content before revision (`ToldInv`); and of a file that is not contended, what a row remembers as published is no newer than what its artifact shows, a call at work has the row's own columns, and what a sync is done with shows at least the revision it listed, with nobody carrying an older one to it (`UpToDateInv`). So once a sync has nothing left to do, an included file it did not fail on shows at least the revision it listed, which is Drive's own if Drive has not moved on. |
| `VendorDomainProofs` | `Invariance`, `PanelAndCallsHold`, `ServedHostsAreProved`, `HostsStay` | Of `CustomDomain`. Every column a call holds was proved where it reads verified, is the column as it is unless the call knows that it was overtaken (`CallsInv`), and what each handler writes from it is as good as what it loaded (`Good`, `WritesGood`). So overwriting can bring back an older host, never one that was not proved. |
| | `MarkInvariance`, `MarkTypeCorrect`, `VerificationIsProven`, `MarkIsEarned`, `RevocationHeld`, `MarkFollows` | Of `AgentReadyMark`. A call holds stale columns and a mark computed earlier; `HandlersInv` says that these too were earned, and that a removal that saw "revoked" will write nothing else. For `MarkFollows`, `AloneInv`: while no two calls have overlapped, the one in flight loaded the mark as it still is and recomputed the mark its rows will earn at the commit (`LoneCall`), so mark and domains `Agree`. |
| `WorkspaceProofs` | `WorkspaceInvariance`, `TypeCorrect`, `LastOwnerIsKept`, `AccountsAreKept`, `JoiningIsHeld` | `TablesOK`: rows refer to rows that are there. `CallOK`: what a call holds is what its later statements need. `Fresh`: unless another call has written since it began, what a call decided on still holds (`DecisionHolds`), and a merge's snapshots are what they were taken of, with all it has passed over or handed on in the target's hands (`MergeHolds`). Each property then follows at the one statement that could break it; an interrupted merge is covered because a later one is judged by the tables and not by what was done before. |
| `TrustCenterPagesProofs` | `PagesInvariance`, `ModalsAreHeld`, `KeysAreAccountedFor`, `GrantsAreNarrow`, `EditsAreKept`, `LinkedEvidenceIsThere` | `PagesInv`, over `Sdk`, `Console` and `AccessDesk` composed: a form shows what it was rendered with but for the rows touched since (`FormHolds`); an action's remaining calls are the last ones of those it began with (`TodoHolds`), and what it will send is what was typed or read (`GivenHolds`), so a replaced list keeps what was known; an id given to a standard has its content (`EvidenceHolds`); a visitor's unanswered call has brought nothing, and of the calls in the queue only one is the open modal's (`SiteHolds`). Keys are numbered as they are made, and each live one is accounted for by itself (`Accounted`): in an answer, in an action that has yet to mail it, with its requester, or lost with its reason; a step that takes it off its way puts it in one of the other two. |
| `ScansProofs` | `ScansInvariance`, `ProbesAndAnswers`, `ShownIsWhole` | A run that no other run of its scan overlaps is alone with it: the scan is shown as active, and its columns are that run's as far as it has come (`AloneInv`, `Wrote`), so what `Complete` leaves is `Whole`. A publication that found its scan complete still finds it so unless the scan was queued again in between (`PublishingInv`). A question asked alone knows every answer to be kept (`QuestionsInv`). That every probe is of a safe tool rests on lemmas about `Scorecard`: what is probed, judged and scored has the type its column has. |
| `MigrationsProofs` | `MigrationsInvariance`, `RowsAreTrue`, `CompletionsHold` | `WorkInv` follows a phase through its documents: those before the one it is at are in the target or in its log or had no link (`Accounted`), the parts before the one it is at are copied, and its count is at most that of the documents sent. Unless a button was pressed on an outdated page, one phase at most writes to a row, and the row is shown as active (`SoleInv`), so a completed one is written by nobody and an awaiting one only by whoever resumes it. A phase says that it waits only after its agent came back, which has asked unless that trouble is on record (`AskedInv`). A session not yet opened is named by no row and no phase (`SessionsInv`), and the one a row names is its phase's or closed (`Remembers`), so none that is open is forgotten while none of `Leaks` happened. |

The theorems hold for all values of the constants that satisfy the modules'
assumptions: bounds are numbers, page size and failure limit are positive, lists are
sets of artifacts, forms and policies have their fields; scores are whole numbers;
controls, documents and tabs are finitely many; `Verdict` is any function into the three
verdicts; the first rows, artifacts and requests of the pages are among those
there may be; and the name that stands for nobody or nothing is not a user's or a
workspace's (`UsersAssumption`, `OrgsAssumption`). What the properties
except is named in them, and none of the theorems has a hypothesis of its own. Where a theorem states a property of a run, the run shows it on a
small instance too. Those that follow from the invariant alone (`LimitsAreKept`,
`ReadsAreLogged`, `RevocationIsFinal`, `SuspensionsAreFinal`, `ExcludedStays`, and the
invariants themselves) are proved and no longer run.

Every inductive invariant was an invariant of a TLC run before it was proved
(`PagesInv` of `TrustCenterPages.cfg` and `TrustCenterForms.cfg`). The models were written
so that they can be proved about: no `RECURSIVE` operator, and `Sdk` has `Item` and `++`
where TLC's module has `:>` and `@@`, whose definitions the provers cannot use well.

Only model-checked, because no installed prover reaches them:

- liveness: `UnfilteredPollCatchesUp`, `VerifiedGoesLive`, `PhasesEnd`, `ScansEnd`, and the
  fairness in `ImplementsFeed`, whose safety part is `StreamFollowsFeed`, with any number
  of writers up to the first row they disturb;
- `ScoreIsBacked`: the score is a weighted sum folded over the dimensions, and that such a
  mean lies between the least and the greatest is an induction over data. That scores run
  from 0 to 100 and what they are graded is proved, since it rests on the clamp alone.

## Not modelled, and why

- Agreements and e-signature, expiry notices, the rate limiter: not yet, see the plan.
- Names of users and workspaces, a scan's description and log: no decision reads them.
- The console's Drive, presentation and dashboard pages: the Drive decisions behind the
  first are in `DriveSync`; the others show what is elsewhere.
- OSCAL documents, mail, Ask, signing, DNS provider clients, seeds: data
  transformation or plain input and output, whose properties are about wording and
  layout.
- Command line, MCP servers, conformance runner: clients without state.
- `prune`: nothing calls it.

## Plan

The network's five modules came first, in the order of what it promises: access, the
mark, the feed and its subscribers, what is published. Then the web application's state
(`Workspace`, `CustomDomain`, `Migrations`, `Scans`) and its pages
(`Sdk` to `TrustCenterPages`). Next, in this order:

1. For `DriveSync` an abstract specification, a shelf that shows for each file a revision
   its owner included, which `DriveSync` implements.
2. **`Agreements`**: envelope events against the stored status, early and late;
   **`ExpiryNotices`** and **`RateLimiter`**: small modules, one property each.
3. Pure functions beside the module that uses them: `drive_rules.classify`,
   `freshness_for`, `_advances`, checked against a reference definition.

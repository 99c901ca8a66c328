# CampusAgent in TLA+

TLA+ models of the parts of CampusAgent (the API, `src/apps/api/src`, and the
stateful parts of the web client, `src/apps/web/src`) in which concurrent requests,
half-finished requests, answers out of order and long sequences of legal calls
decide whether the data stays right. TLC checks the models on small instances;
TLAPS proves the invariants and action properties of all nineteen for all
instances, and that the scene lifecycle, served in turn, implements its abstract
protocol.

Contents: [1 the system](#1-the-system), [2 how the code is modelled](#2-how-the-code-is-modelled),
[3 modules](#3-modules), [4 runs](#4-runs), [5 proofs](#5-proofs),
[6 where the code and its documents disagree](#6-where-the-code-and-its-documents-disagree),
[7 what is not modelled](#7-what-is-not-modelled), [8 plan](#8-plan).

Paths below are relative to `src/apps/api/src/modules` unless they start with
`realtime/`, `events/`, `demo/`, `main.py` (those of `src/apps/api/src`) or `web`
(`src/apps/web/src`).

## 1 The system

CampusAgent is a FastAPI application, a modular monolith on PostgreSQL (SQLite
in the tests), with a Next.js client. A module is a directory under `modules` with
`api.py` (routes), `service.py` (operations), `repository.py` (queries),
`models.py` (tables). Lasting state is in the database; the realtime server, the
model gateway and the circuit breakers of nodes keep state in each process.

| Component | State | Operations | Interacts with | Hard behaviours | What makes it correct |
|---|---|---|---|---|---|
| **Scene lifecycle** `scenes/service, coordinator, cleanup, state_machine` | one instance: status, version, deadlines; participants; private submissions; candidates, result, votes | transition, invite/accept/decline/leave, submit/delete, process (three commits), vote, expiry and purge jobs | plugin (candidates), event bus, audit, memories | stages of one request interleave with others; stale reads; death between commits; unique keys that refuse half-way | one result, never rewritten; private data only of people who consented, and gone after use; outcome columns, events and status agree |
| **Scene API, demo page, hub** `scenes/api`, `web/app/scenes/page.tsx` | (the scene's) | create with an idempotency key, open, fill, vote, confirm; publish and open with two requests | scenes | a second writer of scenes, in several commits; tabs and retries | one scene per key; what is published is opened; choices are among the candidates |
| **Dorm dinner plugin** `scenes/plugins/dorm_dinner` | none | generate with relaxations, evaluate, rank | coordinator | relaxation order, too few candidates | nobody's hard constraint is violated; no suitable restaurant is lost |
| **Chat dorm dinner** `scenes/chat_dorm_dinner`, `scenes/dinner_search` | scenes of a conversation, their public context, candidates, votes | start, join, preferences, negotiate, vote, close, end, next | conversations, search and model providers | an event loop blocked by providers while threads commit; retries; crash between commits | one open scene; nobody's preferences or vote overlooked; evidence that was found |
| **Organizations** `organizations/`, **directory** `directory/` | organization: status, policy, capacity, visibility, parent; membership rows with role and status | add, invite, accept, decline, approve, reject, change role, transfer, remove, join, leave, update, delete; list, search, tree, recommend | users, conversations, event bus | checks on counts followed by a later write; rows that are used again; listings filtered each on its own | there is an owner; capacity and roles of entry; deletion is final; listings show what may be opened |
| **Auth sessions** `auth/`, **users** `users/` | sessions, families of refresh tokens, user status | register, login, refresh, replay, logout, deactivate | events (user registered → personal agent) | overlapping refreshes; a logout overtaken by a refresh | one live token per family; ended sessions, used tokens and deleted users stay so |
| **Conversations, messages** `conversations/` | conversations, participant rows, messages with sequence numbers | create, add, remove, leave, change role, synchronise with the organization; send, delete | organizations, realtime | sequence number by maximum plus one; a unique key with a NULL column; events that some joins lack | one row per participant, one private conversation per pair; numbers without gaps; one message per key |
| **Contacts** `contacts/` | request rows of pairs of users | request, accept, reject, delete | users, conversations | crossing requests of a pair | one relation per pair, made by both |
| **Memories, consent, audit** `memories/`, `audit/` | memories, consent records, audit rows | create, read, update, delete, clean up, grant, revoke | agents, scenes | rows audited after the commit; expiry against the owner | what is deleted or revoked stays so; audit rows tell the truth |
| **Agents** `agents/`, **event bus** `events/bus` | personal agent, its encrypted profiles, its conversation | create on event, configure, ask | model gateway, conversations | lost event; one column read and written whole; the model fails between two commits | one agent; the profile in use is stored; questions are kept, answers attributed |
| **Model gateway** `model_gateway/` | remembered health, calls | select, retry, fall back, validate | nodes, providers | time-outs, nonsense, recovery in the middle of a call | sensitive data stays local; failures fall back, within a budget |
| **Nodes** `nodes/` | the node's row; per process a breaker | register, update, delete, check | providers | breaker against pauses; deletion during a check | the breaker holds off, recovers, and agrees with the row |
| **Realtime server** `realtime/` | sockets, subscriptions, seen events, numbering | connect, subscribe, push | conversations | bounded deduplication | numbers without gaps, no repetition |
| **Realtime client, chat page** `web/lib/realtime.ts`, `web/app/conversations/[conversationId]/page.tsx` | socket, timers, subscriptions; list of messages | connect, retry, heartbeat, subscribe; fetch, backfill, load more, send | realtime server, API | callbacks in any order; lost connections; overlapping requests | one driver; the server pushes what is on screen; the list is in order and hides nothing |
| **Demo data** `demo/` | all tables | seed (several commits), reset | all | two seedings, crash, foreign keys | one complete demo scene; a reset goes through and deletes what is connected with the demo users |
| **Other web pages, middleware, cache, metrics** | none of its own | forms, listings, plumbing | | | |

How requests run. Most routes are synchronous functions and run concurrently in a
thread pool; a few, like most of the dinner in a chat, are coroutines that read their
body and then never await again: they block the event loop, also while they wait for a
model, and run beside threads only. Each has a database session of its own, rolled
back on an exception (`dependencies.py:20-48`). Objects are not expired at commit
(`db/session.py:70-81`). PostgreSQL runs at READ COMMITTED; nothing takes a row lock;
an UPDATE names the row by its primary key and sets only the columns that changed.
Events are published in the process, synchronously, and errors of handlers are
swallowed; the only subscriber creates the personal agent of a new user
(`main.py:65-67`). The expiry and purge jobs of scenes exist as functions; nothing in
the repository schedules them.

## 2 How the code is modelled

*Read step, commit step.* A request reads the rows it checks, keeps what it read
in its session, and commits later. It is two steps of a `worker`: the first
evaluates every check of the code and stores in `worker[w]` what the request is
going to write, the second writes it. Between the two any other worker may
commit. What the second step writes is what the code writes: the changed columns,
computed from what was *read*, subject only to unique keys and to the one
compare of a version the code has. A request with several commits
(`POST /process`) is a chain of such steps, and may die between any two. An
operation whose effect does not depend on anything another worker can change
(decline, leave, delete a submission) is one step. The reads of one request are
one step: the code makes them in one burst of queries before it writes.

*In turn or overlapping.* Strong properties say that every *sequence* of legal calls
is right; they are stated for requests in turn (names in `InTurn`, or a variable
`turn` that a behaviour chooses in its initial state). With overlapping requests
checks may be stale, and other properties are stated that hold all the same. Several
strong properties do not hold then, and this is a fact of the code: section 6 lists
where a comment, a document or an error message claims them anyway.

*Several components in one run.* Components that share no state are checked in one
run: a variable (`component` or `part`) chooses in the initial state which of them
moves, and the others rest. The run then has the sum of their states, not the
product.

*Data.* Names, payloads, times and rankings are abstracted: a payload is there or
not, a deadline has passed or not, a ranking is any choice that satisfies what the
coordinator relies on. Identifiers are model values.

*Mutants.* Each model defines, next to some of its operators, variants marked
`Mutant:`, which no action uses. Each is a plausible slip in the code (a forgotten
check, a count over the wrong rows, a whole row written instead of a column), and
each violates the property it is listed with in `PROJECT.json`: a property is kept
only if such a slip breaks it. Where a property of a run is a conjunction, the
mutant breaks one of its parts.

## 3 Modules

### Scenes

**`SceneStates`** translates `state_machine.py`: the states and
`LegalTransitions`, the table of (state, action) → state. `Targets(s, a)` is
`get_target_state`: a set with at most one element.

**`SceneProtocol`** is the abstract specification of a scene, written from the
participants' view and without requests, versions or rows: phases follow one
another, an outcome is final, slate and verdict are published together, once,
while generating, ballots are cast only while voting and only for the slate.

**`SceneLifecycle`** is the detailed model. State: the columns of one
`scene_instances` row (`status`, `version`, `stamped` for the outcome columns,
`overdue` for `expires_at`), the rows of its participants (`joined` are those whose
`joined_at` is set: the creator, and who accepted), submissions, candidates, results and
votes, the events announced, and the workers. A submission
row is `none`, `live`, `stale` (past its expiry), `softDeleted` (deleted, payload
still there) or `purged`.

| Action | Code |
|---|---|
| `ReadTransition`, `WriteTransition`, `Announce` | `POST /transition`, `transition_state`; the creator may name any action; the event of an outcome follows the commit |
| `ReadProcess`, `Generate`, `WriteGeneration`, `GenerationConflict`, `FailGeneration`, `Cleanup`, `ReadCandidatesReady` | `POST /process`: `start_processing`, `run_generation_phase` with its success, unique-key and failure paths, `cleanup_private_data`, `candidates_ready` |
| `ReadInvitation`, `WriteAccept`, `Decline`, `Leave` | the participant operations |
| `ReadForSubmit`, `WriteSubmit`, `DeleteSubmission` | `submit_private_preferences`, `delete_submission` |
| `ReadForVote`, `WriteVote` | `cast_vote` |
| `ReadExpired`, `ExpireAndPublish`, `CommitExpired`, `ReadStaleRows`, `PurgeStaleRows` | `expire_stale_instances` (the row is updated and locked, the event goes out, then the commit), `cleanup_expired_submissions` |
| `InstanceExpires`, `SubmissionExpires`, `Crash` | the clock; a request that dies between two commits |

It refines `SceneProtocol` (`ImplementsProtocol`, by `INSTANCE ... WITH`): the
phase is the status, the slate the candidates that have a row, the verdict the
selections of the result rows, the ballots the vote rows.

**`ScenePage`** models the other two ways into a scene, and its creation. The page
(`/scenes/dorm_dinner/...` in `scenes/api.py`) works on the newest dinner its user
takes part in: `Open` is the head of each of its routes, `CheckKey` and
`InsertScene` are `create_scene_instance` with its idempotency key,
`ReadTransition` and `WriteTransition` the two transitions that publish and open
(`_ensure_collecting`), `Submit`, `ListCandidates` and `Fill` (`_ensure_candidates`),
`Pick`, `SaveVote`, `DeleteVote` and `Confirm` the rest. `CreateScene` and
`Transition` are the hub's requests (`web/app/scenes/page.tsx`), `Process` a
generation by the coordinator, `Participate` the participant operations. The
column `seen` of a request is the status it may still believe: SQLAlchemy loads an
object once per session, or again after a commit that expired it.

### Dinners

**`ChatDinner`** models the scenes of one conversation
(`scenes/chat_dorm_dinner.py`). The coroutine routes are requests of the server
`loop`, which serves one of them at a time; the plain functions are served by
threads. `StartNew`, `StartAgain`, `Initialise`, `InitialiseFails`:
`start_or_get_current`, with its two commits; `SetParticipation`,
`SaveParticipation`; `SubmitPreferences`, `ReadSceneAgain`, `SaveSubmission`;
`RunDebate`, `SearchFails`, `PostTranscript`, `DeleteRefused`, `TranscriptFails`,
`Conclude`, `AnswerError`: `run_debate`, which awaits its providers between
reading the scene and writing it; `Vote`, `SaveVote`; `CloseVote`, `EndScene`,
`RequestNextNegotiation` and `SaveInThread`: the three threads; `Crash`: the
process dies. `read` is the row as a request loaded it: the public context is one
column, written whole.

**`DinnerChoice`** models the plugin as the coordinator calls it
(`plugins/dorm_dinner/algorithm.py`, `capsule.py`): `Attempts` are the filters of
`generate_candidates` with their relaxations in order, `Evaluate` is
`evaluate_candidate` of every capsule, `Rank` aggregates and sorts, `Selected` is
what the coordinator selects (SceneLifecycle takes any selection). Capsules are
arbitrary; the five restaurants of the run make every relaxation happen.

**`DinnerSearch`** models which candidates of a chat dinner survive: `Search` and
`SearchRefused` collect and merge evidence (at most `PerQuery` per query, `MaxTotal`
in all, same address or title only once), `Negotiate` keeps what cites it
(`Grounded`, `FinalCandidates`).

**`DemoData`** models `demo/seed.py` and `demo/reset.py`. A row is a record with a
table, a name, a number and the keys of the rows it refers to. `SeedBase`,
`SeedScene` write what seeding adds, commit by commit (`Commits`); `BeginReset`
collects identifiers, `DeleteNext` runs one statement of `Statements` in order,
`FailReset` is a foreign key that refuses one, `CommitReset` the end; `Act` is what
users do meanwhile, with any rows that the foreign keys of the models allow
(`ForeignKeys`).

### Organizations

**`OrgMembership`** models one organization: every operation of
`organizations/service.py` on memberships, policy, capacity and deletion, with
the rules of `permissions.py` as operators of the same names. A plan records per
user which columns it changes (`Keep` for those it does not) and whether it
inserts a row; `Commit` applies it. Users are assumed not to be deleted.

**`Directory`** models several organizations and what is shown of them.
`CreateOrganization`, `UpdateVisibility`, `DeleteOrganization` and
`ChangeMembership` change them; `ListOrganizations`, `SearchOrganizations`,
`ListUserOrganizations`, `Tree` and `Recommendations` are the five queries as
operators of a state, `CanOpen` is `get_organization`. `StartWalk` and `ReadPage`
are a client that reads the listing page by page while others change it.

### People

**`AuthSessions`** models the sessions of one user. A family of refresh tokens is
the sequence of its tokens' statuses; `version` is `session_version`; `expired`
counts the tokens past their expiry, oldest first, since all have the same
lifetime. `Login`, `Rotate` and `Replay` (the two paths of
`refresh_token_rotation`), `Logout` and `DeactivateUser` plan the rows they mark,
insert or end; `Commit` writes them, `Abort` is a request that ends before.
`RevokeFamilies` is `_revoke_family`. The initial state is the one `register_user`
commits. An expired token is refused before its status is looked at (the decoder
checks the expiry), so `Replay` requires a token that has not expired. A session's
own `expires_at` is stored by the code and never read, so it is not modelled.

**`Conversations`** models conversations and participant rows, beside one
organization whose members come and go. `CreatePrivate`, `CreateGroup`,
`CreateOrgGroup`, `AddParticipant`, `RemoveParticipant` (leaving included) are the
operations of `conversations/service.py`. The organization changes by `OrgJoin` (a
member is added, or joins where everybody may), `OrgJoinSilently` (the creation, an
accepted invitation and an approved request, which publish nothing), `OrgRequest` (a
request to join, which publishes a joining before it is approved) and `OrgLeave`;
`announced` are the members whose joining was published. `SyncOrgMemberJoined` and
`SyncOrgMemberLeft` are the handlers of the events, run at once by the worker that
publishes, planned and committed like a request; `synced` says whether they are
subscribed (in `main.py` they are not). A user may have several rows in a
conversation: the unique key of the table contains `participant_agent_id`, NULL for
every user, and NULLs are never equal.

**`Messages`** models one conversation's messages: `CreateMessage` (with the check
of its idempotency key), `CreateSystemMessage`, `DeleteMessage`; `NextSequence` is
`get_next_sequence`, maximum plus one. `ChangePart` lets people come and go under
the requests; `Abort` loses a request before its commit, and any client may send
again.

**`Contacts`** models the request rows of two users in either order:
`CreateContactRequest` (which turns an old row round and uses it again),
`AcceptContactRequest`, `RejectContactRequest`, `DeleteContact`; `SetActive` is the
deactivation of accounts. `Refused` is the unique key on the ordered pair.

**`Memories`** models one memory, the consents of its owner for one purpose, and the
audit rows: `CreateMemory`, `SaveCapsule`, `GetMemory`, `UpdateMemory`,
`DeleteMemory`, `CleanupExpiredMemories`, `GrantConsent`, `RevokeConsent`, each
followed by `Commit`, then `LogAudit` (a flush), then for a capsule `SaveAgain` (a
second commit, of the scene), and `Close`, which rolls back what is not committed.
`done` are the operations committed, `audited` the rows that lasted.

**`Workspace`** models the personal agent of one user: `CreatePersonalAgent` (by the
event or by a request), `UsePlatform`, `UpdateAgentModelRoute`, `DeleteProfile`
(read the encrypted column, change it, write it whole), and one task conversation:
`Ask`, `SaveQuestion`, `TakeAnswer`, `SaveAnswer`, `Fail`.

### Platform

**`ModelGateway`** models chat calls and embeddings. `Select` is `ModelRouter.select`, with the
privacy rule (`PrivacyAllows`), the priorities and the remembered health; `Start`
begins a call; `Compute` is an answer of the rule or mock provider, the actions
`Post...` one HTTP request of `openai_compatible.py` with its retries (`PostMisshapen`: a
200 whose JSON has another shape raises an exception that nothing catches), `Leave` the
one fallback, `RetryValidation` and `Return` the validation of the answer.
`ChangeUp` is the world, `Restart` forgets what the process remembers.

**`NodeHealth`** models one node: `UpdateNode`, `DeleteNode`; a check as three steps,
`StartCheck` (the breaker is asked), `Probe` (the HTTP request, awaited),
`SaveCheck` (breaker and row are written); `Tick` ages the pauses, `ChangeUp`,
`Restart`. One breaker per process, one row for all. `Looked` is the property
`state`, which changes OPEN to HALF_OPEN when it is read.

**`Realtime`** models the server's side: `Connect`, `HandleSubscribe`,
`HandleUnsubscribe`, `HandlePing`, `SendEvent` (with the bounded memory of event
identifiers, `Remember`), `Disconnect`; membership is checked when subscribing.

**`RealtimeClient`** models `RealtimeClient` of `web/lib/realtime.ts` and the effect
of the conversation page: `ShowPage`, `LeavePage`, `Retry`, `TimerFires`, `OnOpen`,
`OnClose` (with every closing code the server or the browser produces),
`Heartbeat`, `Established`, `Answer`, `Push` (with gap detection and
deduplication), `PeerVanishes`. `behind` says that the page has not been fetched since
a connection was lost. `Connect(left, fails)` is `connect()` as its callers
see it.

**`ChatPage`** models the list of messages of the conversation page: `AskLatest`,
`AskBackfill`, `AskMore`, `Send`; `Answered` delivers any outstanding answer, with
the history as it was when the server read it; `OtherSends`, `Fails`.

### Instances and proofs

`MCScene`, `MCOrg` and `MCSessions` instantiate one model each. `MCTalk` adds the
choice between requests in turn and overlapping. `MCPeople` (Messages, Contacts,
Memories, Workspace), `MCPlatform` (ModelGateway, NodeHealth, Realtime), `MCWeb`
(ScenePage, RealtimeClient, ChatPage, Directory) and `MCDinner` (ChatDinner,
DinnerChoice, DinnerSearch, DemoData) hold several components, of which a behaviour
moves one; `MCAccounts` puts `MCTalk` beside instances of `MCOrg` and `MCSessions` in one
run, and `MCServices` `MCPlatform` beside `MCDinner`; a behaviour again moves one. The
properties that `MCAccounts` names after those of its instances (`LastOwner` is
`O!LastOwner`) are the ones that `OrgMembership_proofs` and `AuthSessions_proofs` prove. The modules named `*_proofs` hold the theorems of section 5: one for each
of `SceneLifecycle` (with its refinement of `SceneProtocol`), `OrgMembership`,
`AuthSessions` and `Conversations`, and one for the proved components of `MCPeople`,
`MCPlatform`, `MCWeb` and `MCDinner` (`People_proofs`, `Platform_proofs`, `Web_proofs`,
`ChatDinner_proofs`), since properties of these runs are stated of the composition.

## 4 Runs

Every action of every model fires in a passing run.

| Run | Module | Question | States |
|---|---|---|---|
| `scene_serial` | MCScene | Does every sequence of calls, with a request dying anywhere, implement the protocol (`ImplementsProtocol`)? Is private data gone after a generation (`PrivateDataGone`)? Do result, counts, events and columns agree (`OutcomeConsistent`; the event of the expiry job may be ahead of its commit)? Does a process request settle (`ProcessSettles`)? | 1.1 million |
| `scene_race` | MCScene | Which guarantees survive every interleaving? One selection, never rewritten; votes for candidates, and data, only of people who joined; deleted rows stay invisible | 3.8 million |
| `accounts` | MCAccounts | Organizations: does every sequence of calls keep an owner (`LastOwner`), the capacity and the roles of entry (`EntryKept`)? Can an old plan bring back a deleted organization (`DeletedForGood`)? Sessions, in turn: one live token per family, version equals tokens, a deleted user signed out (`FamiliesInTurn`); overlapping: does the version run ahead (`VersionNeverAhead`), does anything ended come back (`EndsForGood`)? Conversations, in turn: one row per user, one private conversation per pair, one group per organization with the members in it whose joining was published (`OneOfEachInTurn`); overlapping: is a private conversation personal (`PrivateIsPersonal`)? | 474 thousand |
| `people` | MCPeople | Messages: `SentOnceInTurn`, `NoGaps`, `HistoryKept`. `ContactsSound`, `MemoriesSound`, `WorkspaceSound` say what must hold of the three components of these names | 562 thousand |
| `services` | MCServices | Is sensitive data local (`SensitiveStaysLocal`), does every failure that is caught fall back within the budget (`FailuresFallBack`), and does every call end (`NothingHangs`)? Does the breaker hold off, recover (`NothingHangs`) and agree with the row (`NodeSound`)? Are frames in order (`FramesInOrder`)? One open scene per conversation (`OneCurrentScene`), nobody's preferences or vote lost (`OffersHold`, `NobodyOverlooked`)? Are the proposals (`ProposalsSound`) and the demo data (`DemoDataSound`) sound? | 355 thousand |
| `web` | MCWeb | Is what is published opened, one scene per key, choices among the offers? Is the client in step with page and server, and does it reconnect or give up? Is the message list newest first until older pages are asked for, does it hide nothing with one request at a time, and do the listings show what may be opened (`ListingsSound`)? | 150 thousand |
| `org_last_owner`, `audit_lost`, `dinner_late_result`, `realtime_no_backfill`, `demo_reset_others`, `demo_seed_crash` | | Does the code do what its comment or document says? | no: section 6 |

### Bounds, and why they are enough

*Scenes.* From DRAFT to an outcome a scene makes six transitions, so
`MaxVersion = 7` reaches every state in turn; with two users one is the creator,
the other may be invited, accept, decline or leave; with two candidates one can be
selected and the other not, or both eliminated. In the race run `MaxVersion`
bounds the versions at which a request may *start*: with 4 a generation can be
started by two requests, fail in one and publish in the other, be cancelled
meanwhile and be voted on (`MCScene!BeforeDeadline` cuts the states after the
instance's deadline, whose expiry the serial run has). Two workers are enough for a
check of one request to be invalidated by another, and for two generations; the
theorems drop the bound. *Page and hub:* `MaxScenes = 2` lets a user have a newest
dinner that is not the first; `MaxCrashes = 1`; two demo candidates and one of the
plugin. The behaviours have three parts, so that the product stays small: one
request at a time of a user who may retry (`RetryPart`, with the crash), requests of
one user that overlap while scenes are opened (`OpenPart`), and two users who vote
and confirm in one scene (`ChoosePart`). The proofs have no such parts.

*Dinners.* Two members, of whom one creates and the other joins or declines; one
thread beside the loop; two candidates; `MaxScenes = 2` (a second scene follows an
ended one), `MaxDebates = 2` (a negotiation and the one after it). Two parts again:
one scene with everything in it, or two scenes in a row with their creators only.
Five restaurants and a minimum of three candidates make every relaxation
necessary for some capsules. Search: two queries, two pages per query, two in all,
so that each limit bites. Demo data: two seedings that may overlap and crash, two
activities of users.

*Organizations.* A capacity of 2 among 3 users is full while somebody is still
outside, and an owner, an admin and a target can be three people. Requests are in
turn, except that a deletion may overlap an update (`MCOrg!InTurn`). *Directory:*
three organizations make a chain and a sibling, one user is an administrator and
one is not, a page holds one organization (`ListPage`), a limit of one recommendation is
exceeded by two clubs.

*Sessions.* Three sessions give one that is live, one that was logged out and one
that was compromised at the same time; three tokens give one used, one replayed and
one live. When requests overlap, two sessions and a rotation of their first token.

*Conversations and people.* Two users have one private conversation, two
conversations a duplicate of each kind; `MaxRows = 2` is the second row of a user
that must not appear. Two messages with one key are a repetition; `Limit = 2`
bounds consents and profiles, so that a second one exists, and the window of a prompt, so that a question can fall out
of it; `MaxTurns = 3` messages make it full. Symmetry of users, workers, profiles
and conversations is sound there: no liveness is checked in these runs.

*Platform.* One caller (calls share only the remembered health, which changes at any
time anyway), one HTTP retry; two processes with breakers over one row,
`Threshold = 3` as in the code and a pause of two ticks; a cache of two events
among three, so that one is forgotten and repeated; six frames.

*Client.* Two pages, so that one is left for another; two pushed events with a memory
of two; `MaxFailures = 3` and `MaxMissed = 2` failures before giving up;
`MaxCommands = 2` under way; `MaxSent` and `MaxClicks` stop the server and the user.
Chat page: two requests under way, pages of two, four messages.

Bounds named in the models: `MaxVersion`, `MaxCrashes`, `MaxTokens`, `MaxRows`,
`MaxMessages`, `MaxRecords`, `MaxProfiles`, `MaxScenes`, `MaxDebates`, `MaxFrames`,
`MaxSent`, `MaxClicks`, `MaxCommands`, `MaxOrgs`, `MaxActivities`, `MaxAnswers`.
They only keep new requests or events from starting.

`CHECK_DEADLOCK FALSE` where the system may stop: a scene with an outcome takes
no more requests, a deleted organization neither, and a component stops when it
has used up a bound.

### Fairness

No fairness is assumed of users, of the clock that ends a deadline, of crashes, or
of the jobs, which nothing schedules.

*`SceneLifecycle!FairSpec`*: weak fairness of `WorkerStep(w)`: a request that was
accepted runs on, as long as its process lives, because a thread of the pool runs
its handler. Under it `ProcessSettles`: a process request that reaches the
generation ends with the scene in VOTING or FAILED, unless a crash happens. It is
stated for requests in turn. With two workers it fails, and the code explains why:
a `start_processing` that read the scene early and commits late moves it back to
GENERATING_CANDIDATES after another request published its result; its own
generation then violates the unique keys and ends without a transition.

*`ModelGateway`*: weak fairness of a call's next step: every HTTP request has a
time-out, and the rest is computation. `CallEnds` then says that retries, fallback
and validation do not chase each other for ever.

*`NodeHealth`*: weak fairness of time, and of a check that was started (its probe has
a time-out). `BreakerRecovers` supposes that checks are requested again and again,
that the node stays up and that processes do not restart for ever; nothing in the
code schedules checks, so these are hypotheses of the property, not fairness.

*`RealtimeClient`*: weak fairness of timers that have been set, of the heartbeat's
interval, and of the browser, which reports an attempt to connect or a closed
connection by `onopen` or `onclose`.

### What the races show beyond the properties

With overlapping requests the properties named "in turn" do not hold, each
because a check is not repeated at the commit: a second generation after cleanup
leaves private data; two transitions take the same version; a capacity is
exceeded; a transfer of ownership planned before its target was removed commits
while the target's stale request to join keeps the role; two refreshes with one
token leave two live ones; a participant is inserted twice; two messages share a
number or a key; a pair of users has a relationship in each direction; a consent is
granted twice and revoked once; a deleted model profile is written back; two
scenes are created for one key; a node's row shows an older check than its
breaker; an older page hides a message that was already shown. These are
consequences of the missing locks, stated here and not as runs, since nothing in
the repository says otherwise.

## 5 Proofs

Checked by TLAPS, for all values of the constants under the assumptions named in
the modules. None is stronger than the code:

- `CreatorAssumption`, `FirstAssumption`, `UsersAssumption`, `AdminsAssumption`,
  `PoliciesAssumption`, `CapacitiesAssumption`, `RolesAssumption`, `ExpiriesAssumption`:
  the creator is a user, a user registers with a session, there are finitely many
  users, administrators are users, and policies, roles and expiries are members of
  their enumerations.
- `BoundAssumption`, `MaxVersion`... (`BoundsAssumption`, `MaxMessagesAssumption`,
  `MaxRowsAssumption`, `MaxRecordsAssumption`, `MaxFramesAssumption`,
  `MaxRetriesAssumption`, `SizesAssumption`, `CacheSizeAssumption`,
  `LimitsAssumption`, `PageAssumption`, `ClientAssumption`, `PageSizeAssumption`,
  `DirectoryAssumption`, `SearchAssumption`): bounds are natural
  numbers, and limits, windows and sizes that the code has are not zero.
- `MembersAssumption`, `RestaurantsAssumption` (hypotheses of the theorems, as
  `DinnerParameters` and `ProposalParameters` of `MCDinner`): a scene has finitely many members, at
  least one; prices, distances and scores are numbers; every restaurant serves those
  without a dietary restriction, as the data set has it (`restaurants.py`).
- `DemoAssumption`, `SchemaAssumption` (`DemoParameters`): the creator of the demo scene is a demo user;
  the rows that users add have identifiers that no seeded row has (identifiers are
  random; nobody else is registered under an address of the demo users) and refer only
  to tables that the foreign keys of the models let them refer to.
- `PairAssumption`: `Contacts` is about two different users.
- `NoneAssumption`, `NamesAssumption`, `ServersAssumption`, `EventsAssumption`,
  `ProfilesAssumption`, `Nobody` in `ClientAssumption`, `PluginKey` in
  `PageAssumption`, `Anonymous` in `DirectoryAssumption`: the values that stand for "no candidate", "no user", "a frame
  without an event" and the like are not also names of candidates, users or events.
  In the code they are `None`, or a field that is missing.

| Theorem | Statement |
|---|---|
| **`SceneLifecycle_proofs`** `TypeCorrect` | `Spec => []TypeOK` |
| `ResultIsUnique`, `VotesAreSound`, `ConsentPrecedesData` | `Spec => []OneSelection`, `[]VotesOnCandidates`, `[]ConsentBeforeData` |
| `ResultIsFinal`, `DeletedStaysDeleted` | `Spec => ResultWrittenOnce`, `NoResurrection` |
| `PrivateDataGoes`, `OutcomesAgree` | with at most one worker, `Spec => []PrivateDataGone`, `[]OutcomeConsistent` |
| `CarriesOutProtocol` | with at most one worker, `Spec => ImplementsProtocol` |
| **`OrgMembership_proofs`** `TypeCorrect` | `Spec => []TypeOK` |
| `OwnerRemainsInTurn`, `EntryIsKeptInTurn` | with at most one worker, `Spec => []LastOwner`, `EntryKept` |
| `DeletionIsFinal` | `Spec => DeletedForGood` |
| **`AuthSessions_proofs`** `TypeCorrect` | `Spec => []TypeOK` |
| `VersionFollowsTokens`, `EndsAreFinal` | `Spec => []VersionNeverAhead`, `EndsForGood` |
| `FamiliesAreSoundInTurn` | `MCSpec => []FamiliesInTurn`: any number of workers, at most one busy |
| `OneLiveTokenInTurn` | with at most one worker, `Spec => [](OneLiveToken /\ VersionCountsTokens /\ DeletedUserSignedOut)` |
| **`Conversations_proofs`** `PlansAreSound` | `Spec => []IInv` |
| `PrivateStaysPersonal` | `Spec => PrivateIsPersonal` |
| `OneOfEach` | `MCSpec => []OneOfEachInTurn`: any number of workers, in turn |
| **`People_proofs`** `MessagesTypeCorrect`, `NumbersHaveNoGap`, `HistoryIsKept` | `Spec => []TypeOK`, `[]NoGaps`, `HistoryKept` (of `Messages`) |
| `MessagesAreSentOnce` | `PeopleSpec => []SentOnceInTurn` |
| `ContactsAreSound`, `MemoriesAreSound` | `PeopleSpec => ContactsSound`, `MemoriesSound` |
| `WorkspaceIsSound` | `PeopleSpec => []WorkspaceSound` |
| **`Platform_proofs`** `GatewayTypeCorrect`, `SensitiveDataStays`, `NeverDegradesToExternal` | `Spec => []TypeOK`, `[]SensitiveStaysLocal`, `DegradesToLocal` (of `ModelGateway`) |
| `EveryFailureFallsBack` | `Spec => []FailuresFallBack` |
| `NodesAreSound` | `PlatformSpec => NodeSound` |
| `FramesComeInOrder` | `PlatformSpec => []FramesInOrder` |
| **`ChatDinner_proofs`** `OneSceneAtATime`, `OffersAreKept`, `NobodyLeftOut` | `ChatSpec => []OneCurrentScene`, `[]OffersHold`, `NobodyOverlooked` |
| `ProposalsAreSound` | `DinnerSpec => []ProposalsSound` |
| `DemoDataIsSound` | `DinnerSpec => DemoDataSound` |
| **`Web_proofs`** `ScenesTypeCorrect` | `Spec => []TypeOK` (of `ScenePage`) |
| `PublishedOnesOpen`, `ChoicesAreSound` | `Spec => []PublishedIsOpened`, `[]ChoicesSound` |
| `OneSceneForEachKey` | `WebSpec => []OneScenePerKeyInTurn` |
| `ClientStaysInStep` | `WebSpec => []ClientInStep` |
| `ListingsAreSound` | `WebSpec => []ListingsSound` |

"With at most one worker" and "in turn" mean that requests are served one after
another; the other theorems hold for *any* number of workers, callers or threads. Each
proof has an inductive invariant, named in its module; TLC has checked most of them on
the runs' instances before they were proved.

*Scenes.* The inductive invariant is `IInv == TypeOK /\ SelectionInv /\ VoteInv /\
ConsentInv`. `OneSelection` alone is not inductive: without a result nothing says
that no candidate is SELECTED yet, so `SelectionInv` adds it; then a publication,
which the unique key of `scene_results` lets through only without a result, is
safe, and a failing generation never selects. `VotesOnCandidates` needs that a
worker about to commit a vote still holds a candidate that exists and a user who
joined (`VoteInv`), which is stable because candidates are never deleted and
`joined_at` is never cleared; whoever is ACCEPTED joined, so the check of the status
implies it. The same for submissions (`ConsentInv`).

*Scenes in turn.* With one worker what a request has read still holds when it commits,
which `RequestInv(w)` says phase by phase: the transition it writes is legal from the
present status, a generation works on a scene without candidates and on the rows as
they are, a vote is for a candidate of an open vote. `EarlyInv` (no candidates and no
result before the generation) and `PrivateInv` (payloads that outlast a publication are
about to be purged by the request that published) complete `SerialInv == TypeOK /\
EarlyInv /\ RequestInv /\ PrivateInv /\ OutcomeConsistent`. Under it each step of
`SceneLifecycle` maps to a step of `SceneProtocol` or to a stutter (`StepsAsProtocol`);
a step that dies midway, or only reads, stutters. With two workers `scene_race` covers
what remains true.

*Organizations.* `LastOwner` is not inductive because the owners are counted
when a request is planned. `PlansInv` adds that committing a pending plan to the
rows as they are would leave an owner. With one worker
nothing commits between plan and commit, so what the plan knew still holds. This is
exactly what fails with two, and `org_last_owner` is the counterexample. `EntryKept`
needs the same of those whom a plan lets in (`EntersRightly`): there is room for the one
more member (`RoomForOne`), and nobody outside has an office.

*Sessions.* `RowsInv` says an unused identifier has no tokens and the version of a
used one is at most the number of its tokens; `PlanInv(w)` what a plan may rely on
however old it is: the identifier it opens is its own and unused, the sessions it
rotates or ends are rows, and the version it writes is at most one more than the
tokens there are. `FamilyGrows` is the lemma that carries it: a commit turns
tokens to USED or REVOKED and appends at most one. In turn, `FreshPlan` adds that
what a plan read is still so: it rotates the newest token of an open session, and
revokes every live token of the families it ends; then a commit leaves at most one
(`CommitKeepsFamilies`), which is what `FamiliesInTurn` checks.

*Conversations.* `IInv` describes rows (`RowsOK`) and plans (`PlanOK`) under any
interleaving: a conversation that does not exist yet has no rows and at most one
plan that creates it (`OneCreator`), and in a private conversation, when there are no
administrators, a plan is its actor's own removal, since `Manages` is false of
everybody there. A commit then only ends its actor's participation
(`CommitCloses`). In turn, `TurnPlan(p)` says that what the plan found is still so
when it commits (no private conversation of this pair, no row of this user, no group
of the organization). "Announced members are in the group" is not
inductive, because the handler of the event runs after the membership was committed:
`MembersCome` says that one who is not in the group has an event in hand or a plan on the
way (`Coming`). The rows
of a private conversation only come to an end, so one that is taken for a pair stays
of that pair.

*Messages.* `NoGaps` needs to know what number a plan carries: it is one, or one more
than that of a message which exists (`SendsFollow`); and that a deletion is planned
for a message that exists (`DeletionsExist`). Both are stable because messages are never
removed and never renumbered. In turn, `SendFresh` adds that the planned number is the
next position and its key is new.

*Contacts.* However old, a plan names a row that exists, in the direction it had, and
records the hands of those who asked (`ContactPlanInv`): rows are never removed, and
`acted` only grows. A second row of one direction needs a commit that the unique key
lets through. In turn, a row is planned only when there is none (`ContactFresh`).

*Memories.* `MemoryPlanInv` ties what a request's session holds to `done`: an audit row
is held only after its operation was committed, so one that lasts is true. A deleted
memory keeps its row, and the one request that may insert one is alone (`OneWrites`).
That a revocation takes effect needs in turn that no two consents are in effect at once
(`OneEffective`), which a grant keeps because it looked before.

*Personal agent.* `RoutesKept` says the route of an agent is sound (the profile in use
is stored, the limit kept), `RoutePlanInv` the same of every route that a request is
about to write: the column is written whole, so a stale write is sound if it was sound
when it was computed. `ThreadInv` ties each chat under way to a question of its own
that nobody else answers (`OwnQuestions`); the question is among the latest messages
of the prompt because nothing that was loaded with it is newer (`QuestionIsLatest`).

*Model gateway.* The privacy of a call is in what it may still do: `OnlyAllowed`
says that the provider a call selected and the one it is with are allowed for its
request, in whatever phase it is; each way to a new provider (selection, fallback,
the retry after validation) passes `PrivacyAllows`, and a request does not change
during its call. `FewExcluded` says which providers a validation retry leaves out.
For `FailuresFallBack`, `Led` says what led a call to its provider: which were left out
before it. Without a local node the way out of any provider ends with the rule engine
and the mock (`LedToMock`), and these compute an answer; so an answer of another shape,
which only HTTP brings, ends a call only at the provider asked first. The budget is paid by at most
three providers behind HTTP (`Earlier`, `Spent`), each twice over because a validation
may ask it again.

*Nodes.* The consecutive failures that `NoProbeWhileCooling` counts are the breaker's own
count, and a full count leaves the breaker open, or half open after the pause
(`BreakerInv`). Each step concerns one process (`Moves`), so their number does not
matter. In turn (`NodeTurn`), only the first process checks, and the row it saves says
what its breaker says.

*Realtime server.* The server's cache holds identifiers of events, the client has frames;
`Traced` relates them: there is an increasing map of the entries of the cache to the
frames that carried them, the last ones pushed. An event that is not in the cache but
was received before therefore has a whole cache of others after it (`CacheBetween`).
A counter is ahead of the frames only when a push failed, and then the connection is
closed (`LiveInv`).

*Chat dinner.* The invariant is `Shape` (types), `OneCurrentScene`, `VoteForOffered`,
`EveryPreferenceCounted`, `Unpublished` (a scene that was not negotiated has no
candidates) and `LoopAt` (what the loop's request may rely on at each of its
commits). The argument is about the event loop: a coroutine that reads, waits for its
providers and writes never awaits, so nothing but threads runs beside it, and these
only close, end or edit the context; what it read about participants, submissions and
candidates still holds, and a vote cannot come between a negotiation's reading and
writing, because votes are served by the loop too. For `NobodyOverlooked`, `AllIn` adds
that everybody in a scene being negotiated has handed in preferences; for the types,
`Typed` that the negotiation under way has read a context that has room for one more.

*Choice of the plugin.* `ChoiceInv` says, from the generation on, that every restaurant
that suits all (`Suitable`) is a candidate. It does not depend on how many candidates
an attempt must have: the bounds of the group are bounds of some member (`GroupBounds`;
a finite set has its least and greatest element, `Extreme`), so such a restaurant goes
through the narrow and through the widened filter (`SuitableGoesThrough`), and each of
the four attempts has it. The ranking places each aggregate behind as many as are
before it; the order is strict and total on aggregates with different keys, so these
places are all different and all taken (`PlaceInOrder`), and the first has none before
it: if it did not pass, nothing passed (`RankedWell`).

*Search.* `SearchInv` says that the evidence has distinct pages, and that the
candidates of a finished negotiation are one to four and each cites evidence
(`Sourced`). They are folds over results, answers and proposals: a fold goes through
the sets of the first places, and what each of its steps keeps the whole keeps
(`FoldKeeps`, by the least place at which it would fail).

*Scene page.* `ScenesOK` describes a scene, `RequestsOK` what each request may rely on
at its step, `Driven` says that a scene between publication and opening has a
request at work on it unless one has died. The relation `Grows` between two states
(scenes, candidates and results are only added to; statuses move on) carries the
facts of a request over the steps of the others. For one scene per key, `KeysInTurn`
says that a request between its look at the key and its insertion is the only one that
works, so the scene it did not find is still not there; every other step leaves the
keys as they are (`StepPlain`).

*Realtime client.* `Steered` is about the client alone: socket, timers and subscriptions
fit the state it is in. `Followed` is about the commands under way: for each
conversation, the last word to the server, which is the last command about it or else
the server's own state, says whether its page is open. Sending adds a last word
(`WordAdded`), the server's taking the oldest moves it into the server's state
(`WordTaken`), and `onopen` begins anew (`RestoredWords`). `Counted` has the types of the
numbers it reads, which nothing else depends on.

*Message list.* `ChatInv` says of every answer under way that it is a page of the
history as it was at some moment (`Answer`), which stays true as messages are only
added; with one request at a time that moment is no older than anything processed, so
the latest page, when it replaces the list, drops only what newer messages have pushed
out. Until older pages are asked for the list has processed messages only, so what is
added is not on it yet, and sorting distinct messages puts each before the older ones
(`NewestFirstSorts`: a place is taken by the message that fewer than so many are newer
than and at least so many are as new as).

*Directory.* `DirectoryInv` adds to the types that numbers have no gap (`NoGaps`), so a
new organization is the newest one and its parent is older; and that as many
organizations come before each one the walker has still to see as were read
(`NotPassed`): a creation only pushes it on. The first n of a listing are at most n
because the oldest of them has fewer than n after it (`NewestFew`). The tree and the
way to a root are recursive functions; that they exist (`SomeLevels`, `SomeWays`), and
that each level has just those organizations that may be opened with all above them
(`LevelsFollow`), follows from the least number for which it would fail.

*Demo data.* Whatever rows users add within the foreign keys, and however many
seedings run: `SeedingInv` says that there is at most one demo scene, complete, given
up or being seeded. `ResetInv` measures distance from the demo users and organization:
a reset collects what is one row away, the scenes of its conversations are two away
(`CollectedNear`), so what it deletes is at most three away. `Cleared` says that while a
reset runs alone nothing is left to delete in a table whose statement it has been
through. Every table that may refer to another one comes before it in the statements
(`ReferrersFirst`), so a row in the way that some statement deletes is gone already, and
one that is still there is deleted by none (`StoppedByLeftover`).

*Only model-checked.* Liveness (`ProcessSettles`, `NothingHangs`, `ReconnectSettles`) is out
of the prover's reach. Every other property of a passing run is a theorem.

## 6 Where the code and its documents disagree

Shown by a run that finds the counterexample:

| Run | What is said | What the code does |
|---|---|---|
| `org_last_owner` | `organizations/service.py:706`: "Protects the last OWNER" | two owners who leave at the same time leave none |
| `audit_lost` | `src/docs/development/P6-COMPLETION-REPORT.md:35`: operations on memories and consents are audited automatically | the audit row is flushed after the last commit and rolled back with the session |
| `dinner_late_result` | design of the chat dinner, `:93`: late results must not be written back | a negotiation that ends after the vote was closed or the scene ended opens the vote again |
| `realtime_no_backfill` | `web/lib/realtime.ts:10` (and §6.3 of the WebSocket contract): "HTTP backfill on reconnect" | a new connection subscribes again and fetches nothing: only a jump of the sequence, which a new connection starts anew, asks for a backfill |
| `demo_reset_others` | `demo/reset.py:3`: "non-demo rows are preserved" | conversations and scenes of others in which a demo user takes part are deleted with all their rows |
| `demo_seed_crash` | `demo/seed.py:3-4`: "repeated runs produce the same end state" | a seeding that dies between its commits leaves a scene which the next one finds and does not complete |

Met while modelling, and modelled as the code has it:

*Scenes.* `scenes/events.py:4` says that events are "published AFTER a successful
commit": `expire_stale_instances` (`service.py:446-461`) publishes before it, and even when
its compare of the version changed nothing; after a crash in between, or a transition that
won the race, an expiry stands announced that did not happen (`EventsTruthful` makes
this one exception). `cleanup.py:44` says it is called "also by the cancel/expire/fail handlers":
no such handler calls it, and a scene cancelled while collecting keeps its payloads.
`service.py:329` says concurrent modification raises: the UPDATE does not compare the
version, the later commit wins and reuses the version. `repository.py:312` says
"Permanently clear": a replacement read before the purge writes the payload back into
the deleted row. `service.py:597` says "Submit (or replace)": after a deletion the row
still holds the unique key and the INSERT fails. The safety net for left-over
payloads (`repository.py:342`) skips rows that their owner deleted.
`create_scene_instance` documents `SceneAlreadyExistsError`, and returns the scene
that exists, whoever created it; two creations with one key that overlap make two.
What somebody submitted before leaving is still used by the generation.

*Demo page and hub.* A crash between the page's three commits leaves it at a scene it
never opens: each further request ends with `ALREADY_CLOSED`. A confirmation
overwrites the result in any phase; one that comes before a generation breaks the
generation's unique key and leaves GENERATING_CANDIDATES. The page also writes into
the scenes of a chat and of the coordinator: the properties of `SceneLifecycle` and
`ChatDinner` are those of their own operations. The hub
(`web/app/scenes/page.tsx:260-282,308-317`) has no button for a scene in INVITING, where
a lost second request leaves it, and its idempotency key contains `Date.now()`, so that
a repeated click creates another scene.

*Chat dinner.* A renegotiation after votes fails: the deletion of candidates
(`chat_dorm_dinner.py:670`) violates the foreign key of the votes. Asking for the next
negotiation writes the whole context, and may overwrite what a negotiation wrote; on a
draft that was never initialised it makes the draft unrecoverable. Joining during the
vote makes every further negotiation wait for that member. Two candidates of a model
with one key break a unique key after the transcript was posted. `end_scene` does not
purge private data, which the design (`:255`) asks for.

*Plugin.* The docstring of the algorithm speaks of the "intersection" of time slots,
the code takes their union; the fourth relaxation uses the narrow budget again after the
third had widened it; fewer than `MIN_CANDIDATES` remain possible.

*Organizations.* An error message reserves the role OWNER for owners and system
administrators (`organizations/service.py:452,739`); a SCHOOL_ADMIN can approve a request
with that role (`:661`). `conversations/permissions.py:7` says "In ORG_GROUP, all active
org members can participate": who comes in by an invitation or an approved request is
announced by no event (`organizations/service.py:576-583,671-680`) and has no row in the
group, while a request that waits for approval is announced as a joining (`:938`) and its
user gets one. The handlers that keep the group conversation of an organization
in step are not subscribed in `main.py`. The directory's search also matches e-mail
addresses and ignores the visibility of profiles; pages are cut before the filter for
visibility, and `total` counts one page; archived siblings are recommended; children
of a hidden or deleted parent cannot be reached; recommendations read twice the limit
of clubs before they leave out those joined, and those for anonymous viewers filter
after the limit.

*Platform.* `_call_with_fallback` says "on timeout/error, degrade to a local fallback"
(`model_gateway/service.py:360`): a 200 whose JSON has another shape raises an
AttributeError, TypeError or ValidationError (`openai_compatible.py:282-318`), which is not
caught and ends the call without its fallback (`FailuresFallBack` excepts it). Remembered health of a provider is never looked at again. A deleted node's
status is overwritten by a check under way (it stays deleted). `resource_version` of
nodes is never compared. Broadcast handlers of the realtime server are coroutine
functions that nobody awaits, and no code broadcasts. `RedisPubSubBackend` is not used.

*Web client.* A jump of the sequence goes unnoticed when the frame that jumps is a
duplicate, or names no conversation. A close with 4401 is
treated as a network error; the server's refusal before accepting (1008) reaches the
browser as 1006, so it retries instead of giving up. The first backoff is one second,
not zero, and an opened socket resets the count of failures, so that a server that opens
and closes is tried for ever. `disconnect`, `reset` and `hasRefreshedAfterHandshakeFail`
are unused. On the chat page a stale first page hides a message that counts as
processed, and "load more" repeats rows when messages have arrived meanwhile, and puts
older pages in front. `AuthProvider.logout` (`web/lib/auth.tsx:56`) posts without the CSRF
header that the API asks for.

*Demo data.* A reset is refused by rows of tables it does not know.

## 7 What is not modelled

*Components.* The web client's other pages, the hook `useAsync` and forms: no state beyond
what one screen shows. Configuration, middleware, the Redis cache (only pinged),
metrics: no protocol. `admin` and `notifications`: no code yet. Scripts and
infrastructure: they run beside the program.

*Of the modelled components.* Formatting, schemas, logging, wording, HTTP, password
hashing, signatures of tokens, access tokens and CSRF (stateless). Scenes: rows of
`scene_audit_logs`, listings, several instances in `SceneLifecycle` (`ScenePage` has
them). Plugin: soft scores beyond their order, reasons and their redaction, the
registry. Users: profile updates, the memberships of a deactivated user.
Organizations: name, description, the uniqueness of slugs. Directory: the search of
users. Audit: its query. Agents: plain columns, the test call of a profile. Gateway:
rows of `AgentRun` (embeddings are modelled, with their one fallback). Nodes: models,
deployments and metrics, which are inserted and listed. Chat page: deletion of a
message (its text is rewritten in place) and the panel of the dinner.

*Simplified.* Statements of one request that read at different moments are one step
unless a comment says otherwise; a rolled-back request that had flushed has no
effect, which READ COMMITTED gives. Different components are composed where they share
state (an organization and its group, a session and its user, a capsule and a memory);
the deactivation of a user is modelled in each component that reads it.

## 8 Plan

Done: the models of all components of section 1 but those of section 7; proofs of every
safety property that a run checks.

Left, in this order:

1. `Conversations` and `Realtime` composed: who has left a conversation is pushed to no
   longer. Now the server checks membership when a client subscribes only.
2. The panel of the dinner on the chat page, and `NodeHealth` with its models and
   deployments, when they come to be used.

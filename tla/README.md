# agent-mailbox in TLA+

A verification development for the repository's two mailboxes for LLM agents.
`src/src/agent_mailbox` is the present one: one SQLite file, served by one asyncio process.
`src/agent-mailbox-old` is the implementation it supersedes: one SQLite file that every call
opens for itself, from an MCP server, an HTTP API, a command line and a web console. The
modules are translated from the code; the docs are quoted only where the code and they
disagree.

Paths below are relative to `src/src/agent_mailbox`, and with the prefix `old/` to
`src/agent-mailbox-old/src/agent_mailbox_old`, unless they say otherwise.

## 1. The system

| component | state | operations | interacts with |
|---|---|---|---|
| Messaging rules, `rules.py` | none: pure functions | membership, audience, party, unread, thread root, visible turns, attachment, expiry | called by the engine on snapshots it took from the store |
| Mailbox engine, `mailbox.py`, `records.py` | none of its own; each request is a coroutine with locals that survive awaits | join, whois, directory, update_profile, send, reply, peek, unread_count, read, view, thread, install_resident, expire | awaits the storage port once or several times per operation |
| Storage port and in-memory store, `store.py` | three dictionaries | ten calls; claim_name and mark_read must be atomic | stands in for SQLite in tests |
| SQLite store, `sqlite_store.py` | one connection and its open transaction; tables actors, objects, reads | the same calls, each a statement (removal: two), an await and a commit | one connection for every request, closed and reopened with the process |
| House, `house.py` | none | check, act, record around send, read, join, reply; the rest passed through | calls the engine, offers attempts and outcomes to the policies |
| Policies, `policy.py` | ProbeDetector counts refusals in memory | on_open, check, record | StandingResidents installs `admin` and `host`; MessageLimits refuses; AuditLog logs |
| Serving, `serve.py` | settings, the application | startup hooks, shutdown | opens the store, then the house, then requests are served |
| HTTP API and wire, `api.py`, `wire.py` | none | one route per operation; decoding and rendering | turns each request into one call of the house |
| Addressing and naming, `addressing.py`, `naming.py`, `name_pool.py` | word lists | parse, local_name; normalize, validate, generate | conversions the engine applies to what a caller typed |
| Errors and vocabulary, `exceptions.py`, `errors.py`, `vocabulary.py` | none | codes, HTTP statuses, two enumerations | |
| Old mailbox, `old/mailbox.py`, `old/models.py` | tables messages, broadcast_reads, agents, forwards | send, read, reply, ping, peek, threads, register, update_status, supersede, rename, retire; purges when it is opened | one connection per call, so that calls of several processes interleave statement by statement |
| Old addresses and identity, `old/config.py`, `old/identity.py` | settings | parsing of addresses and targets, who the caller is | every surface asks it who calls |
| Old surfaces, `old/mcp_server.py`, `old/api.py`, `old/cli.py`, `old/webui.py` | none | one entry point per tool, route, command or form | each opens the mailbox and makes one or more of its calls, in its own order |
| Old store upgrade, `old/mailbox.py:208-389` | the schema version, the tables of versions 1 to 4 | two upgrades, statement by statement, and the stamp | runs at every opening, in whatever process is first |

What is hard in it:

- **Interleaving at awaits.** An operation reads actors, then objects, then read-state, then
  writes, and other requests run between any two of those. Every decision is taken on
  snapshots that may be stale: who is in a group, whether a parent may be answered, which
  threads are idle.
- **One shared transaction.** All requests write through one connection. A statement of one
  request is committed, or lost, by another request's commit.
- **Stopping and starting.** The process may stop between any two steps; the file survives,
  the coroutines, the transaction and the counters do not.
- **Addresses that resolve twice.** An audience is resolved when a message is sent, and the
  stored names are resolved again whenever somebody looks.
- **Names that change.** In the old mailbox an agent is a string in four tables. A rename
  rewrites senders, recipients, read rows and forwards with separate conditions, while other
  calls hold what they looked up before.
- **Upgrades at opening**, cut short anywhere, repeated, and run by two processes at once.
- **Threads chained by ids anyone can name**, with turns of different parties, expired as a
  whole.

What makes each component correct, in short: a name and a profile belong to one actor for
good; a message reaches, once, those who were there when it was sent, whatever changes later;
a reader consumes only their own copy and it stays consumed; what a call answers is mail of
its caller; a thread is a tree, joined only by those who see it, and expires whole; what a
caller was told is on disk; the residents can be written to from the first request on. In the
old mailbox, mail and what was read follow an agent through its names, nobody who is around is
evicted from the directory, and an upgrade loses nothing and resurrects nothing.
`PROJECT.json` lists under `hazards` every place where the code could go wrong on these, with
the property that would show it, or why none does.

## 2. The modules

| module | what it is |
|---|---|
| `Rules` | `rules.py`, one operator per function. The actor and object tables are functions from names and ids; where the code filters a sequence the operator is a set of ids. `thread_root` is a recursive function over the set of ids already seen, as in the code. |
| `Mailbox` | `mailbox.py` as coroutines. State: the three tables, the clock, and for each task the locals it holds. One action per **segment** between two awaits: it uses the answer of the previous port call, decides, and issues the next call, which takes effect (or takes its snapshot) in the same step. |
| `MailboxProps` | the properties of `Mailbox` |
| `Delivery` | the abstract promise: a message is delivered once to a fixed set of readers, each copy waits until its reader consumes it, and only housekeeping takes messages away |
| `MailboxDelivers` | the refinement mapping from `Mailbox` to `Delivery`: a copy waits for whoever the unread rule would list it for today |
| `SqliteStore` | `sqlite_store.py`: statements and commits of concurrent calls on one connection, with `db` the tables as the connection sees them and `disk` as last committed |
| `House` | `house.py`, the default policies and the life of the process, wrapped around the actions of `Mailbox` |
| `Desk` | the routes of `api.py` in front of the mailbox, with `naming.py`, `addressing.py` and `wire.name_from` as operators on sequences of character classes: a request is decoded, and starts one call of the engine or is refused |
| `OldAddresses` | `old/config.py`: what a string like `proj/agent/role` means and whom it reaches; a string is a sequence of tokens |
| `OldDoors` | how each old surface finds out who calls: the paths of the HTTP server, the address in a header, the settings |
| `OldHub` | `old/mailbox.py`: every call that changes the store, one action per statement with its commit |
| `OldDesks` | the old surfaces: which steps each entry point takes, in which order and for whom. A call is the sequence of steps it still has to take, with what it has read so far |
| `OldHubProps` | the properties of the old hub |
| `OldUpgrade` | opening an old store: both upgrades one statement or atomic transaction part at a time, the stamp, crashes, two openers |
| `MCMailbox`, `MCSqliteStore`, `MCHouse`, `MCDesk`, `MCOldHub`, `MCOldUpgrade` | values of the constants for TLC |
| `MailboxProofs`, `MailboxThreadProofs`, `MailboxDeliveryProofs`, `SqliteStoreProofs`, `HouseProofs`, `DeskProofs`, `OldHubProofs`, `OldUpgradeProofs` | theorems and proofs |

`House` extends `MailboxDelivers`, which extends `MailboxProps`, `Mailbox` and `Rules`, so
that the house is checked with the whole engine inside it. `Desk` extends `MailboxProps`, and
a post to it runs the segments of `Mailbox` to the answer. `SqliteStore` stands beside them:
it justifies, and limits, the assumption of `Mailbox` that a port call is atomic and durable.
`OldDesks` extends `OldHub` and `OldDoors`, which both extend `OldAddresses`; `OldUpgrade`
stands alone, since no other call runs before the upgrade of its own process is done.

How the code appears:

- `Send`, `SendContext`, `SendDecide`, `SendAttach` are the four segments of `send`: to
  `get_actor`, to `actors()`, to `objects()` or `add_object`, and from `objects()` to
  `add_object`. `Reply`, `VisibleActor`, `VisibleObject`, `ReplySend` are those of `reply` up
  to the point where it becomes a `send`. `read` checks its caller twice, as the code does.
- The segment after the last port call, which only returns, is merged with the one that issues
  the call, except in `House`, where it also tells the observers (`Record`).
- A raised exception is an answer with its code. A join that finds its name taken, a message
  that does not exist and one that is not the caller's are answers like any other.
- In `Mailbox` an address `local_name` refuses, on another hub or malformed, is the value
  `Elsewhere`, and names are taken as normalised already. `Desk` does the conversions.
- The actions of `Mailbox` that clients start have a form with parameters (`SendAs`, `JoinAs`,
  ...), which `Desk` calls with what it decoded, and one that quantifies over the constants.
- In `Desk` a character is a class: a lower or upper case letter (or digit), a letter with a
  diacritic, something that becomes an underscore, an underscore, or anything else. A note lists
  its `to` and `cc` together. `asked` is history: the owner in the path of a task's last request,
  the names its note listed, the message it answered, whether it listed somebody on another hub,
  and who had joined when it arrived.
- `reads` has a row per message and reader. `acked`, `waiting`, `added`, `taken`, `told`,
  `bulky` and `lost` are history: no action's guard depends on them, but that ids are drawn
  once. (`unused` is what `uuid4` has not drawn yet; it bounds the messages.)
- In `OldHub` a step takes the head off a call's plan. A step that raises, or that finds
  nothing to do, empties it (`Abandon` is a call cut short at any await: its connection is
  closed, and what it has not committed is gone). `day` is the wall clock in days.
- In `OldHub`, `by`, `for`, `root` and `late` of a message, `handed`, `left` and `sharing` are
  history: who wrote a message, whom it named when nothing interleaved, what it answers and
  whether that was gone when the answer was stored, what each client was handed as unread, who
  moved away from a string, and who shares a name because one took the other's. No guard depends on them.
- In `OldUpgrade`, a read is a message and the address it is recorded for. `before` is history
  (the messages the store held), and `keeps` is a choice
  of the environment: an SQLite too old to drop a column.
- Operators whose comment begins with "Slip:" are the mutants of `PROJECT.json`: a plausible
  wrong version of the definition that follows.

Left out throughout: subjects, bodies (but for their size in `House`), documents, `last_seen`,
the `at` of a read row, rendering and logging; in the old hub also intents, and profiles but for
one card. The clock does not run backwards.

## 3. The runs

Every bound is a constant of the instance. Symmetry is over requests, ids and, in the store,
names and profiles: none of them is distinguished by an action, and symmetric runs check no
liveness. `old_hub` and `old_upgrade` turn deadlock checking off: there the calls, crashes and
days are bounded, and when all are spent and every opener is served, nothing is left to do.

| run | bounds | what it shows |
|---|---|---|
| `audience` | 2 requests, 4 names of which one is a group and one a reserved resident, a pool of 2 names to issue, 2 attempts, 1 message | joins race until the pool is empty and overlap profile updates and sends to the group and to everyone: stored audiences are exactly who was reached and membership changes move no mail (`StoredAudience`, `Delivers`, `TypeOK`); identities are permanent; every call is answered (liveness) |
| `conversation` | 2 requests, 2 agents, 2 messages, any parent | send, reply, read, view, peek and thread overlap, with no sweep: nothing consumed is listed, nothing waiting is missed, only parties consume, replies attach within sight, no cycle, every view is per turn |
| `expiry` | 2 requests, 2 messages, any parent, days 0 to 2 | with sends and reads overlapping sweeps, a thread is split only by a turn stored after the sweep looked (so that a sweep nothing overlaps takes it whole), no message younger than the retention period goes, and delivery still holds |
| `store_shared` | 2 requests, 1 name, 1 message, 2 profiles, crashes | requests that commit each other's statements: each name and each consumption is won once, answers are on disk, and only a commit of the other request between the two statements of a removal tears it |
| `store_alone` | 1 request, 2 messages, 1 variable per statement, crashes, failed commits | reads go only with their messages |
| `house` | 2 requests, 1 agent, 1 resident, 2 messages, 2 days, 1 recipient allowed | stops at any await: residents are reachable from the first request served, limits hold for replies, the log misses only what a stop cut off |
| `desk` | 1 request at a time, every string of up to 5 characters as a name asked for, 5 callers, 7 lists of recipients, any parent, 2 messages, names of at most 4 characters, 3 of which can be held | each spelling of an actor reaches that actor, reserved words stay free, foreign addresses stay foreign, an accepted post is stored for exactly those it is for, an outbox and an inbox are those of their path |
| `old_hub` | 2 clients of one project, one with a role over MCP, the other on the API, the command line and the console; 3 calls in all, 2 messages, days 0 and 2, every lifetime 1 day; sends to a name and to a project, renames to a former name of the other, to a page's name and back, one supersede | calls and parts of calls in any order, cut short anywhere, with days passing: what was handed out stays read, mail follows the renamed, own mail stays own, waiting for an answer ends with it, an answer stored beside its original keeps it, nobody active is evicted, forwards make no circle, every URL handed out leads home |
| `old_upgrade` | 2 openers, 2 crashes, every subset of 4 messages (one per combination of kind, named or not, consumed or not that the upgrades tell apart), stores of version 1 (stamped or not), half upgraded, 2, 3, newer, and none | no message is dropped, the stamp does not run ahead of the data and every mark has become a read of the address it was sent to, the routes of a served store are kept; every opener is served or refused in the end (liveness) |
| `expiry_splits`, `shadow` | 2 requests, in `shadow` 1 | end in a counterexample; section 4 |
| `old_orphans` | those of `old_hub` | ends in a counterexample; section 4 |

Why these are enough to be worth something: each hazard listed needs two requests at most (one in
the middle of an operation, one that runs to its end meanwhile), two messages (one and its reply,
or the one listed and the one stored meanwhile); threads of any length are the theorems'. Two days
make a thread whose opening is past the cutoff and whose reply is not.
`desk` asks what a conversion does to a request, not how requests overlap, so one at a time is
enough; five characters are enough for a case, a diacritic, a separator and a character to drop
between two underscores, and for a name that is one too long.
In `old_hub` three calls are a send, a rename and a look (or two renames and a send), and two
messages a message and its reply; a second day makes a directory entry stale, a thread old and a
forward end. For most of the safety properties of the present mailbox, of the old hub and of the
upgrade the theorems of section 5 remove the bounds. Each property of each passing run has a
mutant that violates it within the same bounds.

**Fairness** is used in two runs. In `audience`, for `EveryCallAnswered`, `FairSpec` adds weak
fairness of `Resume(t)` for each request: asyncio runs every ready coroutine, and aiosqlite
answers every call in the order issued, so a request that can be resumed is. In `old_upgrade`,
for `EverybodyOpens`, weak fairness of `Opening(o)` for each opener: a process that nothing
stops goes on with its statements, and one whose opening failed opens again with its next call,
as every entry point does. Crashes are not obliged to end by fairness but by their bound.
Nothing obliges a client to call, the clock to tick, or anything to call `expire`, and no
fairness says so.

## 4. What the runs found

Three runs state what a comment or a doc claims and end in a counterexample.

- `expiry_splits`: `expire` removes what a snapshot condemned (`mailbox.py:379`). A reply stored
  between the snapshot and the removal stays without its opening, which
  `src/docs/messaging-rules.md:222` calls worse than deleting nothing.
- `shadow`: stored names are resolved again through today's memberships, and a membership
  shadows an actor of the same name (`rules.py:60`). Once a profile lists an agent's name as a
  group, mail delivered to that agent resolves to the lister. The positive properties and
  theorems about audiences therefore assume `NamesAndGroupsApart`.
- `old_orphans`: a reply looks its original up and is stored several awaits later. An opening of
  the file in between purges the thread, and the reply stays without what it answers, which
  `old/mailbox.py:427` says housekeeping never brings about. What holds is that an answer stored
  beside its original keeps it (`RepliesKeepTheirRoot`).

Two properties hold only without a fault that the code can meet, and fail when the instance
allows it:

- `ConsumedStaysConsumed` is stated without expiry. `peek` lists the objects and asks for their
  read-state in a later call (`mailbox.py:280`). When a sweep removes both in between, a message
  its caller has consumed is listed as waiting: `conversation` with `expire` among its `Ops`.
- `AnsweredIsKept` is stated without failing commits. One that SQLite rolls back takes the
  statements of other requests with it (`sqlite_store.py:195`); their own commits then succeed
  with nothing to commit, and they report success: `store_shared` with `commit` among its
  `Faults`.

Observations on the present mailbox that have no run of their own:

- `read` may leave a row for a message a sweep has just removed, and nothing removes it later.
  `remove_objects` is torn when another request commits between its two statements and the
  process then dies. Nothing calls `expire`.
- A note that lists nobody and answers nothing is sent as it is, answered 201 and stored for its
  sender alone (`api.py:166`, `mailbox.py:250`), and so is a reply to a message of one's own, or
  one to a group whose last member has just left, which `mailbox.py:246` allows. `mailbox.py:242`
  calls a success that reaches nobody the worst outcome for an agent. `PostsReachTheNamed` says
  that a post reaches exactly those it is for, which may be nobody.
- `normalize` is not idempotent (`a_!_a` becomes `a__a`, and that `a_a`). `GET /actors/{name}`
  takes a name as it came (`mailbox.py:133`), so `name@local` is not found there. A hub name with
  a capital is never recognised (`addressing.py:56`), and a foreign URI whose host is called
  `local`, or what the hub is called, is taken for this hub.
- A profile whose groups are not a list is iterated as it is (`rules.py:39`). Times are compared
  as text, so a clock set back makes a reply older than what it answers (`mailbox.py:378`). A
  policy refuses before the observers are told (`house.py:115`), and `ProbeDetector` never hears
  of a failing view (`policy.py:245`).

Observations on the old one, met while modelling:

- A string whose forward has ended can never be written to again: it is refused as gone also
  when somebody has taken the name since (`old/mailbox.py:93`, `464`).
- The upgrade to version 3 records the address a message was sent to as its reader
  (`old/mailbox.py:366`). Whoever holds a role reads under the address with its role, so what it
  had consumed waits for it again, although the upgrade means not to resurrect mail people have
  dealt with (`old/mailbox.py:370`). `StampIsHonest` states it as it is: the mark becomes a read
  of that address and of nobody else.
- A send that looked its forward up before a rename and inserts after it is stored under a name
  nobody reads any more. Two renames that interleave can close a circle of forwards, since both
  walk them before either writes; with both agents on MCP and `ForwardsEnd` asked of every step,
  TLC shows it in four calls.
- The command line never touches the directory, so an agent that only uses it looks stale while
  active, and its name may be taken.
- A project called `ui` or `prompts` is unreachable over HTTP, where those are pages.
- An opener that is late in the upgrade rebuilds the directory of one that has finished, and the
  roles registered meanwhile are gone. An opener that is refused raises without closing its
  connection (`old/mailbox.py:218`), which keeps its transaction and its lock until it is
  collected; `EverybodyOpens` takes it to have let go.

## 5. What is proved

tlapm checks every proof to the last leaf. The theorems hold for every value of the constants,
any number of requests, names and messages, under the named `ASSUME`s of the modules
(`MailboxAssumption`, `StoreAssumption`: the sorts are disjoint, sets of names are names,
numbers are numbers) and the hypotheses stated here.

- `TypesHold` (`MailboxProofs`): `Spec => []TypeOK`. One lemma per group of actions. `TypeOK`
  is inductive because it types the locals of a suspended coroutine by the await it is
  suspended at; a stored audience is typed because resolving yields joined actors only
  (`ResolvedWithin`, `ReachedJoined`).
- `AudienceIsFixed` and `OnlyPartiesConsume` (`MailboxProofs`), assuming
  `NamesAndGroupsApart`: `Spec => []StoredAudience` and `Spec => []ReadsByParties`. Neither is
  inductive. The invariant `SafeInv` adds what a coroutine may rely on after an await: a
  snapshot of the actors it holds is plain (agents of type Service whose groups are groups)
  and of a table that has only grown since (`Past`); a message it holds is the one stored
  under that id, or has been removed (`Held`), since no id is drawn twice; and no read row
  names an id that is still to be drawn, or a new message would inherit it. From these,
  deciding on old memberships and old objects gives the answer the current ones would.
- `RepliesStayInSight`, `NobodyReadsOthersMail`, `TheLiveAreSpared` and `IdentitiesArePermanent`
  (`MailboxThreadProofs`), under the same assumption: `Spec => []AttachedWithinSight` and the
  action properties `AnswersAreOwnMail`, `ExpirySparesTheLive` and `IdentityPermanent`.
  `SightInv` adds to `SafeInv` that parents were drawn before their replies (`Ordered`), and that
  the tables of messages a reply, a peek or a sweep holds are snapshots of what is stored now or
  has been removed, none of it from the future (`Snapshot`). Every step is `Later`, and each of
  these survives a later step.
- `ConversationsAreTrees` and `SweepsSplitNothingTheySaw` (`MailboxThreadProofs`), with no
  assumption: `Spec => []ThreadsAreTrees` and `Spec => SplitOnlyByLateTurns`.
  `ThreadRoot` is a recursive function over the ids already seen, and what it returns on every
  table would be an induction. It is not needed: `TreeInv` says that ids are drawn in the order
  in which parents come before replies, in the store and in every snapshot of it, and a set of
  ids closed under taking the parent has one that comes first. So every walk ends at a message
  without a stored parent, the same for every turn of a thread, and a sweep that takes the
  threads of one root takes every turn it saw.
- `MailboxImplementsDelivery` (`MailboxDeliveryProofs`), assuming `NamesAndGroupsApart`: `Spec =>
  Delivers`, the refinement of `Delivery`. The initial states map to its initial state, and every
  segment to one of its steps or to none. The step that needs the most is a stored message whose
  stored names are resolved again by today's memberships: they give the actors it was stored for
  (`SafeInv`), no read row runs ahead of its message, and so the mapped copies change only when a
  row is written. `LetterAssumption` keeps the value for no message apart from the letters.
- `WhatWaitsIsListed` (`MailboxDeliveryProofs`), under the same assumption: `Spec =>
  PeekMissesNothing`. `AllWatch` says that what waited at the call was drawn then, that its caller
  is among the actors read at the second await, and that a message of the snapshot which is still
  stored has not changed. `WhatIsReadIsNotListed`: `Spec => ConsumedStaysConsumed`, assuming that
  nobody calls `expire` (section 4 says what happens with it), since then no read row is taken
  back and the rows are asked for last.
- `LimitsHold` and `NothingEscapesTheLog` (`HouseProofs`): `HouseSpec => []WithinLimits` and
  `HouseSpec => []AuditedUnlessStopped`, for any number of stops. A large body gets past the
  first check only as a reply, and never further than the look-up, since the second check stands
  where the reply becomes a send (`Careful`). `MailToResidentsWaits`: `HouseSpec =>
  ResidentsReachable`. `StandingInv` says that whatever is served or in flight is in a mailbox that
  has all its residents, so that a send which has read the actors has read the residents among
  them.
- `UpgradeIsSound`, `NothingIsEverDropped`, `TheStampIsHonest` and `RoutesAreAlwaysKept`
  (`OldUpgradeProofs`): the three safety properties of the upgrade, for any number of openers and
  crashes and any old store. `UpgradeInv` says that rows keep their id, addressee and
  acknowledgement whatever rewrites them (`Kept`), that reads record the marks of rows for the
  addresses they were sent to and nothing else, and that a store that is done stays done: every step a late opener could still
  take needs the column being done took away (`Done`, `Seen`).
- `RepliesAreRooted` and `RenamesLeadHome` (`OldHubProofs`), with no assumption: `Spec =>
  []RepliesKeepTheirRoot` and `Spec => DoorsLeadHome`, for any clients on any surfaces, any
  calls, names and days, and calls cut short anywhere. What every proof about the old hub
  rests on is how a plan goes on: `Planned` says which step may come after which, `Starts` what
  an entry point may begin with, and `Stepped` that a step ends the call, is done, is not done
  yet (a second look at the thread, another hop, another name to supersede), or is a read given
  up, so that a reply starts over (`Going`), and that it changes no more of the call than what
  it has read (`Changing`).
  `ShapeInv` then types calls and messages; `FreshInv` says that the id of a draft is nowhere
  yet; `RootInv` says that an original which is still stored is on the thread the answer will be put
  on, whatever happened since it was read, so that expiry, which takes threads whole, takes both
  or neither.
  For the doors, parsing undoes formatting (`ParsedBack`) and the path of every identity is
  served as that identity (`HomeDoors`).
- `HandedIsConsumed` and `OwnMailStaysOwn` (`OldHubProofs`), assuming `OneSelf`: `Spec =>
  []HandedStaysRead` and `Spec => []OwnMailIsOwn`. `OneSelf` says that no two clients are
  configured as one agent, and that a client of the command line or the console, which know of
  no role and follow no rename, is on no surface where it could have one or be renamed: otherwise
  one client is two agents. `NameInv` says that a call acts under the name its client has
  now, that two clients of one name are in `sharing`, and that what was sent and consumed
  carries that name, which a rename has to take along in the messages and in the reads.
- `MailIsFollowed` and `AwaitingIsTrue` (`OldHubProofs`), assuming `HandlesApart` as well:
  `Spec => []MailFollows` and `Spec => []AwaitingIsWaiting`. `FollowInv` adds that every former
  string leads to the present name of whoever moved away from it last (`LeftInv`, which needs the
  rename to rewrite older forwards), that a draft which nothing interleaved with is addressed to
  where the forwards lead (`AskedInv`), and that a message meant for an agent is routed to its
  present name, sent under another, and consumed by nobody else (`MeantInv`). `HandlesApart` says
  that no two names in use differ in the role only. It is needed: an address without a role
  matches every role (`old/mailbox.py:521`), so that `p/a/worker` may read what was meant for
  `p/a`, and the sender is told that it was read while `p/a` still has it waiting.
  `MCOldHub` assumes both, so TLC evaluates them on the instance.
- `ForwardsLeadOn` (`OldHubProofs`), with no assumption: `Spec => ForwardsEnd`. A circle is a set
  of strings that the forwards never lead out of (`Cyclic`), so that no walk has to be counted.
  `WalkInv` says what the loop of `_resolves_to` has established while nothing interleaves: it
  has passed forwarded strings from the new name on and has not met the old one (`Walked`); once
  it ends, they are a set that the new name is never led out of, and nothing in it leads to the
  old name (`Elsewhere`). A circle made by the rename has to run through the forward it adds, and
  so through the new name; without that set it would have been one before (`NoCircle`).
- `LiveEntriesStay` (`OldHubProofs`), with no assumption: `Spec => LiveAreLeftAlone`. `DirInv` says
  that the directory has one entry to a name and is in the order agents were last seen, so the
  first match is the most recent one: where it is stale, so is every other entry that matches
  (`AllStale`). `FreeInv` says that the name a rename is about to take is vacant and the ghost a
  rename is about to retire is stale, which stays so while nothing interleaves (`FreeStays`).
- `OldRows` (`OldHubProofs`), with no assumption: `Spec => []OldTypeOK`. `MailInv` adds to `DirInv`
  and `ShapeInv` the messages, and of a draft the thread it will be put on.
- `EverySpellingAgrees` (`DeskProofs`): `DeskSpec => []SpellingsAgree`, assuming that the store was
  opened with canonical names, that what is issued is generated, that the pool has words of lower
  case letters (as all of `name_pool.py` are) and that what is typed is made of characters. What a
  normalization keeps are positions of the text (`Picked`), and the k-th of finitely many exists
  (`NthOf`), so the result has no capital and nothing foreign (`NormalizeIsCanonical`). Lowering
  such a name changes nothing, nor does raising it first (`LowerIsName`), and `NamesWithin` carries
  the claim over the awaits between validation and claim.
  `MCDesk` assumes the same of its instance, so TLC evaluates it there.
- `ForeignNeverLands` (`DeskProofs`), with no assumption: `DeskSpec => ForeignStaysForeign`. A
  note that lists somebody elsewhere keeps that address to its decision, and no table of actors
  has it (`ForeignInv`).
- `NoReservedName` (`DeskProofs`): `DeskSpec => []ReservedStayFree`, assuming that the store was
  opened without a reserved name, that the words are letters only, that what is issued is
  generated and that the word lists are of characters. What `validate` lets pass is no reserved
  word, and what is issued has an underscore, which no such word has; `NamesWithin` carries this
  over the awaits between validation and claim.
- `PathsAreOwners` and `TheNamedAreReached` (`DeskProofs`): `DeskSpec => PathIsOwner` and
  `DeskSpec => PostsReachTheNamed`, assuming that the names the desk lets anyone join with are
  names agents ask for (`OnlyRequested`) and, for the first, `NamesAndGroupsApart`. `OwnerInv`
  relates every call in flight to the request it serves: its caller is the owner in the path, or
  nobody, its recipients are those the note listed or the author of what it answers, and the
  directory it holds is no older than the request. `PostsReachTheNamed` says what is stored by the
  rules for groups and everyone, as that directory resolves them, and by name for everybody else:
  to resolve wrongly, to drop a recipient or to add one would break it.
- `OnlyOthersTear` (`SqliteStoreProofs`): `Spec => TornOnlyByOthers`, for any number of requests,
  whatever fails. `RemovalInv` says that a row which is on disk and no longer in the connection's
  view is one of a message that view has lost too, or of one that a removal between its two
  statements is about to take.
- `StoreTypesHold` (`SqliteStoreProofs`): `Spec => []StoreTypeOK`, with every fault allowed.
- `AnswersAreKept` and `WinnersAreSingle` (`SqliteStoreProofs`), assuming that no commit fails
  (`"commit" \notin Faults`; section 4 says what happens with it): `Spec =>
  []AnsweredIsKept` and `Spec => WonOnce`. The invariant `KeptInv` says that a statement
  awaiting its commit shows in the connection's view, whoever commits first (`Pending`); that
  what was told shows on disk too (`Told`); that of two statements that would exclude each
  other at most one has won (`OneWinner`), as a row in the view makes the second lose before
  anything is committed; and that a removal half done has been counted as one (`Named`).

Only model-checked: `EveryCallAnswered` and `EverybodyOpens`, which are liveness and out of the
prover's reach, and `RemovalIsWhole`, which is about requests that nothing overlaps and false
otherwise; what holds in general is `TornOnlyByOthers`. Every other property of a passing run is a
theorem. That a formula over data is an induction (the text of a name, the directory as a
sequence, the walk along forwards, the root of a thread) was avoided by definitions that say where
an element is instead of recursing: the positions that stay (`Picked`), the first match (`Held`,
`Without`), a set that is closed (`Cyclic`), the first id of a closed set.

## 6. What is not modelled

- The steps inside a SELECT. `execute` fetches the first row and `fetchall` the rest, so a
  write may fall between; `Mailbox` takes the answer as one moment's. Listed as a hazard.
- The routes that only look up, rendering, and the document properties `wire.py` keeps for a
  round trip. Missing headers and undecodable bodies, refused before any call is made.
- In `Desk`: the house between the routes and the mailbox, whose checks are in `House`; a hub
  name with capitals; a foreign host called `local` or like the hub. Of the text of a name only
  character classes remain, so Unicode decompositions other than a folded letter are absent.
- `ProbeDetector`, which is not a default policy. An `AuditLog` that itself raises. In `House` the
  recipients of a message are sets, so that one listed twice counts once against the limit.
- The in-memory store, whose calls never suspend: its behaviours are among those of `Mailbox`.
- Of the old implementation: the layers of settings (environment, TOML, defaults), the query
  string and X-Agent headers of the middleware, letter case in addresses, the console's own
  queries (`browse`, `stats`, `flow_graph`, `messages_between`), prompts, rendering, help and the
  start-up of its servers. They change no state, or only choose an identity that `Settings` is. Of `list_threads`
  the last turn of a thread is taken to be the one composed last, and the limit of the list is
  left out.
- Malformed profiles, clocks that run backwards, two processes on one file (the code forbids
  it and does not detect it).

## 7. The plan

Done, in this order: `Rules`, `Mailbox` with its properties, `Delivery` and the refinement,
the type theorem, `SqliteStore` with its theorems, the audience theorems, `House`, `Desk`; then
the superseded implementation, `OldAddresses`, `OldDoors`, `OldHub`, `OldDesks`, `OldUpgrade`; then
the theorems of the house, of the upgrade, of the threads and of peeks; then those of trees and
sweeps, the refinement of `Delivery`, the theorems of the desk and of removals, and those of the
old hub; then its forwards and its directory, and the spelling of names.

Next:

1. `Reads`: SELECTs in two steps inside the calls of `SqliteStore`, and what survives of the
   answers `Mailbox` takes as atomic; `reads_of` and the variable limit.
2. `MCRules`: the rules against independent definitions on every small table, among them the
   root of a thread with a cycle.
3. `ProbeDetector` in `House`, and what the logs miss.
4. The look-up routes in `Desk`, with the spelling `whois` does not resolve.
5. Liveness of the old hub: a call that is not cut short ends.
6. Theorems about what `Reads`, `MCRules` and the look-up routes will state.

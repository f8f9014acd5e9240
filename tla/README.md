# Dishpute in TLA+

Dishpute records who does the household work. A FastAPI application writes to
PostgreSQL; a web page and an MCP gateway are its clients. This directory holds
TLA+ models of the parts whose correctness depends on more than one step or
more than one actor, TLC configurations that check them, and proofs that the
TLA+ proof system checks for every value of the constants. Line numbers are
those of `src/dishpute/` unless a path is given.

## 1. Inventory

| Component | State | Operations | Talks to |
|---|---|---|---|
| Application API (`api.py`) | one session and one transaction per request | routes, `_transaction` (128), `get_actor_user_id` (104) | everything below |
| Idempotent writes (`idempotency.py`) | `integration_requests`, advisory locks | `execute_idempotent` | wraps every POST and PATCH of the domain services |
| Domain services (`services.py`) | tasks, time blocks, completion records, audit events | ten writing services, five listings | the session, the schema constraints |
| Data model (`models.py`) | the tables, CHECK, UNIQUE and foreign keys | | decides whether a flush succeeds |
| Triggers and views (`database/alembic/versions`) | | time zone and cycle triggers, append-only audit, duration and contribution views | |
| Households and invitations (`api.py` 291-359) | households, memberships, invitations | create, invite, join | |
| Accounts and sessions (`auth.py`) | credentials, bearer sessions | sign-up, login, token look-up | API, OAuth provider |
| OAuth provider (`oauth_provider.py`) | clients, authorization requests, codes, access and refresh grants | authorize, complete, exchange, refresh, revoke | sessions, memberships |
| MCP gateway (`mcp_gateway.py`) | none | one or two HTTP requests per tool call, 15 s timeout | API |
| Web application (`web/app.js`) | page state, `localStorage` | loads, edits, sign-out | API |
| Natural language (`natural_language.py`) | none | parses a sentence into a task or a record | services |
| Pools (`database.py`, the server's threads) | connections, threads | | everything |

What is hard about each, and what makes it correct:

* **Idempotent writes.** Route functions are plain `def`, so each delivery of a
  request runs in a thread and a transaction of its own at READ COMMITTED.
  Clients resend while an earlier attempt runs, answers get lost, the process
  may die. Correct means: one write per actor and key; a write exists exactly
  when the row that makes its retries replay does; a success always names a
  committed write that was asked for; nobody waits for ever.
* **Domain services.** Facts are stored twice (a completion record and its
  actual time block; a status and its timestamps), rows refer to each other
  over nullable keys, and several statements make up one service. Correct
  means: mirrored rows agree, nothing dangles, each change is in the audit,
  planning does not alter what was done. Two services at once add
  lost updates and checks that have gone stale by the commit.
* **Invitations.** A code is read, tested and marked used in separate
  statements. Correct means: nobody joins uninvited, a used or expired code
  stays refused, no code is used up for nothing, one account per code.
* **OAuth.** All handlers, the login form included (`mcp_gateway.py` 586-609),
  are coroutines without an await inside a transaction, so each is atomic; but
  the token endpoint loads a secret in one and exchanges it in another.
  Correct means: codes and refresh tokens are used once, a revoked login stays
  ended, a grant stays what it was at login and with the client that asked.
* **Clients.** The gateway and the page draw a fresh key for each call, so the
  server cannot recognise a retry after a timeout; the page's answers arrive in any order.
  Correct means: what the caller is told of a write is true, names become the
  right people, and a page never shows a week with the items of another.
* **Times.** A wall clock is read, compared, stored and subtracted in three
  places, and Python and SQL round differently. Correct means: stored ranges run
  forward over a clock change too, every view shows the same length, and work told
  with a date in the household's zone is reported on that date, if the clock shows its end at all.
* **Pools.** A request is served in two pieces, each needing a thread, with a
  connection held from the first to the end of the second. Correct means: it drains.

`PROJECT.json` lists each hazard at its line, with the property that covers it
or the reason there is none.

## 2. Modules

| Module | Contents |
|---|---|
| `ExactlyOnce` | the abstract promise of an Idempotency-Key: apply once, answer with that write |
| `Idempotency` | `execute_idempotent` under concurrent deliveries, crashes and lost answers; refines `ExactlyOnce` |
| `IdempotencyProofs` | its inductive invariant, every safety and action property, the refinement |
| `HouseholdWork` | the domain services of one household, one action per service |
| `HouseholdWorkProofs` | type correctness, the block, plan and hierarchy invariants, the audit trail, the contributions |
| `Membership` | households, invitations, and joining statement by statement |
| `MembershipProofs` | its inductive invariant, every invariant |
| `OAuthProvider` | authorization requests, codes, token pairs, and overlapping calls of the token endpoint |
| `OAuthProviderProofs` | its inductive invariant, every invariant and the action property |
| `ConcurrentWork` | the services that race for one task or one record, statement by statement |
| `ConcurrentWorkProofs` | its inductive invariant, every invariant |
| `McpGateway` | tool calls, their API requests, and the server's threads and connections |
| `McpGatewayProofs` | type correctness with the pools' limits, and its three other invariants |
| `WebApp` | the page: loads of weeks, the form, signing out |
| `WebAppProofs` | its inductive invariant, both properties |
| `WorkTimes` | the times of a record from the wall clock to the report |
| `WorkTimesProofs` | the arithmetic of its roundings, its invariant, both properties |
| `MCIdempotency`, `MCHouseholdWork`, `MCMembership`, `MCOAuthProvider`, `MCConcurrentWork`, `MCMcpGateway`, `MCWebApp`, `MCWorkTimes` | instances for TLC |

Operators described in a comment as a *mutant* are not part of a
specification. Each is a plausible bug that replaces one operator to show
that a property notices it.

### Idempotency

The processes are deliveries `<<call, n>>`. `pc` follows the
statements of `execute_idempotent`:

    unsent -Send-> waiting -AcquireLock-> locked -SelectExisting-> selected
    selected -RefuseReuse | Replay | ActionRaises-> answering
    selected -PerformAction-> executed -FlushRecord-> flushed -Commit-> answering
    executed -FlushFails-> answering -Deliver-> done, -LoseAnswer-> lost

`AcquireLock` is `pg_advisory_xact_lock`: the lock id may collide
(`LockId` is any function), is re-entrant for nobody, and is freed when the
transaction ends, which `Finish` and `Crash` express by leaving `LockHeld`.
What a transaction has written but not committed is a function of its phase;
`Commit` publishes the domain write (`applied`) and the request row (`rows`)
at once. `FlushRecord` waits, as an INSERT under a unique index does, while
another uncommitted row has the same key, and is checked against committed
rows. `RequestHash` keeps the one interesting thing the SHA-256 input does: it
is taken over the full dump, with defaults for the fields left out, while a
PATCH applies only what was sent (`Changes`). The branch for an unfinished
original (`response_body` null) is left out: rows are written with their
response and nothing writes one without.

### HouseholdWork

The state is one function per table (`tasks`, `blocks`, `work`), participants
and links folded into the rows, plus the audit events, the ids already
generated and whether the last request was a server error. Each action is a
whole route: the guards in the order of the code, its writes, its
audit events, and the CHECK constraints at the flush; `Refuse(code)` is a
rollback. Requests are those the schemas let through, explicit nulls included
where they do. A request sends any optional fields, at most `MaxFields`; a
PATCH without any stands for one that changes a title, description or category only.
Contributions (`list_contributions` and the view) are an operator.

Reading the code this way shows behaviour that no property forbids:
work recorded with a duration only and later given a range gets no
time block (736-744), so the calendar never shows it; a task or plan may be made
without participants although an edit requires one (614); an edited record
keeps its link to a task whose participants are others.

### Membership

`join_household` is four steps: read and test the invitation, read the
membership, flush (the INSERT or UPDATE takes its row locks and meets the
primary key), commit. `Waits` and `Collides` are what PostgreSQL does there.
A membership read as active is not written, so it takes no lock: if it is
made inactive in between, the invitation is used up and the answer is 200
without an active membership. No route removes a member; `Remove` is an
administrator's UPDATE, which waits for a join that is updating the same row.

### OAuthProvider

Each handler is an action, and what it refuses is no step. `exchange[x]` is a
call of the token endpoint between its load (`LoadCode`, `LoadRefresh`) and its
exchange, during which any other action may happen. The exchange tests again
whether the code is used or expired (187), and whether the refresh token is
revoked, but not whether it has expired in between (227). `Revoke` contains the
look-up that precedes it (238), since marking a token twice changes nothing. The access and
the refresh token of one answer are one row, `Pair`, with a status each: a
rotation or revocation marks one of the two and leaves the other valid. `from`,
`login` and `holder` are history the tables do not hold: what was exchanged for
the pair, where its line began, which client received it. The expiry times
are a status that time may set at any moment. Loading an access token only reads,
and PKCE, scopes and redirects are checked by the SDK or passed through.

### ConcurrentWork

`HouseholdWork` runs each service at one go; here six of them run at once, each
a transaction of several statements, about one task and one record:

    start -Find-> found -Execute-> ... -Execute-> written -Commit-> done
    any -Refuse (404, 409 | constraint | Deadlocked 500)-> done

The database is a set of committed rows `<<table, id, ref>>`. A transaction
holds the rows it has deleted and inserted (`gone`, `new`; an UPDATE is one of
each), and `Commit` publishes both. A service is a set of statements
`[from, to, del, ins]`, in the order of the code: `DeleteTask` deletes the
blocks it listed earlier and unlinks the records (492-518), then clears the
parent of the subtasks there are by then, which the unit of work does because
`subtasks` is loaded at the flush (`models.py` 297), then deletes the task.
`EditWork` is delete, insert, delete, insert, as the second DELETE autoflushes the
first INSERTs. What PostgreSQL does with a statement is derived once for all:
`Blockers` are the transactions it waits for (a row they deleted, a parent they
removed, a child they inserted, a key they wrote), `Breaks` the constraint it
meets once nobody is in its way. Waits are merged: a statement that would
wait for two transactions in turn waits for both at once.

What no property forbids, and the runs show can happen: the participants of
a record edited twice at once may become the union of both lists; a subtask created
during the deletion of its parent loses its parent; two deletions of one record
both answer 204 and leave two audit events; an edit and a deletion may deadlock,
and one of them answers 500; `before_values` in the audit may be stale.

### McpGateway

A tool call lists the members if it was given names (`Call`, `Resolve`), then
sends its write. The API serves each request in two pieces:

    queued -StartDependency-> connecting -Authenticate-> authed -StartRoute-> running
    running -ListMembers | CheckWrite ... CommitWrite-> done

`connecting`, `running` and `checked` occupy a thread, `authed`, `running` and
`checked` a connection. If all threads hold requests that want a connection and all
connections belong to requests that want a thread, `PoolTimeout` (a 500) is the
only way on; `Drains` says it is enough. `GiveUp` is the 15 seconds, or a
broken connection, and may come at any moment; the server goes on. Since every
call draws its own key, `Idempotency`'s replay never applies: what is left to
the caller is `AnswerTellsFate`, and a lost answer stays ambiguous. `left` is history:
who had left when the write was sent. Two members may share a casefolded name,
and the last one listed is taken (168); `NamedTookPart` says no more than that somebody of
that name takes part. A call without names stands for the tools that take ids or
nobody.

### WebApp

The page is one thread, so an action is what runs between two awaits. `load`
is a `loadAll` with the week it asked for, `press` a press of Save with its
one or two writes. `GridShowsItsWeek` holds because `renderCalendar` picks the
items of the week in its title out of whatever arrived: a late answer may
leave the week empty, never wrong. While a dialog is open the rest is inert, but the
dialog itself can be closed during a save, another item opened, and the page
signed out; `createWork` read its item at the start, so the second PATCH goes to the right one.
What no property forbids: a load that ends after sign-out shows the application
again (162), and a save that ends closes whichever form is open (621). `/me`, which `bootstrap`
asks before it loads, is left out, and so are a planned item without a task (one PATCH
in place of two, 554), the shortcut that opens the form from any view (839-848) and the
error answers of a proxy.

### WorkTimes

One record, its household's zone, the gateway's, and ticks shorter than a second. `Abs` is Python's reading of
a wall clock time with `fold=0`, `Local` is PostgreSQL's `AT TIME ZONE`. Times come
by three doors: `Sentence` compares on the wall and goes straight to the service, so
a range that is reversed by a spring gap is stopped only by the CHECK constraint and
ends in a 500; `Tool` compares on the wall and is compared again by the API's schema
as instants; `Record` and `Edit` are the API itself. `answer` is computed from the
Python values the request carried: two aware times of one zone are subtracted on the
wall, so a sentence over a clock change is answered with the wall's difference,
while lists and reports show the true one. `ShownLengthsAgree` states
exactly that, and that the list and the report differ by at most a minute, and only
for fractions of a second.

Its last part is about the date. Work told in the household's zone is reported on the date
it was told for, with one exception: an end the clock skips is read as a later time
(`Abs` takes the offset before the change), which may fall on the next date. The code
accepts every zone of `pg_timezone_names` (`fb99f249208d` 300-319), and some skip a midnight:
America/Nuuk goes from Saturday 23:00 to Sunday 00:00 every March, so "22:30 to 23:30" on that
Saturday is stored up to 01:30 UTC and reported on Sunday; Pacific/Apia skipped
all of 30 December 2011. The exception is written into the property, which still says that
such a date is never an earlier one. It is no finding, because no document says
what becomes of a time that does not exist.

A tool's times are read in `gateway`: through OAuth this is the household's zone, put into
the token's claims (`oauth_provider.py` 264), but the local gateway is given
`DISHPUTE_TIMEZONE` where it is started (`mcp_gateway.py` 57-63). If that is another zone,
the report may be on another date than the one told; the property makes no claim then, beyond lengths
and the order of the range.
Python's and PostgreSQL's zone tables are taken to be the same, and a zone to change
its offset once around a record.

## 3. Runs

| Run | Instance | Shows |
|---|---|---|
| `idempotency` | 3 calls, the first sent up to twice; one padded key in another household, one blank key; all lock ids collide; 1 crash | the eight safety and action properties, the refinement, progress |
| `idempotency_patch` | two PATCHes of one key, a field left out against the field null | **violation**: the second is answered with the first's replay |
| `household_work` | 2 tasks, 2 blocks, 1 record, 2 members and an outsider, 3 instants (new rows ask for the first minute, edits for any range), one optional field per request, nulls sent, 4 successful writes | the rows, the audit and the contributions stay right over every sequence |
| `household_work_errors` | the same without nulls | **violation**: completing a cancelled task ends in 500 |
| `membership` | 2 accounts, 2 households, 2 invitations, 2 joins, 1 removal | who gets in, what is refused, and that everybody is answered |
| `oauth` | 1 account, 2 households, 2 clients, 2 requests, 2 codes, 3 token pairs, 2 overlapping calls, 1 change of membership | use once, rotation, what a grant stands for, the end of a login |
| `membership_single_use` | 3 accounts, 1 household | **violation**: two accounts join with one invitation |
| `concurrent_work` | any 3 requests of the 6 services, 2 participants, every list | nothing dangles or is lost, the shown are credited, everybody is answered |
| `concurrent_work_plan` | 2 requests, scheduling and deleting | **violation**: the block of a deleted task stays |
| `mcp_gateway` | 2 calls, 3 members of whom 2 share a name and 2 may leave, 1 thread, 1 connection | answers tell the fate of a write, names, leavers, draining |
| `web_app` | 2 weeks, 2 items, 2 loads, 2 presses of Save | what is said of a save is true; a week shows its items |
| `work_times` | 7 zones, of which two skip a midnight, 2 zones of a local gateway, two days of 16 ticks, minutes of 4 ticks, seconds of 2 | ranges run forward, lengths agree, and only a skipped end leaves its date |

**Bounds.** The hazards of `Idempotency` are between two transactions of one
identity and a third that shares only its lock; two attempts of one call, a
reuse and a colliding stranger are the smallest instance with all of them, and a
second crash meets the same states as the first. The proofs cover every number
of calls, attempts and crashes. In `HouseholdWork` the longest
chains that matter are create, plan, record or subtask, then delete, which is four writes; two tasks give
a parent and a child, two blocks a planned and an actual one, or two
planned ones for one task. Refused requests do not count. One
optional field per request is enough to write each column by itself, and the proofs of its
three structural invariants bound neither fields nor writes. In `Membership` a race has
two requests; a second household shows that nothing leaks between households.
In `OAuthProvider` two calls race for one secret; three pairs are a
login refreshed twice, or once beside another login; the proofs bound nothing.
In `ConcurrentWork` the conflicts are between two requests; the third makes
cycles of three, and a bystander that creates what the other two fight over. In
`McpGateway` one thread and one connection with two calls already reach the stall
(one request waits for the thread, holding the connection, another for the connection,
holding the thread); more of either only make it rarer. In `WebApp`
two loads are enough to arrive in the wrong order and two presses to overlap with
another item's form. In `WorkTimes` the zones change forward and back, in the
middle of a day and from midnight on, by one minute; one skips the last minute of a day as Nuuk
does, one a whole day as Apia did; and all pairs of instants around the changes are tried:
real offsets differ only in scale.

**Deadlock** checking is off in each configuration: attempts, writes, requests and
secrets are bounded, so every run ends in a state where nothing is left to
do. That nobody is stuck earlier is what `Progress`, `JoinIsAnswered`, `Answered` and `Drains` say.

**Fairness.** `WF_vars(Handle(a))` per delivery and per join request: a thread
the server has started keeps running, and PostgreSQL grants a lock that is
free. Weak fairness is enough because locks are granted to transactions that
end; a waiting delivery is not promised a particular turn, and with finitely many deliveries
it needs none. In `ConcurrentWork` `WF_vars(Step(p))` adds that PostgreSQL looks
for deadlocks (`deadlock_timeout`); in `McpGateway` the server goes on with
each request, the pool's timeout included, and the gateway with each answer or its
own timer. `WebApp` and `WorkTimes` claim no liveness and assume none. Nothing makes a client send or resend, nothing
forces a crash, an expiry or a removal.

## 4. Proofs

`IdempotencyProofs` rests on one inductive invariant, `Inv`. `AtMostOnce` alone
is not inductive: a delivery that looked the key up before another committed
would write again. The missing facts are that two transactions are never
past the same lock (`LockExcludes`), that what a look-up found is current
while the lock is held (`ReadStaysCurrent`), that writes and rows correspond
(`EffectIffRecord`), and what each kind of answer carries. The lock is per
identity because equal identities have equal lock ids; collisions only
exclude more. From `Inv` follow every invariant of the run `idempotency`, the
action property `RetryReplays`, and `Spec => Promise!Spec`: `Commit` is
`Apply`, `Deliver` of a success is `Answer`, all else a stutter.

`HouseholdWorkProofs` proves `TypeOK`, with one lemma per request; the
timestamps of a task are part of it, so it also says that `complete_task` on a
cancelled task never commits. It then proves
`ActualBlocksRecordWork`, `PlannedBlocksServeTask` and `TaskTree` from
`IInv == TypeOK /\ BlocksInv /\ TaskTree`. `PlannedBlocksServeTask` needs that
an actual block has no task links, and deleting a record is safe for planned blocks only because a
record points at an actual block, so the block properties are
proved together. `TaskTree` (every set of tasks has one whose
parent is outside it) is inductive because parents never change, new tasks are
fresh and a task with subtasks is not deleted.

For `AuditTellsFate` each request is reduced to its `Effect`: ids that are new, rows
that are removed, and exactly their events; with `TypeOK` the trail is inductive.
The same lemmas say (`WorkStays`) that a request that changes tasks leaves the records,
unlinks them from one task, or adds one. `PlanningKeepsContributions` follows because the
sum of a member's durations is a function of the records it runs over
(`SameContribution`): the two recursive functions behind it have the same defining
equation, so no induction over the records is needed.

`OAuthProviderProofs` proves all of the run `oauth` from `IInv`. `UsedOnce` needs
`RequestsDone` (a request with a code is deleted) and `SecretsSpent` (what a pair
came from is a used code or a revoked refresh token); with them the second look of an exchange
rules out a second pair. `GrantFollowsLogin` needs `LoadedByOwner`: the
exchange does not compare clients, so what is between load and exchange must
belong to the caller. Steps that add no row are handled by one
lemma (`Keep`) and both exchanges by another (`Issue`).
`RevocationEndsLogin` follows from the guards of the exchanges and the invariant.

`WorkTimesProofs` proves both properties of the run `work_times` for every unit,
zone and instant. `Between` (what lies between two multiples of a minute lies between
their factors) gives `PyNearSql` and `PyIsSql`: Python's rounding is SQL's for whole seconds,
and at most one minute less otherwise. The invariant says that a record's
range runs forward and was stored with its own answer. With a time told in the
household's zone goes `ClockOK`: at the stored end the clock shows the time told, or, if it
never shows that time, a later one. `ClockKept` proves this of `Abs` for every zone, from the three
cases of an offset change, and `DateFollowsClock` turns it into dates. No assumption is
made on zones but that their three numbers are integers.

`MembershipProofs` proves every invariant of the run `membership`. Each action is
first reduced to its `Effect`: no row is deleted, redirected or made valid again
(`RowsKept`), new rows and uses have a cause (`RowsGained`), and every request stands still or
takes one of its steps (`JoinStep`). The rest never looks at an action again. The
inductive invariant adds that inviters are members (`InvitedByMembers`),
that a household with members has a founder (`Founded`), so nobody founds a household that
a request is waiting to enter, and `ReadStays`: between the look at the membership
and the flush a membership can only appear through a rival of the same user.
`EveryMemberWasInvited` is kept because a new member either stands alone in the set,
and was invited from outside it, or can be left out of it.

`McpGatewayProofs` proves every invariant of the run `mcp_gateway` for any number of
calls, members, threads and connections. That no pool is overdrawn rests on `Grows`: a
request enters a pool only when there was room. The rest is argued call by call:
`EveryStep` says that whatever the system does, one call sees its write sent, its
gateway side end, its write go on at the server, or somebody else move (`CallStep`).
`GatewayInv` is kept by each of the four. It adds to the properties that nothing is
sent before the listing is in, that status 201 and the commit go together,
and, in `Leavers`, that nobody who had left is active again and that a write sent
with a revoked token never gets past the dependency; without it
`LeaversTakeNoPart` says nothing of the writes still on their way. `ListingAssumption` (a
listing has a last member) is what the choice between namesakes needs.

`ConcurrentWorkProofs` proves every invariant of the run `concurrent_work` for any
number of requests and members. None of them is inductive by itself. `Inv` adds what
each service may hold (`Held`) and three facts about what is not committed yet. `Locks`:
what a transaction has deleted is still committed, and nobody else has deleted it. `Keys`:
a pending row has a key that no other row has. `ForeignKeys`: what a pending row refers to
is committed and no other transaction removes it; and a transaction that is ready to
commit leaves no row that refers to what it removes. `RunGuards` says what a statement that
runs knows of the others, which is all of `Blockers` and `Breaks` the argument uses, so a
commit can publish its rows without looking (`CommitForeignKeys`).
`ShownIsCredited` rests on `Takes`: an edit reads what is shown after it has deleted the
credits and inserted its own; a row newly shown since then would need a credit of the same
key, which `Keys` excludes while the deletion is pending. With the block's list replaced
first that argument fails, and the run's mutant shows it. `WorkOutlivesTask` needs that a deletion brings
back every record and subtask it deletes, without its task. Two assumptions on constants:
`Kinds` names services the module has, and `None` is no status code.

`WebAppProofs` proves both properties of the run `web_app`. Its invariant ties the state
of every press of Save to the fate of its two writes and to the item it read at the
start, whatever form is open by then, and the drawn items to the week in the title.

Assumptions are the named `ASSUME`s of the modules: disjoint id sets, sets of
times and durations of the right type, requests drawn from those sets. TLC
evaluates them in the runs.

Only model-checked: the liveness properties `Progress`, `JoinIsAnswered`, `Answered` and
`Drains`, since fairness is beyond the prover, and the four violations of section 5. Every invariant
and every action property of a passing run is proved.

## 5. Disagreements found

1. A PATCH that sends null and one that leaves the field out hash alike
   (`idempotency.py:17-23`, `api.py:497`), against `README.md:80-82` and the test at
   `tests/test_api_workflows.py:320`. Run `idempotency_patch`.
2. Recording work with `complete_task` for a cancelled task is a server error
   (`services.py:953`, `models.py:324`), against `docs/architecture.md:202`.
   Run `household_work_errors`.
3. An invitation admits two accounts that send it at once (`api.py:339-356`),
   against `README.md:35` and `tests/test_auth_api.py:101`. Run `membership_single_use`.
4. A block scheduled while its task is deleted stays as an orphan
   (`services.py:492-521`), against `tests/test_task_management_api.py:232`.
   Run `concurrent_work_plan`.

## 6. Plan

1. `Idempotency` with `Membership`: replays to a member who has been removed.
2. An abstract specification of a login for `OAuthProvider` (one live refresh token,
   handed on or revoked) and the proof that the provider implements it.

Not modelled: recurrence rules and task instances (tables no code writes); sign-up and login
(one transaction each; a unique email decides the only race); the reading tools, the metadata
documents and the page's other dialogs (one request each, nothing kept); the sentence grammar; HTML
and CSS, containers, migration plumbing and the wording of messages.

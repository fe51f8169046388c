# Verification of the auction service

TLA+ models of `devops_auction`: a FastAPI service that keeps auctions, lots,
sellers, buyers, sales and one operator's sessions in a SQLite file, and the
scripts that deliver it. TLC checks the models on small instances; TLAPS proves
the main results for every value of the constants.

    tlc -config service.cfg MCAuctionService.tla
    tlapm AuctionServiceProofs.tla

## Inventory

| part | state | operations | hard behaviour | what makes it correct |
|---|---|---|---|---|
| money (`app/finance.py`, `_to_kopecks`, `_from_kopecks`) | none | `commission_kopecks`, conversions | rounding at half a kopeck, rates 0 and 10000 | half up; never above the price; nothing lost in conversion |
| business handlers (`app/services.py`) | tables `auctions`, `lots`, `sellers`, `buyers`, `sales` | create participant/auction/lot/sale, open, close, report | threads interleave at every statement; `create_lot` checks without a lock | a lot is SOLD exactly with its one sale; lots follow their auction's phase; closed books stay closed |
| connection per request (`app/db.py`, `main.py:get_connection`) | the committed database, the write lock, an open transaction | `BEGIN IMMEDIATE`, first write, commit, rollback, busy timeout | commit runs after the answer; a backup blocks commits; crash | a handler's rule holds when its effect is committed; no wait is for ever; what a client was told stays |
| operator and sessions (`app/auth.py`) | tables `users`, `sessions`, the clock | register, login, session check, logout | registrations race; a login's time is older than its commit | one operator; no live session purged |
| backup and restore (`app/backup.py`) | the target and its journal, backup files, before-restore files, a temporary per tool | backup, restore | a second tool, a kill between any two steps, a hot journal | the target is the old or the new database, whole; backups stay; what was replaced is kept |
| migrations and start-up (`app/migrate.py`, `db.py`, `main.py:lifespan`) | the file, its schema and revision | upgrade, check, first start | two at once, an interrupted first start, a lost file | schema and revision agree; a started service is at head; a first start serves at last |
| web client (`app/static/app.js`) | what is shown, form mode, calls under way, the cookie | start, register then log in, log out, operations | answers come in any order, the cookie changes before the handler goes on, the second of two calls fails | the form leads to the operator's part; without a session that part does not stay |
| acceptance (`scripts/release_check.py`) | where the script is, the ids it was given | one sale from seller to report | it reads what was answered, not yet committed | an accepted release has done the sale |
| staging deployment (`scripts/deploy.py`) | `state.json`, `pending.json`, containers, volumes | deploy, rollback, recover | crash between any two steps, failing docker calls, late effects | an accepted release is what runs; recover finds the way back |
| release selection (`scripts/select_release.py`, `ci.yml`, `cd.yml`) | tip of main, CI runs, events, the delivery group | CI, select, deliver, rollback | main moves, runs are repeated, events are late | only what CI published is delivered, automatically only forward |
| approvals (`scripts/critical_review.py`) | head, reviews, the verdict of each commit | check, push, review, dismiss | the head and the reviews are read at two times | a pass belongs to the commit that was approved |
| schemas, `/health`, `/ready`, `/version` | none | validation, probes | – | – |
| demos, mutation check, secret scan, set-up scripts | none of the service's | – | – | – |

The handlers call the connection (statements), the connection locks the file,
the session check runs on the same connection before the handler, a backup
reads the same file from another process, a migration or a starting service
takes the same write lock, the page and the acceptance script are clients that
ask for the next thing as soon as they are answered, and the deployment stops and starts
the whole of it with a release that the selection has named.

## Modules

| module | models | built on |
|---|---|---|
| `Commission` | `commission_kopecks`, the two conversions | – |
| `AuctionData` | the rows, each handler's rules and effects as operators on a database, the report, what a consistent database is | `Commission` |
| `Connection` | SQLite and `get_connection`: `db`, `image`, `writer`, `copying` | – |
| `SerialAuctions` | the abstract specification: one atomic step per operation | `AuctionData` |
| `AuctionService` | the requests walking through their handlers | `AuctionData`, `Connection`, instance of `SerialAuctions` |
| `OperatorSessions` | registration, sessions, the clock | `Connection` |
| `Snapshots` | the abstract specification of backup and restore: whole contents, taken and put at once | – |
| `BackupFiles` | `app/backup.py` on files, journals and temporaries | instance of `Snapshots` |
| `Migration` | `app/migrate.py` and `lifespan`: who creates, upgrades and serves | `Connection` |
| `Acceptance` | `release_check.py` as a client | `AuctionService` |
| `WebClient` | the handlers of `app.js` against a server that answers before it commits | – |
| `Deployment` | `scripts/deploy.py` on the staging host | – |
| `ReleaseSelection` | `select_release.py`, the triggers and groups of the workflows | – |
| `CriticalReview` | `critical_review.py` against pushes and reviews | – |
| `MC*` | instances for TLC, where a module needs more than values for its constants | |
| `AuctionServiceProofs` | theorems on `Commission`, `MCCommission`, `AuctionData`, `AuctionService` and `Acceptance`, in six sections | `Acceptance`, `MCCommission` |
| `OperatorSessionsProofs`, `BackupFilesProofs`, `MigrationProofs`, `DeploymentProofs`, `ReleaseSelectionProofs`, `CriticalReviewProofs` | theorems | each extends the module it is named after |

**How the state corresponds to the code.** `db` is the committed content of the
SQLite file: a record of tables, each a function of row ids or e-mails (a row
that was never inserted is `"ABSENT"` or `"none"`), and the set of sales. `image` is what the open
write transaction has made of it, `writer` the request whose connection holds
the write lock. `at[r]` is the place of request `r` in its handler and `op[r]`
what it was asked. `told` and `reported` are history variables: the sales
clients were told of, and the last report each scope was given.

**How the actions correspond.** One action per statement, or per run of
statements that the write lock makes indivisible for others:

- `Receive` a route of `main.py` starts, its body valid, its session accepted;
- `Begin` `BEGIN IMMEDIATE` of `open_auction`, `close_auction`, `create_sale`;
- `Pass` / `Refuse` the checks and the early returns (`DomainError`), with the
  rollback of `get_connection`; `create_lot` checks the auction and the seller
  in two separate reads without a lock;
- `WriteFirst` the first of the two statements of `open_auction`, `close_auction` and
  `create_sale`, after which a thread may wait, fail or die with half of its writes in `image`;
- `OpenAuction` … `CreateAuction` the second statement, or the only one;
- `Report` the `SELECT` of `revenue_report`;
- `Answer`, then `Finish` the response, then `connection.commit()`;
- `Unavailable`, `CommitFails` the busy timeout; `StorageError` any other
  `sqlite3.Error`; `Crash`; `Backup`; `Switch`, SQL of another program that sets
  `is_active`, as the tests do.

The order answer-then-commit is that of FastAPI since 0.118 (the repository
pins 0.142.2): the code after the `yield` of a dependency runs once the response
has been sent.

In `OperatorSessions` `work` stands for any handler behind the session check,
and the deletion of an expired session in `user_from_session` is part of
`Refuse`: the exception that follows it rolls it back.

In `Deployment` `state` and `pending` are the two files, `container` and
`volume` what docker has, `job` the place of the running script, whose `memory`
is `self.state`. One action is one docker call or file operation of `deploy`,
`rollback` or `restore_current`; a call may fail with or without its effect, or
time out and have its effect later (`late`, `TakesEffect`), a
file operation may fail, and the script may die between any two (`Die`). The
steps of the two throw-away containers (migration, operator) are one action,
`Prepare`, for they touch only the new volume. `restop` … `reclear` are
`restore_current` and the `unlink` after it, whoever calls it. What may go wrong on a host, `faults`,
is drawn once from `FaultSets`; a property may say on which hosts it is promised (`Prompt`: file operations succeed
and no effect is late).

In `BackupFiles` `target` is the file of the database, torn while the
application rewrites its pages, and `journal` what the next open would put back;
`Stored` is what that open finds. A tool goes through `Check`, `Copy` (with the validation),
`Publish` or `Look`, `Save`, `Replace` or `Link`, and `End`, and may fail before each. `Snapshots`
knows only whole contents: `hand` is the temporary of a tool, `kept` the
before-restore files, and the refinement maps every file step to taking, keeping,
publishing or putting one content.

In `Migration` `db` is the file's committed schema, revision and rows, `image`
what the transaction under the write lock has made of them. A process walks
`Look`, `Open`, `Validate`, `Begin`, then `Apply` and `Stamp` for each revision, `Committed`,
`Check`, `Serve`. `Open` creates a missing file, empty: nothing locks it yet.
`Fault` is a kill or an error at any step, `Lose` the loss of the file.

`Acceptance` adds one variable to `AuctionService`: the place of the script. Its
requests are ordinary ones; it takes the id of a row from the 201 and goes on,
while the request goes on to its commit (`Lingers`).

In `WebClient` `calls[h]` is the request a handler waits for; `Serve` is the
server's answer, `Commit` what the server commits after it, `Receive` the head of the answer, with which
the browser sets or deletes the cookie, and one action per `await` of `api` what the handler does once the body, too, is
there (`app.js:26-30`): between the two other heads and handlers may come. The server is reduced to what the
page can tell: whether somebody is registered, and which sessions live. `Expire` may end any of
them, under an open page too.

In `ReleaseSelection` a CI run is the last attempt of a commit and a cause; its
end becomes an event, the event a delivery that is `pending`, then `active`. `Select` is
`select_release.py`, `Deliver` the whole of `Deployment` as it is seen from here: a commit is accepted, or
nothing changes.

In `CriticalReview` the script has two steps, `LookAtHead` and `LookAtReviews`,
and GitHub's side three: `Push`, also back to an earlier commit, `Submit` and
`Dismiss`. `latest` is what the loop of `approved` leaves: the last review of each owner
that is not a comment.

Operators called *Deviation* in a comment are wrong variants of the definition
that follows them. No specification uses them; replacing the definition by one
shows that a property notices.

## Runs

| run | question | bounds |
|---|---|---|
| `commission` | does a split sale move the fee by more than a kopeck, can anybody lose when the price rises? | prices 1..120, rates in steps of 125 |
| `service` | the service under contention: types, ledger, phases, isolation, rules at commit, refinement of `SerialAuctions`; do auctions stay apart, closed books closed, do reports only grow? | 2 requests, 2 auctions, 2 lots, 1 price |
| `acceptance` | the script and the service: is the sale it has seen committed, whatever crashes; are all documented rules kept (`SerialAuctions!Documented`) for a client that waits for its answers; does every request end? | 2 requests, the script's rows |
| `late_lot` | *violated*: a lot joins only a DRAFT auction | 2 requests |
| `told_sale` | *violated*: a sale answered with 201 stays | 2 requests |
| `sessions` | one operator, expired sessions purged, live ones kept | 2 requests, 2 names, 3 tokens, clock 0..5, Ttl 2 |
| `deployment` | is what runs at rest what was accepted, can every interruption be recovered from and does recovery end it, is what runs named in a file, does a reported failure change nothing, does a deployment take every row along? | 3 releases, 1 row, 3 kinds of host: docker calls fail and the script dies; file operations fail too; or effects are late too |
| `backup` | does a sound database stay sound; does `BackupFiles` implement `Snapshots`? | 2 tools, 2 names, 3 commits |
| `migration` | does the schema fit its revision, what serves stand at head, nothing go backwards, a foreign schema stay untouched, an undisturbed first start serve at last? | 2 services, 2 migrations, 7 kinds of file, 1 fault |
| `selection` | does staging run only what CI published, and automatic deliveries only go forward? | 2 commits, 2 events under way |
| `review` | does a pass stay with the commit that was approved, and does an objection stand? | 2 commits, 3 people, 3 reviews |
| `client` | does who submits the form and reloads get in, whatever is lost; does an operator's part that is shown without a session always give way? | 2 tokens, 2 losses |

**Why the bounds are enough.** Two requests give every pairwise race (check
against write, write against commit). Two auctions and two lots have
a sold and an unsold lot in one auction, or a lot in each. One price is enough where no
two prices are compared, and `AuctionServiceProofs` removes this bound and the number of requests.
Rows are created only while ids are left (`RoomFor`): the code
has no such bound, but rows never disappear and no rule counts them. Its theorems on the commission say of
every price and rate what the grid only samples. `MaxTime` 5 with `Ttl` 2 lets two generations of
sessions expire; `MaxWait` 1 < `Ttl` stands for the five seconds a statement
may wait against lifetimes of an hour and more. Three releases give
an accepted one, the one before it and a candidate at once; an id is given
out only once, so `Deployment` stops when they are used up, and its run does not check deadlock. One row
shows whether a deployment leaves a row behind: rows do not meet. Symmetry is declared for
ids, names, tokens and requests, which no rule orders; not where a run checks liveness.

Two tools give every race of `backup.py`, since a step of one touches what
another reads only once; four contents are the two of earlier backups and two
commits, one of which a crash can tear. Two services and two migrations let one of each
wait while another holds the lock, and one fault kills any of them; seven kinds of
file are all that `validate_legacy` and `check_schema` tell apart. With two commits the
tip moves once while a delivery of the older is under way; the theorems of
`ReleaseSelectionProofs` remove this bound, and those of `OperatorSessionsProofs`, `BackupFilesProofs`,
`MigrationProofs` and `DeploymentProofs` every bound of their modules for the properties they prove. Three reviews are an approval, an objection and a comment over it, of two
commits, one of them pushed back to; `CriticalReviewProofs` removes these bounds. One call of each handler of the page is under way at a time: the form and the
operations disable their button, and a second logout does what the first does. Two tokens let a login
meet the session before it and its late answers, and two losses take both calls of a registration, or a call and a
commit. A page goes stale without any loss.

**Fairness.** `SpecAccepting` asks for weak fairness of each request's own next step
(`Proceeds`): a thread of the pool that can go on does, and a wait for a lock is
always ended, by the lock or by the timeout of `connect` (`Unavailable`,
`CommitFails`). Nothing is assumed of the script's questions, crashes, storage errors
or the backup, which may go on for ever.

`Restarted` (`migration`) asks the same of the steps of a service, and that it
is started again, as `--restart unless-stopped` does (`deploy.py:249-250`).
`Persistent` (`deployment`) asks that the script goes on while it lives, that recovery
is asked for whenever it may be, and, strongly, that each of its four steps succeeds some time when it is tried for
ever: without that nobody recovers, and no code could. `ServedSpec` of
`WebClient` lets server and page go on, and sessions end, as their `expires_at` does. `FairSpec` adds an operator who, seeing
the form, submits it, also after the page has started (`SF_vars(Submit /\ ...)`), and, when nothing goes on,
loads the page again and again, and who goes on working when the operator's part is shown
(`SF_vars(Operate)`). All are strong, since answers that come late take the form or the part away in between.
Nobody is assumed to reload the operator's part: `Mended` is not due to a reload.

## Disagreements

Two are runs of their own, in which TLC finds the documented property violated:

- `late_lot`: `create_lot` reads the auction's status without a transaction
  (`services.py:153`). `open_auction` may commit before the `INSERT`, and the
  lot joins an OPEN (even CLOSED) auction, where it stays DRAFT for good.
  `docs/technical-spec.md:75` says a lot is added only to a DRAFT auction.
  `SerialAuctions!LateLot` is this weakened promise; everything else the
  service promises it keeps, which `RefinesSerial` shows.
- `told_sale`: the commit comes after the response (`main.py:163-164`), so a crash or a
  commit that times out behind a backup loses a sale the client was told of. `docs/api.md:164`
  promises 503 when the database is unavailable, and
  `scripts/release_check.py:109` that the sale is in the report. What a report has shown, on the other
  hand, is never taken back (`ReportsOnlyGrow`).

Other properties hold only under a condition which they, or the specification they
are checked of, name. Each condition is there because the code breaks the promise without it:

- `Prompt` in `Settled` and `FailureChangesNothing`, file operations: `rollback` changes
  `self.state` before it writes `state.json` (`deploy.py:292-293`; `deploy` writes the file
  first). If the write fails, `restore_current` restarts the *previous* release and
  `pending.json` is removed: another release runs than `state.json` names. A failing `unlink` after
  the save also reports a rejection of what was accepted.
- `Prompt`, late effects: a `docker stop` of the old release that times out
  (`deploy.py:187`) may take effect after `restore_current` has started and
  probed that release. A late start of a rejected candidate may take the port that
  `RecoverFindsPort` wants free, and run unnamed.
- `state.current # NoRelease` in `Settled`: `restore_current` ignores a failing `docker stop` of the
  candidate (`deploy.py:122`). With an accepted release to restart the taken
  port is noticed; without one the script reports "service remains unavailable" (`deploy.py:129`)
  and the rejected release goes on serving.
- `Undisturbed` in `FirstStartServes`: `sqlite3.connect` (`migrate.py:50`) creates the file before
  anything is in it, so a first start that dies then leaves an empty file;
  `lifespan` migrates only a missing one (`main.py:77`), and no restart ever serves until
  somebody migrates.
- `~lost` in `ServesAtHead`: the same lines create a lost database anew at the next start of the
  service, although `db.py:15` says a lost file must never silently reappear.
- `Put` of `Snapshots` asks for no `--replace`: `restore_database` refuses an existing target without
  it at its start (`backup.py:85`) but decides between `replace` and `link` by a
  second look (`backup.py:104`), so a target created meanwhile is replaced unasked. Its content is kept.
- No property says that a working release is accepted: `release_check.py` takes an answer for a
  commit, and its lot may be refused because the auction is not committed, or
  its sale miss in the report.
- `SF_vars(view = "auth" /\ Reload)` in the `FairSpec` of `WebClient`: `app.js:158-167` registers and logs in at once; the login may
  come before the commit of the registration and is refused. The form stays in register mode, where each attempt
  gets 409, until the page is loaded again.
- No property says that the operator's part is shown only with a session, and no document does. The cookie changes
  with the head of an answer, the page after its body (`app.js:26-30`). A logout commits and its answer is
  late; an operation sent with its cookie gets 401 and the form appears; the head of a login's answer sets the new
  cookie; the logout's answer deletes it and shows the form; the body of the login's answer comes, and
  `showApp` runs without a cookie. A lost commit of a login, a first answer that comes after a logout, since the
  form is live before `bootstrap` ends (`app.js:338`), and the end of a session lead there too. `Mended` says
  what is left: the next operation gets 401, and `api` shows the form.
- A logout that does not reach the server shows the form all the same (`app.js:180-182`); cookie and
  session live on, and no property says otherwise.

## Proofs

Assumptions: prices are positive naturals, rates are 0..10000, the values for
"no row" and "no request" are not ids, outside SQL sets `is_active` to a
Boolean; `MaxWait < Ttl` for sessions; a torn or damaged file is no commit's content; the faults
of a host are among the four named ones; the acceptance script's rows are ids of the service's; the steps of the
walk are positive. Everything else (sets of requests, rows, e-mails, tools, releases,
finite or not, and the numbers that bound a run) is arbitrary.

`AuctionServiceProofs` proves of `Spec`: `TypeOK`, `WriterIsolated`,
`CommittedLedger`, `CommittedPhases`, the refinement of `SerialAuctions`,
`SalesFollowRules`, `ClosedBooks` and `ReportsOnlyGrow`; of the clients of `Acceptance`,
`SeenIsCommitted` and `RefinesDocumented`; and of the walk over prices and rates,
`SplitMovesOneKopeck` and `BothGainFromMore`.

`CommittedLedger` is not inductive: a commit copies `image` into `db`, so one must know
what `image` is. Nor is it enough that `image` is consistent, since for the
refinement it has to be *one operation ahead of the present `db`*. The invariant `IInv` therefore
says

1. `WriterIsolated`: without a writer `image = db`; a request under the lock that
   has checked its rule still has that rule true of `db`; between its two statements `image` is `db` with the
   first of them (`Begun`), and after its write
   `image` is its operation applied to `db` (`OneOperation`). Nobody else can
   change `db` or `image` meanwhile, because both need the lock;
2. `Fits`: which operation a request at a label has, and what `create_lot` still
   knows after its unlocked checks: its auction and its seller exist. Rows
   never disappear, so this is stable, and it is all that `LateLot` demands;
3. `Consistent(db)`: types, ledger and phases.

Section 2 shows, handler by handler, that an effect whose rule holds
keeps a database consistent and leaves the books of closed auctions alone;
section 3 has one lemma per action for `IInv`, the commit being
the only one that uses section 2. The refinement and the action
properties follow from `IInv` and the fact that `db` changes only at a commit
and at outside SQL.

*Money.* For every price and rate the fee is the share rounded
half up, lies between 0 and the price, nobody gets less from a dearer
sale, a sale cut in two costs at most one kopeck more or less, and kopecks survive
conversion. The product of price and rate is not linear: each proof bounds it
once and then argues about one integer.

*Reports.* What a sum over a set of rows comes to is an induction, and those are out of
reach (below). The way round: such a sum counts kopecks. `Kopecks` is the set of pairs of a
row and a number up to what the row is worth, `SumsCountKopecks` says that
the two sums of a report are the sizes of such sets, and of two finite sets, one in the other,
the library knows which is the larger. The induction that is left asks for the smallest
set of rows that a sum gets wrong; inclusion is well-founded on the subsets of a
finite set (`SmallestSubset`), and without a smallest there is none. The
invariant `NotAhead` then says that no report ever answered counts more than the
committed database; `db` only gains sales and they stay in their auction (`SalesStay`). That the commission
reported is never above the turnover, and an auction's report never above the one on all, follows from
the same sets (`ReportsAreConsistent`).

*Acceptance.* The script takes an answer for a commit and goes on, so what it
relies on need not be in the database yet. Its invariant `AInv` adds to `IInv`: at most one
request is unanswered, and it is the one the script waits for; all others are at their
commit (`Awaited`), of which by `WriterIsolated` there is one at most, the holder of the
lock. So until the script asks to open its auction no commit under way opens one (`Mine`, `Committed`): its
`create_lot`, though its checks are made without a lock, finds a DRAFT auction at its commit too. And what the
report shows is committed when it shows it, since a report reads `db`.

*What no run asks.* `SaleNeverBreaksUnique`: the `IntegrityError` that `create_sale` catches
(`services.py:298`) never comes, for the checks before it are made under the same lock.
`ToldIsKeptUnlessCommitLost`: the promise that `told_sale` refutes holds on every behaviour without a
crash, a storage error or a commit that waits too long for a backup between an answer and its
commit; other requests, refusals and timeouts cannot break it.
`LotsJoinDraftsUnlessOvertaken`: what `late_lot` refutes holds unless an `open_auction` of the same auction
commits between the read of a `create_lot` and its insert (`LotOvertaken`), so there is no other way into
an auction that is not a DRAFT. `RowsLiveOn`: from one committed database to the next no row skips a stage of its life or
goes back in it, or loses its rate, its auction or its starting price. `SerialIsConsistent`: the abstract specification,
`LateLot` included, keeps `Consistent` without any help from locks.

`ReleaseSelectionProofs` proves `OnlyPassedRuns` and `AutomaticGoesForward` for
any number of commits, runs and events. Both are about `Deliver`, while the check is made
in `Select` and main, the runs and their states may change in between. `Chosen` is what
survives: a delivery past its check names a commit that has passed *once*, and an
automatic one a commit no older than the releases on the host, which nothing but the
same group of deliveries changes. `Chosen` needs that no release is newer than
the tip (`StagingFits`), and that every delivery names a commit of main (`DeliveriesFit`, from `EventsFit`
and `RunsFit`).

`MigrationProofs` proves every safety property of `Migration`. Again the verdict is
older than the lock: `validate_legacy` looks before `BEGIN IMMEDIATE`. The invariant says

1. `LockFits`: a process holds the lock exactly while its upgrade is open, the file
   is there then, and otherwise `image = db`;
2. `Begun`: what is left of the verdict at `begin` and after: the database is not
   a foreign one. What others commit meanwhile is ours too, or a row, or an empty new file;
3. `Ahead`: the image is `db` with its rows, upgraded by whole revisions, but for
   the one revision that lacks its stamp;
4. `Fits(db)` and `ServesAtHead`: a commit under a service that runs can only be of the
   same revision, since it goes to none older and there is none after head.

`OperatorSessionsProofs` proves every property of `OperatorSessions`. Its invariant is that of `AuctionServiceProofs` in
small: who holds the lock and has checked still finds nobody registered (`Holds`). In
addition, a write under the lock has taken away only sessions that had expired by the login's
own clock, or the logout's own (`Changed`), and a login's clock is at most `MaxWait` behind
(`Recent`). `Sound` says of `db` and `image` alike what then follows: all expiries lie
within one lifetime.

`BackupFilesProofs` proves the types, `SoundStaysSound` and the refinement of `Snapshots`. A restore
looks for a journal and at the target long before it replaces it. `Fits` says what is still true
at the replacement: the application is stopped, so there is no journal; what is put in place is the content of a
backup, and what it takes the place of is `Held`: in a backup or a before-restore
file, though another restore may have put it there since. `Whole` ties a torn target to its
journal. The refinement then goes action by action, most of them a stutter.

`DeploymentProofs` proves every safety property of `Deployment`. One port makes one running release (`OneRuns`).
`Place`, `Candidate` and `Remembered` relate the step of the script, its memory, its
candidate and the two files; `Placed` and `Named` say which release it may be that runs, `Kept` that the
accepted one is still the one `pending.json` names as previous. `RowsMove`
holds even with late effects because of `Copied`: a late start may bring the old release back
behind the script, which then leaves rows behind; but only one call is ever late, so
the old release holds the port to the end, the new one never starts, and
its deployment is not accepted.

`CriticalReviewProofs` proves `PassNamesItsCommit` and `ObjectionsStand`. The first is about an approval that was read
some time after the head: a run goes on only for the commit of its event, and a review stays in its place and keeps its
commit, whoever pushes or dismisses. For both one must know that `latest` is the last word of its owner, for
lists of any length: a set of places has a last one because a set of natural numbers has a least one (`LeastNumber`,
from the well-foundedness of `<`).

Only model-checked: `RequestsFinish`, `FirstStartServes`, `RecoveredAtLast`, `SignsIn` and `Mended`, which are liveness and
would need `ENABLED`. The prover cannot take an induction theorem whose parameter is an operator, so
each induction above is put as the smallest counterexample under a well-founded relation.

## Not modelled

Titles, descriptions, periods, phone numbers and creation times (in no rule);
passwords beyond right or wrong; cookie attributes; the GET routes of single
rows, `/health` and `/version`; log and message texts; integers as SQLite stores them (a sum overflows
only after some nine million sales at the highest price).

- Acceptance: its probes, login and logout; `check_acceptance.py`, a comparison
  of configuration files, and `container_smoke.sh`, a sequence of container calls.
- Web client: what an operation writes into other forms and the result card; two
  tabs; two handlers of one kind at once, which only the logout button allows; a page loaded
  again while requests of the one before are under way.
- Reports: the read of `revenue_report` and its answer are one action, so reports are ordered by their reads.
- Deployment: `deploy_remote.sh`, which runs `deploy.py` over SSH, and the checks
  of configuration and image before the first effect.
- Selection: the jobs of CI before `publish`, the registry, `recover` asked for by hand
  (it delivers nothing new). A pending delivery that a later one
  displaces is modelled; that main's tip may thus never be delivered is
  GitHub's rule, and no document denies it.
- Approvals: the list of changed files and of critical names (lines 8-31, 78-91);
  every commit of the model changes critical files.
- The demos, the mutation check, the secret scan and the set-up scripts keep no state of the system.

## Plan

Every plan of the first version of this document is carried out, and every safety property of the
runs is proved. What would come next:

1. The safety half of the liveness properties: a measure of the way a request, a start and a recovery
   have still to go, which their own steps lower and nobody else's raise.
2. The three routes of the probes and the session of the acceptance script, as requests
   of `OperatorSessions` beside those of `AuctionService`, on one `Connection`.

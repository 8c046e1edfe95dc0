# Formal models of meea-icey

meea-icey is a small web service. Clients store *records* under a *subject*
(a SHA-256 in hex), look them up, vote on whether they are credible, and
delete them with a token. There is no database: the records are files in a
Git repository, of which the service keeps one clone; verification codes live
in Redis; bitmaps of votes are protected by a mutex and by Git LFS locks. The
same program issues license codes and signs certificates for them, and keeps
the access token of the WeChat API.

This directory models the parts of the service where the order of steps
matters, checks them with TLC and proves the most important facts with TLAPS.
`PROJECT.json` lists runs, mutants, theorems, hazards and findings, and maps
every definition to the lines it models.

## The system

| Part | State | Operations |
|---|---|---|
| `VerifyService` (services/verify_service.go) | Redis keys `icey:subject:<subject>:<code>`: number of uses, 24 h to live | `VerifyCode`: EXISTS, GET, then DEL or INCR |
| `WechatController` | the same keys | `HandleMessage` draws a code and SETs its key |
| `GitService` (services/git_service.go) | the clone (working tree, index, HEAD, `origin`), the LFS locks | `CloneRepository`, `PullRepository`, `CommitChanges`, `LockFile`, `UnlockFile` |
| `CommitService` | four files of a record: `.sj` content, `.bm`, `.bmi` votes, `.dt` hashed token | `ProcessCommit` |
| `DeleteService` | the same files | `ProcessDelete` |
| `VoteService`, `BitmapService` | `.bm`, `.bmi`, the mutex `mu` | `Vote`, `AddBit`, `GetStats`, `LockBitmaps`, `UnlockBitmaps` |
| `QueryController` | reads the working tree | `HandleQuery` |
| `WechatService` | Redis key `wechat_access_token` | `GetAccessToken`, `SendMessage` (no route reaches them) |
| license service, its verification adapter, crypto | Redis keys `license:code:<code>`, 5 min to live | `GenerateLicenseCode`; `ProcessLicenseRequest`: EXISTS, then sign |
| `tools/wechat_utils.go` | none | decrypt, unpad and parse a WeChat message |
| `services/common_utils.go` | none | name the files of a record, take its token apart, find its files |
| `cmd/server/main.go`, `models/`, `config.yaml` | configuration | start, routes |

How they interact. Every request to `/query`, `/commit`, `/delete` and `/vote`
first spends one use of a code (`VerifyCode`), then pulls. `/commit` writes
four files, `/delete` removes them, `/vote` takes two LFS locks and changes
two files under a mutex; all three end in `CommitChanges`, which stages each
file, commits and pushes. `net/http` runs each request in a goroutine of its
own, and apart from `BitmapService.mu` nothing orders them: they share the
files, the index and HEAD. `gin.Default` turns a panic into a 500 after the
deferred calls have run.

Hard behaviours: check-then-act on Redis; read-modify-write of index and HEAD
by concurrent requests; a commit whose push failed, or landed unheard; a pull,
commit or delete cut off in the middle; files emptied before they are
written; statistics read outside the mutex; a write that fails
halfway while others go on; locks of a single LFS user that every vote removes
first; bitmaps that are full; a clone that is made while a
second request comes, or is cut off; a token refreshed twice at once; keys
that end between two steps, or never.

What makes each part correct:

* codes: every use is counted, the limit is exceeded by a bounded number at
  most, a spent or expired code stays dead;
* the clone: a request works in a whole clone or fails, a clone that fails
  leaves nothing in the way of the next, and a whole one is not lost;
* the store: success means published, published means whole, what was
  answered stays until it is deleted, what was deleted stays away, a pull
  brings the working tree up to date;
* votes: none is lost, altered or counted twice; the answer counts at least
  what was saved before it;
* locks: held while the files change, given back in the end, never a reason
  to refuse the next vote, other users' locks left alone;
* licenses: no certificate without a code, and a code lasts as long as promised;
* the access token: what is stored is accepted by WeChat, and what is not
  leaves in time;
* formats: what was packed is read, a token leads to its own record only.

## The modules

| Module | Models | State |
|---|---|---|
| `VerifyCode` | `VerifyCode` and the key of `HandleMessage` | `present`, `expiring`, `count` are Redis; `pc`, `code`, `sends` are the calls; `uses` is history |
| `VerifyCodeProofs` | theorems about it | |
| `RecordStore` | pull, commit, delete, vote and query on one clone and one remote | `wt`, `index`, `head`, `seen` are the clone, `remote` its remote; `pc`, `at`, `held`, `base`, `removed` are the handlers; `mutex` is `BitmapService.mu` |
| `RecordStoreProofs`, `RecordFateProofs` | theorems about it | |
| `VoteBitmap` | `AddBit`, `GetStats` and the statistics of `/query`, byte by byte | `bm`, `bmi` are the files; `mutex`, `mem`, `read`, `answer`, `pc` are the handlers; `cast` is history |
| `VoteBitmapProofs` | theorems about it | |
| `VoteTally` | abstract: a count of votes up to a capacity, held by the files exactly or not countable | `tally`, `stored`, `ruined` |
| `RecordRegistry` | abstract: records that are absent, live or withdrawn, known to the service before they are published | `known`, `published`, `owned`, `sound` |
| `RepositoryClone` | `CloneRepository`, and the choice between clone and pull | `dir` is the directory; `pc`, `cleans` are the requests; `wiped`, `past` are history |
| `RepositoryCloneProofs` | theorems about it | |
| `RedisKeys` | SET with a time to live, eviction, the passing of time | `ttl` |
| `LicenseService` | license codes and certificates | `admin`, `request`, `code` are the calls, `debugMode` is configured; `codeLived`, `promised` are history |
| `WechatService` | `GetAccessToken`, as `SendMessage` calls it | `cached` is the token in Redis; `call`, `held` are the calls; `trouble` is history |
| `RedisClients` | the two on one Redis | |
| `RedisClientsProofs` | theorems about it | |
| `WechatMessage` | `PKCS7Unpad`, `DecryptWechatMessage` | none (operators) |
| `RecordTokens` | names of files, tokens, `ParseTokenAndID`, the search by id | none (operators) |
| `FormatProofs` | theorems about the last two | |
| `VoteLock` | `LockFile`, `UnlockFile`, `LockBitmaps`, `UnlockBitmaps` | `owner` is the LFS server; `dirty` the files with uncommitted changes; `pc`, `cmd` the votes; `saved`, `past` are history |
| `VoteLockProofs` | theorems about it | |
| `MC...` | instances for TLC | |

`VoteBitmap` looks into two files of one record, `VoteLock` at the commands
around them, `RecordStore` at all files together: there a bitmap is the set of
requests whose votes it holds, and taking the LFS locks is one step that may
fail. The three overlap in `AddBit`: `RecordStore.ReadBitmaps`, `EmptyBm` ...
`WriteBmi` and `VoteBitmap.Place`, `EmptyBm` ... `WriteBmi` are the same calls at
two levels of detail.

**VerifyCode.** One action per Redis command: `CheckExists`, `ReadCount`,
`DeleteCode`, `Increment`. `Expire` and `Evict` remove a key between any two
of them (`redis.conf` sets `allkeys-lru`). `INCR` creates an absent key
(`IncrKey`), without a time to live. The client repeats a command whose reply
is lost: `IncrementUnheard` counts without the call knowing; the other
commands are repeatable and their repetition is not visible. `RedisFails`
is a command that never arrives. A dead Redis server is not modelled.

**RecordStore.** One action per access to files, index, HEAD or remote. The
go-git calls are modelled from how `git_service.go` uses them (v5.16):

* `Worktree.Pull` fetches and moves HEAD when the remote is a fast-forward
  (`Fetch`); when `origin` has not changed and HEAD is not behind, it is already
  up to date. Then it resets: it looks for unstaged changes of tracked files,
  which refuse the reset, writes HEAD again and reads the index (`Reset`),
  writes the index (`ResetIndex`), and removes and writes one file of the working
  tree after the other, those of a record in the order of their names
  (`CheckOut`, `CheckedOut`). `FetchFails` is a network error.
* `Worktree.Add` and `Remove` are `ReadIndex` and `WriteIndex`; `CannotRemove`
  is the removal of a file that is not in the index.
* `Worktree.Commit` is `BuildCommit` and `MoveHead`; empty commits are refused.
* `Push` needs a fast-forward; `PushFails` and `PushUnheard` are a refusal or
  network error, and a push that lands without a reply.

A commit is a record of its history (`log`, a set of requests and other
writers) and its tree; a tree maps files to the votes in them. Identifiers are
fresh (snowflake), so the request that commits names its record. `os.WriteFile`
empties a bitmap before it writes it (`EmptyBm`, `WriteBm`, `EmptyBmi`,
`WriteBmi`), and `AddBit` panics on one it finds empty (`AddBitPanics`); the
files of a new record are created with their content in one step, since nobody
knows of them yet. `Abort` ends a handler between any two steps: a failing
system call, or the death of the process, which the clone survives as it is; a
handler cut off while it checks out files is `torn`. `Targets` restricts
`/delete` to records whose token was given out and `/vote` to records a query
shows. The clone is whole from the start; `RepositoryClone` is about how it
gets there.

**RepositoryClone.** Every handler begins with `PullRepository`
(`ProcessDelete` looks for the directory itself), which clones when there is
no directory and pulls when there is one. Nothing marks a clone that is under
way. `dir` says how far the directory has come: `none`, `empty`, `bare` (no
repository), `init` (no remote), `origin` (a remote, nothing fetched), `stray`
(HEAD is no commit of the remote, or the remote was lost), `fetched` (HEAD, but
an empty index), `indexed` (files missing from the working tree) and `whole`.

`git.PlainClone` is modelled as it works in go-git v5.16, one action per access.
It looks at the directory (`Begin`) and remembers in `cleans` what it will remove
if it fails: all, when there was nothing, the contents, when it was empty, or
nothing. `PlainInit` makes the directory (`MakeDirectory`), refuses one with a
HEAD (`CheckHead`), and sets HEAD (`SetHead`). Nothing holds these three
together: two requests can both find no directory, or no HEAD, and clone into
the same one. Then the later finds the remote there already, or fails in
another step, and its clean-up removes the directory under the earlier. What a
step does to what another clone has made is an outcome of the step (`stray` is
mostly such a mixture). `AddRemote`, `FetchRefs`, `Checkout` (the index) and
`CheckoutFiles` follow. A pull into a repository that has a HEAD at the commit of
the remote is up to date whatever index and working tree hold; another one goes
on to `Reset` and `Refill`. What
handlers do after the pull is one step here, `Read` or `Commit`, because only
its effect on an unfinished clone matters.

**LicenseService and WechatService** share `RedisKeys`: each key has the time
it has left, which `Tick` decreases, so time needs no horizon. `SetKey`
with a duration that is not positive stores the key for ever, as go-redis does.
A token of WeChat has a lifetime, an age and a flag saying that WeChat has
issued a newer one. `Evict` and `Tick` act on both services at once
(`RedisClients`). No route reaches `SendMessage`; the module models what
happens once one does.

**WechatMessage and RecordTokens** are functions without state: bytes and
characters matter here, because a length or a dash in the wrong place is what
could go wrong. The token of `RecordTokens` may contain dashes, its id not. The
id comes from the client, and `filepath.Glob` gives `*`, `?`, `[` and `\` a
meaning of their own there: `Found` is the search for an id without them
(`Literal`), which is an hypothesis of what is said about it.
`DecryptWechatMessage` starts where AES-CBC ends; results that may be an error
are sets of at most one element. They are evaluated for small inputs by an
`ASSUME` of `MCVerifyCode` and `MCRecordStore`, and proved.

**VoteBitmap.** Files are functions from positions to bits with a size, so the
two kinds of files (512 bytes from `ProcessCommit`, 1024 bytes when `AddBit`
finds none) and a file emptied by `os.WriteFile` differ. `Fits` says when
`AddBit` stays within its slices; otherwise it panics (`PlacePanics`). A write that
fails (`WriteFails`) leaves the files as they are by then, releases the mutex and
lets the other votes go on, unlike the death of the process (`Crash`);
`ReadFails` is a file that cannot be read. Step 4
of `AddBit` (replace an opposite vote of block 0) is left out: its condition
`pos >= len(bm)` is only true for files on which `AddBit` panics. The
statistics are pairs (credible, total); the percentage is not computed.

**VoteLock.** One action per `git lfs` command. All votes of the service are
one user, "us". `Unlock` and `ForceUnlock` are the two commands of
`UnlockFile`; `Lock`, `ListLocks`, `UnlockOwn`, `LockAgain` the four of
`LockFile`. `Lines` models `strings.Contains(line, relPath)`: the path of
`.bm` is also a part of the line of `.bmi`. `OwnerShown` says whether the third
field of a line is the owner, which depends on the version of git-lfs; with
FALSE `LockFile` never recognizes its own locks.

## The abstract specifications

`VoteBitmap` implements `VoteTally` (property `ImplementsTally`): the tally is
the votes that are counted, and `stored` is what the two files hold of it when
they are taken together at one moment: the count without the vote being saved
or with it, or nothing that can be counted. So a vote changes the count in one
step, by one, whatever is interleaved. `stored` is not what a caller of
`GetStats` gets, who reads the two files at two moments: that is
`AnswerWithinRace`. The capacity is `blockSize`: later votes go to the overflow
block, which the statistics leave out. After a write that was cut off or failed
with a file emptied (`ruined`) no vote is taken and what the files hold stays.
This refinement is proved for every block size and every set of voters.

`RecordStore` implements `RecordRegistry` (property `ImplementsRegistry`): what
the service knows is the life of each record according to HEAD, what is
published is the same according to the remote, a token is owned from the
moment a commit answers success. `ProcessCommit` gives no token when its push
fails, but the record is in HEAD and goes out with the next push of anybody:
the registry says so (`Push` may leave `owned` unchanged, and `Withdraw` needs
an owner, so such a record stays for ever). The promise ends when a handler is
cut off (`sound`), for the reasons given below. With one request at a time this
refinement is also proved.

## What the runs check

All passing runs are free of deadlock. Bounds are in the `.cfg` files; each
constant is explained in its module.

| Run | Instance | Properties |
|---|---|---|
| `verify_concurrent` | 1 code, 3 calls at once, limit 2, 2 sends | `TypeOK`, `NoUseUncounted`, `BoundedOvershoot`, `DeadStaysDead`, `CallReturns` |
| `store_serial` | 4 requests one at a time, 1 other writer, unheard pushes, at most 2 aborts | `PublishedWhole`, `AnsweredStaysPublished`, `WithdrawnStaysAway`, `PullIsLatest`, `TokenOutlivesFiles`, `PublishedStays`, `SuccessIsPushed`, `HeadKeepsCommits`, `DivergedStaysShut`, `ImplementsRegistry` |
| `store_concurrent` | 3 requests, 2 at a time, no faults | `TypeOK`, `AnsweredIsOnDisk` |
| `bitmap_votes` | blocks of 3, 5 votes, 2 at a time, crashes, failing reads and writes, both kinds of files | `TypeOK`, `TallyExact`, `AnswerWithinRace`, `StatsAgree`, `OverflowHoldsOne`, `ImplementsTally` |
| `lock_votes` | 2 votes, overlapping or not, all faults | `TypeOK`, `HeldWhileVoting`, `NothingLeftLocked`, `LeftoversDoNotRefuse`, `OthersKeepTheirLocks`, `EveryVoteEnds` |
| `clone_create` | 5 requests, 3 at a time, network faults and crashes | `TypeOK`, `HandlersUseWhole`, `FailuresLeaveNothing`, `WholeStays`, `StuckStays` |
| `keys_expire` | 1 code of 2 ticks, 2 administrators, 1 client, 2 senders, tokens of 1 or 4 ticks | `TypeOK`, `CertificateNeedsCode`, `CodeLastsAsPromised`, `CachedTokenIsAccepted`, `StaleTokenLeaves` |
| `verify_lifetime` (violation) | 1 code, 2 calls | `EveryCodeExpires` |
| `store_partial` (violation) | 3 requests one at a time, aborts | `EveryFileCommitted` |
| `store_lost` (violation) | 2 requests at a time, no faults | `SuccessIsPushed` |
| `bitmap_full` (violation) | blocks of 3, 4 votes | `EveryVoteFits` |
| `lock_excludes` (violation) | 2 votes at a time, no faults | `LockExcludes` |

Why the bounds are enough. *verify*: two calls already race for the last use;
the third makes the overshoot more than one, and a third actor deletes or
revives the key of the other two. Keys do not interact, so one suffices.
*store*: a commit, a vote or delete on it, an unrelated commit that publishes
the shared index, and one request more that is cut off or fails: four; one
other writer makes the histories diverge. Two of the four may be cut off
(`AtMostTwoCut`): a delete and its repetition, or a commit and a pull that finds
what it left. Concurrency needs a commit and two
requests on its record: three. *bitmap*: blocks of three have room, fill up
after three votes, and leave two votes for the overflow block, whose
threshold (two) they do not reach; with two positions the threshold would
be one, which 256 positions do not behave like. *lock*: the second vote
follows the first, overlaps it, or meets what it left. *clone*: one request
that clones, one that comes meanwhile and clones too, one that pulls from what
they have made so far; two more come when these have failed or died. *keys*:
two administrators renew one code, a code of two ticks is seen old and new;
two senders refresh at once and the older token may be stored last; a token of
four ticks is stored for three (`Margin` is one), a token of one tick is not
longer than the margin and stays for ever; a reply delayed by two ticks is
later than the margin. Symmetry is used only in runs without liveness.

Which properties hold only under conditions. `RecordStore`'s promises are
checked one request at a time, because concurrent requests break them
(`store_lost`). Most of them end once a handler was cut off (`NobodyCut`):
`store_partial` shows one reason; another is a pull that is cut off after HEAD
has moved: the next pull is already up to date, the working tree stays old, and
the next commit of a file may undo what others published. What holds even then
is `SuccessIsPushed`, `HeadKeepsCommits` and `DivergedStaysShut`.
`TokenOutlivesFiles` holds wherever handlers are cut off, except while a pull
checks out files or after one was cut off there (`NothingTorn`): when a delete
is cut off with its removals staged but not committed, and another writer
publishes, the next pull brings the record back, and if it dies after writing
`.bm` the record has a file but no `.dt`, and the delete cannot be repeated.
`AnsweredIsOnDisk` holds with several requests at a time, and with handlers cut
off, but only while nobody else publishes and no push that landed is taken for
a failure: otherwise a pull resets the working tree under the handlers. Even so
the votes of a record cannot be read in the moment in which a later vote has
emptied the file, nor ever after when that vote is cut off there.
`AnswerWithinRace` allows one credible vote more than were saved, when a
credible vote failed or died before it was saved: it may have left its bit in
`.bm`, where a reader finds it, and a vote that takes the same position then
marks it before the reader comes to `.bmi`. `VoteLock`'s properties about a
single vote end with the first overlap (`past`). `HandlersUseWhole` ends with a
request that comes while the clone is made, and with a process that dies
between the fetch and the end of the checkout: the next pull finds HEAD up to
date, leaves the index empty, and the next commit holds nothing but its own
files (`wiped`), which removes all other records from the remote.
`FailuresLeaveNothing` ends with either, and with any death of the process: a
directory nobody removed is taken for a clone. What holds even then is that a
whole clone is lost only to a request that began to clone before it was whole,
one that may remove the directory or has found no HEAD (`WholeStays`); and a
directory that is no clone is not repaired by any request (`StuckStays`), but
has to be removed by hand. `CachedTokenIsAccepted` ends with two refreshes at
once (or a GET that fails, which the code takes for a miss) and with a reply
later than the margin or a token shorter than it (`trouble`);
`StaleTokenLeaves` says that the damage of the former ends with the token.

What the violations show:

* `verify_lifetime`: the key expires between GET and INCR; the INCR creates it
  without a time to live. (That the limit can be exceeded is the other side of
  the same check-then-act: `BoundedOvershoot` says by how much.)
* `store_partial`: a handler stops after staging some files of a record; the
  next commit of any request publishes them, without the rest.
* `store_lost`: two requests read the same index, or the same HEAD, and the
  second write drops the first; both answer success.
* `bitmap_full`: the 257th vote on a record panics, since the files have no
  third block.
* `lock_excludes`: a vote unlocks both files before it locks them, and so takes
  the locks from a vote in flight.

Each property of a passing run has a mutant, a plausible bug of a mapped
definition, that violates it.

**Fairness.** `VerifyCode!FairSpec` and `VoteLock!FairSpec` assume weak fairness
of the steps of a call once it has started: Go schedules every goroutine that
can run, and every call of Redis or `git lfs` returns, with an error at worst
(the Redis client has timeouts; `exec.Command` waits for the process to exit,
so here fairness assumes that `git lfs` exits). Nothing is assumed about
clients, expiry, other users or crashes.

## What is proved

For every value of the constants that satisfies the named assumptions
(checked by TLC in every run that extends them).

`VerifyCodeProofs`, from `MaxAttempts`, `MaxSends` positive and `Calls`
finite. `BoundedOvershoot` is not inductive: the number of uses is bounded
only because the stored count is, and a call that is about to INCR has seen
a count below the limit, perhaps long ago. `IInv` therefore joins it to
`NoUseUncounted` (the stored count is never below the uses, so a spent key is
seen to be spent) and, because a call may count a use of a key that vanished,
to `GoneIsZero`: a vanished key has neither a count nor uses. Calls in flight
are counted with the uses in `BoundedOvershoot` itself.
`UsesAreCounted`, `OvershootIsBounded`, `DeadCodesStayDead` and `TypeCorrect`
follow from it.

`VoteBitmapProofs`, from `blockSize` positive. `TypeCorrect` contains that
the mutex is held by exactly the vote that is writing. `VotesAreKept`
(`TallyExact`) needs the strengthening `IInv`: `.bm` agrees with the votes
saved even while `.bmi` is being written (`VotesExact`: a vote more than saved
does no harm, because its mark is missing), `.bmi` has exactly the marks of
the votes saved (`MarksExact`), the holder of the mutex has in memory the
files with its vote appended (`Prepared`), `.bm` is written before `.bmi`
(`Written`), and files are missing only before the first vote
(`MissingMeansNone`). The lemma `AddBitAppends` says what `AddBit` computes:
the marks are a prefix of block 1, so its first free position is the next
one, and the overflow block does not touch block 1.

The statistics rest on the same invariant. `StatsAreExact`: two files that hold
the votes are read without a panic and give the numbers of `VoteTally`, because
the positions of the votes and their marks correspond one to one. `/query`
counts all marks, not those of one block; that these are the same needs
`MarksConfined`: there is no mark outside the votes' block, until the votes go to
the overflow block, and then only its first. Hence `StatisticsAgree` and
`OverflowKeepsOne`, which assumes `blockSize >= 3`: with less, the threshold at
which the overflow block is filled with ones is one. `VotesImplementTally` maps
the write of `.bmi` that completes a vote to `VoteTally`'s `Vote`, or to `Write`
when the vote goes to the overflow block, the writes before it to `Write`, a
process that dies between them, or a write that fails there, to `Ruin` when a
file is left empty, and every other step to none.

`AnswersAreWithinRace` is about a reader without the mutex, whose two files may
be from different moments. `RaceInv` says of `.bm`, and of what a reader has of
it, that it has at most one credible vote beyond those saved, and that this one is
being saved or has failed (`Excused`); that such a leftover is at the next position
(`LeftoverIsNext`) and is overwritten by the next vote in memory (`WritersClean`);
that a reader's `.bm` has at least its own vote and those before it (`HasRead`);
and that a vote that is saved is not written any more (`SavedAreDone`), so a
vote whose write fails is not among the saved.

`RepositoryCloneProofs`, from `Faults` and `MaxInFlight` as assumed.
`HandlersUseWhole` is not inductive: that a pull finds a whole clone rests on
what the request that made it, and those that failed to, left behind. As long
as nothing has overlapped (`Undisturbed`), each step of a request goes with one
state of the directory, and with its right to remove it (`InStep`); the request
that works in an unfinished directory is the only one in flight (`Alone`); and
HEAD without index or files has somebody who will fill them (`Attended`). As long
as the process has not died either, an unfinished directory is the work of a
request in flight (`Tidy`). `TypeCorrect`, `PullsAreWhole` and
`FailuresAreCleanedUp` follow; `WholeClonesStay` and `StuckClonesStay` are
properties of single steps.

`RedisClientsProofs`, from the named assumptions of the three modules.
`CodeLastsAsPromised` and `StaleTokenLeaves` are inductive next to the types.
A certificate depends on what was true earlier: `Looked` says that a request
about to sign has had its code live, and that a request about to look has if
the code is live now. That the stored token is accepted needs what the absence
of a race means: one call refreshes at a time, it began with an empty cache,
and the token it holds is the one issued last (`Orderly`). `LicenseFrame` and
its counterpart for the token say that the calls of one service leave what the
other knows alone, because their keys differ. `TypeCorrect`,
`CertificatesNeedCodes`, `CodesLastAsPromised`, `StaleTokensLeave` and
`CachedTokensAreAccepted` follow.

`VoteLockProofs`, from `Faults` as assumed, for both values of `OwnerShown`.
A vote that no other has overlapped holds both locks while it changes the
files because each step of it goes with what it has locked so far (`Held`), and
nobody else is there to unlock them (`Alone`). A lock of the service always has
a vote in flight that is about to unlock it (`Owed`), even when votes overlap,
unless a command failed or a process died: hence `LocksAreReturned`.
`VotesGetPast` rests on the unlocking of both files before each vote
(`Cleared`), and `OthersAreLeftAlone` on `--force` being used only after an
unlock that found uncommitted changes (`Forcing`).

`RecordStoreProofs`. `TypeCorrect` holds for every `MaxInFlight`: a vote goes
on from bitmaps it has read (`Ready`), and the members of `mutex` are one
(`Mutual`). The other theorems of this module assume `MaxInFlight = 1`, like
the run `store_serial` (`store_lost` shows why they must), and all faults. Then
the commit a handler has read or built still extends HEAD when it is written
(`Based`), and a request is in no history before it has committed (`Origins`):
`CommitsAreKept` and `PartedStaysParted` follow. `Progress` says what a handler
has done to the files, the index and its commit at each step; nothing is asked
of what it found, so `SuccessIsOnTheRemote` holds wherever earlier handlers
were cut off. `WholeIsPublished` and `PullBringsLatest` do depend on what was
found. Until a handler is cut off, `Tidy` relates the stores: index and working
tree agree with HEAD while no handler is busy (`Level`), and a busy one has
changed them in its own record only, in the order of the code (`Orderly`); so
what it stages is a whole tree, since it has finished the files of its record
by then.

`RecordFateProofs` goes on from there, with `MaxInFlight = 1` except in its
last theorem. `Fates` says where files can be: those of a record that nobody
has written yet, or whose delete was answered, are nowhere, in no store and no
commit on its way (`Gone`); what a commit or vote was answered for is
everywhere, in the bitmaps a vote has in memory too, so that it writes back
what it read (`Kept`; the working tree may lack a file that a handler has
removed or emptied and is about to write, `Unfinished`). That no commit
overwrites the votes on its own record needs `Settled`: a vote comes when the
commit has ended. Hence `WithdrawnIsGone` and `AnsweredIsPublished`. For
`PublishedStaysPublished` a commit must change the files of its own request
only (`Framed`), and whatever a push would take from the remote must have been
deleted in HEAD (`Accounted`).

The refinement is `StoreImplementsRegistry`. Each step is mapped to a step of
the registry or to none: a commit changes the entry of one record as a whole,
because the tree it was built from is HEAD's with the files of its record put in
or taken out (`Started`), and leaves the others alone (`Framed`); a push or pull
never takes a record back, because of any two histories in the system the longer
has each record at the same or a later point of its life (`Chain`). Both hold
until a handler is cut off, which is as far as the registry promises anything.

`TokenStaysLast`, with `MaxInFlight = 1` and all faults, goes on after a handler
was cut off. `ProcessDelete` removes, and stages, the token file last; but pulls
bring files back and other requests' commits publish what is staged, so the
invariant is about every place a file can come from (`Retryable`): the working
tree, the index, HEAD, the remote and a commit on its way each have the token of
a record if they have any file of it, and no file of it is untracked, where a
pull would leave it behind. The working tree is excepted while a handler checks out
files, and the files that handler is done with are as in HEAD; it began with an
index the working tree agreed with (`Resetting`). All of it ends when a
handler is cut off there (`NoneTorn`).

`AnsweredStaysOnDisk` is the theorem about requests that interleave, for every
`MaxInFlight` and with handlers cut off anywhere. It assumes `Undisturbed`:
nobody else publishes, and every push that lands is heard. TLC finds
counterexamples without either half, and the run `store_concurrent` satisfies
both. Then HEAD is never strictly behind the remote, although concurrent
commits may drop each other from it, so that no pull resets the working tree
(`NeverReset`). No vote finds the bitmaps of a record before its commit has
written them for good (`WrittenFirst`). Bitmaps are written with
`BitmapService.mu` held (`Locked`), and a file is empty only in the middle of a
write, or after a vote that was cut off in it (`EmptiedIsWritten`). A vote that
was answered is in the file unless that is empty, and whoever is to write the
file has it in memory (`Voted`); so no write takes a vote back (`OnDisk`).

`FormatProofs`, from no assumption about constants. `MessagesAreRead`: a
message that WeChat packs is read as it was, by the app it is for, if its
length is positive and its first byte is not taken for XML. `TokensAreParsed`,
`IDsAreTaken`, `OwnRecordIsFound`: the token and the prefix of a record are
taken apart where they were joined, also when the token contains a dash, and
the search by an id without a pattern finds the record and no other. The lemmas
about sequences put together (`IsConcat`, `IsJoined`, `IsFrame`) say where each
element comes from.

Every invariant, action property and refinement of the passing runs is stated
by a theorem. Only model-checked: the two liveness properties, `CallReturns` and
`EveryVoteEnds`, and that no run deadlocks, because liveness under fairness and
ENABLED are outside the prover's reach. About several requests at a time,
`TypeCorrect` and `AnsweredStaysOnDisk` are all that is claimed of
`RecordStore`; `store_lost` is a counterexample to `SuccessIsPushed`.

## What is not modelled

* bcrypt, random numbers and snowflake ids: a delete presents the right token,
  identifiers are fresh.
* AES, XML and signatures of WeChat messages; the cryptography of licenses: a
  request is one that decrypts, or is refused before anything is looked up.
* Patterns in the id of a delete: `filepath.Glob` would expand them; the ids the
  service gives out have none.
* A disk that fails during the first steps of a clone, before `CreateRemote`.
* `IsFileLocked`, `IsLocked`, `CommitBitmap`, `CommitFile`: never called.
* The listing and sorting of `/query`, request validation, JSON, logging: they
  change no state.
* A restart of Redis that forgets the last second (`redis.conf:25`,
  `appendfsync everysec`): a use that was answered may then be free again, and
  nothing in the service could notice.
* `os.ExpandEnv` on the configuration, start-up, routes and deployment: text,
  or executed once before anything else.
* The percentage of `GetStats`, a float that is truncated: TLA+ has no floats.

## Plan

Done, in this order: `VerifyCode` and its proofs; `RecordStore`; `VoteBitmap`
and its proofs; `VoteLock`; `VoteTally` and `RecordRegistry` with the
refinements; `RepositoryClone` and its proofs; license codes and access token
with their proofs; the formats of messages and tokens with their proofs; the
proofs of `VoteLock` and, one request at a time, of `RecordStore` with its
refinement; the proofs of the statistics of votes and of `ImplementsTally`;
`TokenOutlivesFiles` after handlers were cut off, and `AnsweredIsOnDisk` with any
number of requests at a time.

Next:

1. A Redis that restarts with the state of a second ago, as an action of
   `VerifyCode` that bounds the uses given away.
2. What concurrent requests leave of HEAD and the remote once two handlers
   have read the same HEAD: which weaker promise survives, and whether it can
   be proved like `AnsweredIsOnDisk`.

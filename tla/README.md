# mucs in TLA+

`mucs` is a small self-hosted service that separates songs into stems.  A
browser console uploads a track; the server stores it in an S3 bucket, queues a
row in SQLite, and one background worker runs `demucs` on it and pushes the
stems back to the bucket.  This directory holds TLA+ models of that program, the
TLC configurations that check them on small instances, and theorems about them
that TLAPS checks for every value of the constants.

    tlc -workers 2 -config two_jobs.cfg MCService.tla    # any row of the table of runs
    tlapm ServiceProofs.tla                              # the proofs; every other ...Proofs and Induction likewise

Paths such as `db.rs:176` are under `src/src/` unless they say otherwise.

## 1. Inventory

| part | state it keeps | operations |
|---|---|---|
| **Job store** `db.rs` | the `jobs` table (WAL SQLite, several connections) | `insert`, `claim_next`, `set_progress`, `mark_done`, `mark_failed`, `requeue_orphans`, `set_filename`/`set_favorite`, `delete`, `list`, `get`, `queue_depth` |
| **Worker** `worker.rs` | program counter, job in hand, scratch directory of each job | `run` (claim, process, verdict, cleanup, wait), `process`, `run_demucs`, `pump_progress`, `collect_audio` |
| **demucs** (external) | a child process and its output files | writes stems, prints percentages, exits or hangs |
| **HTTP handlers** `api.rs` | one task per request | `create_job`, `patch_job`, `delete_job`, `list_jobs`, `get_job`, `download_stem`, `healthz`, client configuration |
| **Object storage** `storage.rs` | the bucket, `jobs/{id}/input...`, `jobs/{id}/output/...` | `put_file`, `get_to_file`, `delete_prefix`, `get_stream`, `presign_get` |
| **Boot and shutdown** `main.rs` | none | migrate, ensure the bucket, requeue orphans, spawn the worker, serve |
| **Audio format** `crypto.rs`, `web/src/lib/audio-crypto.ts` | reader/writer position, chunk index, one chunk of lookahead | `encrypt_file`/`encryptFile`, `decrypt_file`/`decryptBytes`, `is_encrypted`/`isSealed` |
| **Console page** `+page.svelte` | list, page, filter, timers, audio key, upload | refresh, upload, star, rename, delete, poll |
| **Stem player** `stem-player.svelte.ts` | audio graph, sources, clock | load, play, pause, seek, mute, solo |
| **Names** | none | `sanitize`, `clean_display_name`, `content_disposition` |
| **Configuration, errors, embedded assets, translations, lazynton layer** | none that changes | -- |

How they interact.  Handlers and worker never talk directly: they share the
table, the bucket and one tokio `Notify`.  `create_job` stores the input, inserts
the row and calls `notify_one`; the worker claims the oldest queued row with one
`UPDATE ... RETURNING`, and waits on the `Notify` or a five-second timer when
there is none.  The worker spawns the demucs child and a task that pumps the
child's stderr into the row's `progress` column; that task is *not* tied to the
life of the attempt.  `delete_job` removes the row, then sweeps the bucket prefix.
After a crash `main` puts every `running` row back in line before it serves.

What is hard here, and where the properties are aimed: handlers interleave with
the worker at every await; axum drops a handler when its client hangs up; a
crash can come between any two writes to three stores that share no
transaction; a pump can outlive its job; the scratch directory survives a crash;
and the queue's order is that of texts.  `PROJECT.json` lists each hazard at its
line with the properties that would catch it going wrong.

What makes each part correct:

* store: columns of a row agree with its status; the oldest queued job is
  claimed; no running row is deleted; renames survive everything else.
* worker: it holds a running row until its verdict; only complete stems are
  published; every attempt ends; every queued job gets its attempt.
* handlers: a row never names a missing input; no acknowledged upload waits for
  the timer; what a delete has removed does not come back.
* audio format: what one side seals both sides open to the same bytes, and an
  altered stream of frames never opens to anything else.
* an upload: row, object, key and title are of one file of the form; the answer
  says what the stores hold; names stay usable as keys, paths and headers.
* stderr: reports do not depend on how the pipe is cut; a message keeps its end and
  never costs the worker its task.
* a download: nothing that was cut short is served, and nothing is missing that no
  delete took.
* console: the poll puts right whatever late answers, failed writes and other clients
  did to the list; an edit is sent once; a search is literal.
* player and audio key: what is heard is of the job that is open and, unless a stale load
  has replaced the tracks, as loud as it is shown; a track ends; no asking for the key
  ends in silence, and a key that has come stays.

## 2. Modules

```
Timestamps -> JobStore -> Service -> ServiceProperties -> ServiceInvariant -> MCService
                 |                    |          |                 |
                 |                    |   JobLifecycle (INSTANCE)  |
                 |                    \-> Download -> MCDownload    |
                 |                           \--------------------- + -> ServiceProofs
                 |-> JobStoreProofs ------------------------------/
                 |        \-------------------------\
                 \-> JobList -> Console -> ConsoleProperties -> MCConsole
                                                    \-> ConsoleProofs
AudioFormat -> AudioProperties -> MCAudio
                      \-> AudioProofs
Names -> Intake -> IntakeProperties -> MCIntake
                           \-> IntakeProofs
Progress -> ProgressProperties -> MCProgress
                      \-> ProgressProofs
StemPlayer -> ConsoleAudio -> MCPlayer
                    \-> PlayerProofs
Induction -> IntakeProofs, ConsoleProofs, ProgressProofs
```

| module | what it is |
|---|---|
| `Timestamps` | `now()` and `ORDER BY created_at`: the RFC 3339 text of an instant without trailing zeros, and SQLite's byte order on texts (`db.rs:53`) |
| `JobStore` | the `jobs` table, one operator per SQL statement; SQLite makes each statement atomic |
| `Service` | worker, child, pump, handlers, bucket, scratch directory, `Notify`, crash and boot, composed over the store |
| `ServiceProperties` | what must hold of the service |
| `JobLifecycle` | the abstract specification: what a user is promised of a job |
| `ServiceInvariant` | the inductive invariant |
| `JobStoreProofs` | what each statement does to the table, for `ServiceProofs` and `ConsoleProofs` |
| `ServiceProofs` | the theorems about the service, its refinement of `JobLifecycle` and `Download` |
| `Download` | `download_stem` composed with the whole of `Service` |
| `AudioFormat` | the life of one audio object: sealed by the worker or the console, damaged in storage or transfer, opened by the worker, the stem player or the console's download |
| `AudioProperties`, `AudioProofs` | what must hold of it, its invariant, and the proofs |
| `Names` | `sanitize`, `clean_display_name`, `content_disposition` on classes of characters |
| `Intake`, `IntakeProperties`, `IntakeProofs` | one `create_job` from the first byte to the answer, and the worker's way back to the file |
| `Progress`, `ProgressProperties`, `ProgressProofs` | `pump_progress`, `tail` and the slice of `mark_failed`, on bytes and characters |
| `JobList` | the search of `db.rs`: `LIKE` with its escapes, the orders, page and total |
| `Console`, `ConsoleProperties`, `ConsoleProofs` | the console's job list over `JobList` and the statements of `JobStore` |
| `StemPlayer` | the player, over as many AudioContexts as it was opened |
| `ConsoleAudio` | the audio key of the page, uploads and the player that read it, and the properties of both |
| `PlayerProofs` | the invariant of the player and the key, and the proofs |
| `Induction` | induction over numbers, the prefixes of a sequence and finite sets, in a form the provers can use |
| `MC...` | the instances TLC checks |

`Service` and `AudioFormat` are not composed: in `Service` the content of an object
is none, partial or whole, and a failure to seal or open is one of the causes
of `ProcessFails`.  `Intake` opens up what `Service` has as one step, `Receive`, and goes
on to the insert; `Progress` opens up `PumpReport`.  `Console` takes the statements of
`JobStore` for what the service does to a row, in any order (`Others`), and so
needs neither the worker nor the bucket.

### How `Service` corresponds to the code

A step is the code between two awaits.  `wpc` is the worker's place in `run` and
`process`:

| `wpc` | code | leaves by |
|---|---|---|
| `claim` | `worker.rs:29`, awaiting `claim_next` | `Claim(j)`, `ClaimNone`, `ClaimErr` |
| `empty`, `idle` | before and inside the `select!` of `worker.rs:58` | `StartWaiting`; `Wake`, `PollTimer` |
| `backoff` | the sleep of `worker.rs:66` | `BackoffOver` |
| `fetch` | the directories, the download, the decryption or rename (`worker.rs:73-106`) | `Fetch`, `ProcessFails` |
| `spawn` | `worker.rs:167-226` | `Spawn`, `ProcessFails` |
| `wait` | `child.wait()` under the timeout (`worker.rs:228`) | `WaitReturns`, `Timeout` |
| `drain` | awaiting the pump, then the status (`worker.rs:244-253`) | `Drained` |
| `collect`, `upload` | walking the output and pushing it (`worker.rs:112-161`) | `Collect`, `UploadStem(s)`, `MarkDone`, `MarkDoneFails`, `ProcessFails` |
| `failing` | `mark_failed` (`worker.rs:42-46`) | `MarkFailed`, `MarkFailedFails` |
| `clean` | `remove_dir_all` (`worker.rs:51`), whose error is ignored | `Clean` |
| `down` | the process is not running | `Boot` |

`demucs`, `unwritten` and `scratch` are the child and its files: it opens a file,
finishes it, and exits; a `Silent` job is one demucs "succeeds" on without
writing anything (the case `worker.rs:113` guards against).  `pumps` is the set of
jobs with a live `pump_progress`.  `upload[j]`, `removal[j]` and `sweep[j]` are
the program counters of `create_job` and `delete_job` for each id.  An
id is drawn fresh for each upload (UUID), so one upload per id is all there can
be.  `permit` is what a tokio `Notify` stores; since there is one waiter, a
notification and a stored permit are the same bit.

`UploadEnds` and `RemovalAborts` cover an error answered by a store and the
handler being dropped at an await.  `Crash` may come between any two steps; it
forgets everything but the table, the bucket and the scratch directory.

### How the other modules correspond to the code

`Download`.  A client's `transfer` reads the row (`api.rs:363-386`), then either opens
the object through the service or is sent to the bucket with a presigned URL, which
it follows whenever it likes, also with the service down.  Between the two the worker, a
delete, a crash and another attempt go on as `Service` has them.

`Intake`.  A file arrives in pieces of the sizes in `Part`; a field costs `FieldCost`
besides, and everything counts against the limit on the body (`main.rs:78`), which is the
same number as the handler's own.  `dir` is the directory `upload-{id}`, by file name, so
that a second field of the same name truncates the first.  `at` follows the awaits of
`create_job`; errors are its early returns, and `Dropped` is the handler being gone at one
of them.  `FetchInput` is `worker.rs:83-106`: the object is fetched as `object.bin` and
opened into, or renamed to, `sanitize` of the key's last segment, as its marker and the worker's
own key say; `localIn` is whether the object was sealed, whether the worker has the key, and
what demucs is then given.  A name is a sequence of classes of
characters; letters and digits come in runs, as no definition looks inside one.

`Progress`.  A `Read` takes any piece of the output still to come; `lead` and `cont` are
the halves of one character outside ASCII, so a piece may end inside it and
`from_utf8_lossy` then makes two replacement characters of it.  Lengths are in bytes, a
replacement character being three.

`Console`.  A refresh is a search (page, then total: two statements) and a health request at
once; the page takes both answers in one step.  The effect that polls depends on the
filters, as its first refresh reads them before it awaits anything (`+page.svelte:106-126`):
`SetFilters` stops the loop, starts another, which searches at once, and sets the
debounce timer, which searches again 200 ms later.  `loop` is the number of the loop that
runs; a slot `0..MaxMoves` of `requests` holds the refresh of that loop, which is answered even
after the loop has been stopped, and the slot `Extra` any other (after a write, or of the
timer), so that all of them overtake each other.  Writes go out, reach the service, and are
answered, in three steps; a request may fail before or after the service saw it.  An
edit ends by Enter or Escape (blur, which saves, then a second save) or by a click
elsewhere.

`StemPlayer`.  An opening has a number, which is also its AudioContext.  `tracks` is the
opening they were decoded in: `play` throws when that is not the current context
(a stale load of the same job), after it has stopped the old sources.  Every opening's tracks
have GainNodes of their own (`gain`): sources that play stay connected to those they
were started with (`stem-player.svelte.ts:102`), while `setMuted` and `setVolume` act on those
of the tracks that are shown.
Time is in ticks of the scrubber; `elapsed` starts at -1, for the 60 ms `play` waits.
`Tick` is the interval, `TimePasses` the clock of the context.  In `ConsoleAudio` the
key is asked for when the page is opened and with every change of the filters, by the
same effect (`FiltersChange`); each asking is repeated twice when it fails, beside
the others (`MaxAskings` of them at one time), and ends with the key, with null, with a key
refused for its chunk size, or with a notice (`told`).  Openings and uploads read the key
as it is at that moment.

### The abstract specification

`JobLifecycle` has six phases per job (new, queued, running, done, failed,
deleted), the job in hand and the stems that can be fetched.  A verdict publishes
all stems or none, a job is never removed while it runs, one job runs at a time,
a verdict is final, and a lost attempt goes back in line.  The mapping
(`Lifecycle` in `ServiceProperties`) reads the phase off the row, `deleted` being
the absence of a row whose insert did happen, and counts a stem as published when
a row names it *and* the bucket holds it whole.  The run `one_job` checks that
every step of `Service` is a step of it or a stutter.

## 3. Runs

| run | bounds | what it shows |
|---|---|---|
| `two_jobs` | 2 jobs (one silent), 1 stem, 1 percentage, 2 instants | `IInv`, `WorkerOwnsRunning`, `RowsConsistent`, `NoLostWakeup`, `ClaimsOldest` with two jobs interleaving on one worker |
| `one_job` | 1 job, 2 stems, 2 names, both stars, 3 percentages, one download; fair | `RowHasInput`, `DoneIsComplete`, `ServesWholeStems`, `NothingComesBack`, `PatchKept`, that the service implements `JobLifecycle`, and `EveryJobSettles`, `QueuedIsClaimed` |
| `audio_format` | files of 0 to 7 bytes, chunk 2, 2 damages, 3 readers, 2 keys and none | `AudioInvariant`, `NeverOtherAudio`, `IntactOpens`, `WritersAgree`, `ClearPassesWhereAsked` |
| `intake` | 2 fields, pieces of 1 and 2, limit 4, all names of up to 2 symbols of 8 classes or 3 of 4 | `RowKeepsItsFile`, `AnswerTellsTheTruth`, `ScratchIsCleared`, `BodyLimitComesFirst`, `NamesAreUsable`, `HeaderCarriesTitle`, `WhatDemucsIsGiven` |
| `progress` | every output of up to 6 bytes, in every way to cut it | `ReportsIgnoreThePieces`, `NeverPanics`, `MessageHasTheBottom` |
| `console` | 2 jobs on pages of 1, 2 moves, stars and pages for filters; fair | `PollCorrects`, `EditSendsOnce`, `SearchIsLiteral` |
| `player` | 2 jobs, 2 stems, 2 openings, 3 clicks, a track of 2 ticks, 1 asking at a time; fair | `HeardAsShown`, `PlayerIsOfItsJob`, `PlaybackEnds`, `KeyOrNotice`, `KeyIsKept` |
| `claim_order_text` | 2 jobs, instants 0.10 s and 0.11 s | `ClaimsOldest` is **violated**, see below |
| `delete_sweep` | 1 job | `DeletedMeansGone` is **violated** |
| `empty_page` | as `console` | `EmptyMeansNoJobs` is **violated** |
| `stale_error` | as `player` | `ErrorIsOfItsJob` is **violated** |
| `stale_mixer` | as `player` | `MutedIsSilent` is **violated** |

Each of the passing runs checks the type invariant of its module besides
(`TypeOK` is a conjunct of `IInv`).

Why the bounds are enough.

*Service.*  Two jobs are what the interesting races need: one in
the worker's hands (or in a surviving pump), one being uploaded, deleted or
waiting; a third only repeats the second.  One of the two is `Silent`, so that both
kinds of exit meet.  Two stems are what an attempt
cut short between stems needs.  One percentage other than 0 and 100 tells a late
report from the values the statements write; `one_job` has all three.  A crash
may come any number of times, so attempts are repeated without limit although
the state space is finite: nothing counts them.  `Base = 10` and `Width = 2`
stand for the nine digits of a fraction; two digits already have a fraction that
is a prefix of another.  One client is enough for `Download`, as its steps change
nothing of the service.

*Audio.*  The bytes of a file in `MCAudio` are all different, so that no piece can pass
for another; seven bytes in chunks of two give up to four frames, with the last
one full or not, and two damages reach a cut in the middle of a frame, an
exchange followed by a loss, and the like.

*Intake.*  Two fields are two files of the same or of another name, or a file and a text on
either side of it (`MaxFields`); a limit of 4 is reached by the file, by the rest of the
form, and passed by one unit (`MaxUpload`, `Part`, `FieldCost`).  Names of three symbols
have a first, a last and a middle; `MaxTitle = 2` stands for 200, and names cross it.

*Progress.*  Six bytes (`MaxOutput`) hold a number of three digits with its sign and end of
line, or two lines with a percentage each, or a character outside ASCII at every offset; the
limits on the text kept (`FullMax`, `FullKeep`, `TailKeep`, `ErrorMax`) are below that, in
the order the code has them, so that the cuts of the text and of the message's tail happen at
every offset.  The third cut, that of `mark_failed`, happens in no run: `Preamble + TailKeep`
is at most `ErrorMax`, as 1500 bytes and what comes before them are less than 4000 in the
code, and that it therefore does not happen is what `NeverPanics` says.

*Console.*  Pages of one row make a second page of the second job (`PageSize`).  Two moves
(`MaxMoves`) are a click and a change by somebody else, or a failed request after a
click, or two changes of the filters, which leave two stopped loops with a refresh each under
way; refreshes are not counted, so overtaking is unlimited.  Filters differ in the star and in
the offset; there is one order and no term, as a term only chooses other rows: what
terms find is `SearchIsLiteral`, which goes over all of up to three characters by
itself.  The names are made of
the three characters `LIKE` treats specially and two cases of a letter.

*Player.*  Two openings (`MaxLoads`) overtake each other, on the same job or on two; three
clicks (`MaxClicks`) are play, pause or seek, and play again, or play, mute, and a click after a
stale load.  Askings for the key follow each other without limit, but one at a time
(`MaxAskings = 1`); those that overlap are left to the theorems, which hold for any
number of them.

Deadlock is checked in every run of the service and of the console, which always have a
step; it is not where what is modelled ends or runs into its bounds: the life of an audio object,
one upload, one output, the openings of the player.

### Fairness

`FairSpec` adds weak fairness of the worker (the tokio runtime polls a ready task,
timers fire, and calls to S3, the disk and SQLite eventually return), strong
fairness of the claim (a table that refuses it now and then -- `ClaimErr` -- does
not refuse it for ever, `worker.rs:64` tries again every five seconds), and weak
fairness of each pump's end of file once the child is gone.  Nothing is assumed
of demucs (it may hang: the timeout is part of the worker), of clients, of
crashes or of restarts; the liveness properties speak of a process that at some
point stays up.  `EveryJobSettles` excludes the one stranding the code has: a
verdict the table refuses is only logged (`worker.rs:36`, `:45`) and its row says
`running` until the next boot.

`ConsoleFairness` is weak fairness of the poll: its timer fires, and as long as its
requests do not fail they are answered.  Failures are moves, so there are finitely many
of them in a behaviour; nothing is assumed of other refreshes, of writes, of the
user or of other clients.  `PlayerFairness` is weak fairness of the interval and of the
AudioContext's clock; nothing is assumed of fetches, of the audio key or of the user.

### Where the code disagrees with its documentation

* `claim_order_text`: "Atomically take the oldest queued job" (`db.rs:176`).  The
  order is that of `created_at` as text, and the formatter drops trailing zeros:
  `...10.1Z` sorts after `...10.11Z`, because `1` is smaller than `Z`.  The newer
  job is claimed first when the older one's trimmed fraction is a proper prefix of the
  newer one's.
* `delete_sweep`: the README says of `DELETE /api/jobs/{id}` that it "Removes the
  row and every object under `jobs/{id}/`" (`src/README.md:198`).  `delete_prefix`
  throws away the result of each `delete_object` (`storage.rs:197`), and the row
  is gone first, so the delete is acknowledged with objects left that a second
  delete cannot reach.
* `empty_page`: the console never brings `offset` back into range, and draws the pager only
  beside a list that has rows (`+page.svelte:487`, `:725`).  When the rows of the shown
  page are deleted, here or by somebody else, every refresh answers an empty page, and
  the console says "No jobs yet -- upload your first track"
  (`web/src/lib/i18n.svelte.ts:118`) until a filter is touched, which sets the offset to 0.
* `stale_error`: "A different job's player may have been opened while this was loading"
  (`stem-player.svelte.ts:77`).  Success asks for that; the `catch` (`:83`) does not, and
  writes its error and the end of `loading` into the other job's player, where success
  does not take the error away again.
* `stale_mixer`: success asks for the job and not for the opening
  (`stem-player.svelte.ts:78`).  When a job's player is closed and opened again and the
  first fetch comes in while the second opening plays, its tracks replace those whose GainNodes
  the sources go through (`:80`, `:102`): a stem muted before stays silent and is shown at
  full volume, and "mute this stem" (`web/src/lib/i18n.svelte.ts:144`) mutes one that
  nobody hears.  `HeardAsShown` excepts exactly this case.

Smaller things the models show that no run is spent on:

* "The audio plus 45 bytes per chunk" (`crypto.rs:9`, `src/README.md:221`) leaves
  out the eight bytes of the index: `AudioFormat` has 53 a chunk, and the 8 of the magic once.
* A sealed upload called `object.bin` is opened into the very file it is read from
  (`worker.rs:89`, `:100`) and the job fails; a worker without the key gives demucs the
  sealed bytes of any upload (`:105`).  `WhatDemucsIsGiven` says that demucs is given the
  client's audio in every case but these two, and what it is given in each; the name is
  that one between any blanks and dots (the key's last segment is sanitized once more).
* Damage to the eight bytes of the magic makes a sealed object look like one in the clear, to
  the worker and to the player, which then take its bytes for audio; only frames are
  authenticated.  That is why no property says that a reader with the key never takes
  ciphertext: `NeverOtherAudio` speaks of what a reader has opened.
* The console's download (`+page.svelte:237`) hands whatever arrives to `decryptBytes` without
  asking for the marker, so with a key it refuses stems from before the key was set, which
  `web/src/lib/audio-crypto.ts:44` and `src/README.md:234` promise to let through;
  `ClearPassesWhereAsked` is about the other two readers.
* An upload neither waits for the key nor says that there is none yet (`+page.svelte:174`): a
  file dropped while the first asking is under way, or between its attempts, goes out in
  the clear to a service that has a key, and nothing is shown.  `KeyOrNotice` says that this
  window closes, with a key or a notice.
* A change of the filters sends a search at once, besides the debounced one, as the effect that
  polls depends on them too (`+page.svelte:106-126`), although "typing shouldn't fire a request
  per keystroke" (`:98`).
* The handler's limit on the file can never be the one that answers, as the body's is the
  same number and counts more (`BodyLimitComesFirst`): an upload that is too large ends
  as a broken body, and leaves `upload-{id}` behind (`ScratchIsCleared` names the outcomes
  that may).
* A pause in the first 60 ms leaves `position` below zero, and the next play throws
  until the scrubber is moved (`PlayerIsOfItsJob`); so does a play on the tracks of a stale load
  of the same job.

## 4. Proofs

`ServiceProofs` proves, from the named assumptions on the constants
(`TimestampsAssumption`, `TicksAssumption`, `StoreAssumption`, `ServiceAssumption`) and
nothing else (`TicksAssumption` says that `Base^Width` is positive, which follows from the
one before it, but the provers know nothing of powers):

| theorem | statement |
|---|---|
| `TypeCorrect` | `Spec => []TypeOK` |
| `Invariance` | `Spec => []IInv` |
| `WorkerOwnsItsJob` | `Spec => []WorkerOwnsRunning` |
| `InputsArePresent` | `Spec => []RowHasInput` |
| `DoneJobsAreComplete` | `Spec => []DoneIsComplete` |
| `RowsStayConsistent` | `Spec => []RowsConsistent` |
| `WakeupsAreNotLost` | `Spec => []NoLostWakeup` |
| `DeletedStaysDeleted` | `Spec => NothingComesBack` |
| `ServiceImplementsLifecycle` | `Spec => ImplementsLifecycle` |
| `PatchesAreKept` | `Spec => PatchKept` |
| `OldestIsClaimed` | `(\A a, b \in Instants : InOrder(a, b)) => (Spec => ClaimsOldest)` |
| `OldestIsClaimedInSeconds` | `(\A t \in Instants : t % TicksPerSecond = 0) => (Spec => ClaimsOldest)` |
| `DownloadsAreWhole` | `DownloadSpec => []ServesWholeStems` |

The argument is one inductive invariant, `IInv` (module `ServiceInvariant`; TLC
checks it in `two_jobs`).  None of the properties is inductive alone:

* `RowHasInput` needs `RequestsInOrder`: a row comes only from an insert, an
  insert only after a put that succeeded, and a sweep only after the row is gone,
  for good since an id is inserted once.  `NothingComesBack` rests on the same.
* `WorkerOwnsRunning` needs `WorkerHolds` and that `delete` refuses a running row;
  and that a boot, which requeues running rows, happens only with the worker gone.
* `RowsConsistent` needs `PumpsHarmless`: a pump that outlives its attempt does so
  only on the failure path, so the row it writes to is running or failed, where
  any percentage is consistent, and never queued or done.  On the success path
  the worker has awaited it (`worker.rs:244`).
* `DoneIsComplete` needs `ScratchInPlace`: an exit status of 0 means nothing is
  left unwritten, so whatever an earlier attempt left half-written has been
  written again before anything is collected; and `ChildInPlace` ties the status
  to the attempt it is read in.

Each action has a step of its own in the proof that `IInv` is preserved.
`NoLostWakeup` is a second, smaller induction on top of `TypeOK`.  The other theorems rest
on `IInv`:

* The refinement goes action by action through the mapping.  It needs one thing
  more, `AbsentRows`: a row that is not there names no stems, so the phases `new` and
  `deleted` show none.  A sweep, or an upload of the worker, that touched an object of a
  job shown as `done` would be a step the life cycle does not have; that there is none is
  `RequestsInOrder` and `WorkerOwnsRunning`.
* `PatchKept` is one lemma per statement of the store (`JobStoreProofs`): what it leaves
  of the two columns of the user, and of every other row.
* `ClaimsOldest` is false in general, which is the finding of `claim_order_text`.  Proved is
  that the text of the instant is its only cause: it holds when the texts of the
  instants sort as the instants do, and they do when the clock reads whole seconds.
* `ServesWholeStems`: `OfferStands` says that what a client was promised, by a row or by a
  URL it has yet to follow, is whole in the bucket or was deleted since.

`AudioProofs` proves, from `AudioFormatAssumption`:

| theorem | statement |
|---|---|
| `AudioInvariance` | `Spec => []AudioInvariant` |
| `OtherAudioIsNeverOpened` | `Spec => []NeverOtherAudio` |
| `ClearObjectsPass` | `Spec => []ClearPassesWhereAsked` |
| `IntactInvariance` | `Spec => []Intact` |
| `IntactObjectsOpen` | `Spec => []IntactOpens` |
| `WritersWriteTheSame` | `Spec => []WritersAgree` |

The argument: a frame is `Sound` when its index, its last flag and its audio
agree about the file, which does not depend on where the frame stands.
Sealing produces sound frames only (`WorkerSeals` describes the chunk held back
and the one being read as consecutive parts of the file; `TotalCovers` relates
the console's division to the file's end), damage moves or spoils frames but makes
none, and a reader that asks each frame for its own index therefore appends the
next chunk of the file and nothing else (`ReaderInPlace`, `ChunksAdd`).  That what
nothing happened to does open is a second invariant, `Intact`: the frames are where they were
sealed, there are as many as the division of the file says, and the reader, having
as many behind it as its index, has the rest before it; so it meets no refusal on the way and the
last flag only at the end.

`PlayerProofs` proves, from `PlayerAssumption` and `AudioAssumption`:

| theorem | statement |
|---|---|
| `AudioTypes` | `AudioSpec => []AudioTypeOK` |
| `SoundIsAsShown` | `AudioSpec => []HeardAsShown` |
| `PlayerStaysOnItsJob` | `AudioSpec => []PlayerIsOfItsJob` |
| `NoAskingEndsInSilence` | `AudioSpec => []KeyOrNotice` |
| `TheKeyStays` | `AudioSpec => KeyIsKept` |

The argument: `HeardAsShown` is not inductive, as `load` takes a stale opening of the same
job for its own and puts its tracks in place.  What plays was decoded in the current
context, and that opening has settled (`PlayingInPlace`, `SoundInPlace`), so an opening still to
settle is another one: after its tracks have come, `tracks` and `sources` differ and the
property has nothing to say of the volumes until the player is opened anew.  Nobody has
touched the GainNodes of an opening that has yet to settle (`MixerInPlace`), so tracks that do
come are shown as they sound.  `TracksInPlace` ties tracks, job and duration, and says that a
closed player stands at zero.  `KeyInPlace` is what the askings that are over have left: a key, or
a notice; and that a key is there only in a service that gives one, so that every later
answer gives it again, which is all that `KeyIsKept` needs.

`IntakeProofs` proves, from `IntakeAssumption` and `NamesAssumption`:

| theorem | statement |
|---|---|
| `IntakeInvariance` | `Spec => []IntakeInv` |
| `IntakeTypes` | `Spec => []IntakeTypeOK` |
| `RowsKeepTheirFile` | `Spec => []RowKeepsItsFile` |
| `AnswersAreTrue` | `Spec => []AnswerTellsTheTruth` |
| `ScratchIsGone` | `Spec => []ScratchIsCleared` |
| `FileLimitNeverAnswers` | `Spec => []BodyLimitComesFirst` |
| `EveryNameIsUsable` | `Spec => []NamesAreUsable` |
| `AudioMissesDemucsTwice` | `Spec => []WhatDemucsIsGiven` |
| `HeadersCarryTitles` | `Spec => []HeaderCarriesTitle` |

The argument for the upload: `filename` and `display` are locals that outlive the field they
came from, and the directory goes by name, so the invariant says at every await which
field they are of (`FileBeingRead`, `FileRead`, `FileStored`) and that the file of that name
has that field's content, which a later field of the same name changes together with the
locals.  `Limits` is why the handler's own limit never answers: what is written is part of
what the body has counted.  The theorems about names hold for names of any length: what
`trim_matches` leaves is a piece of the name with no blank or dot at its ends (`CutFrom`), whatever
it is applied to, so sanitizing a second time, as the worker does, can take away no more
than that; and decoding an encoded title is an induction over its symbols.

`ConsoleProofs` proves, from `ConsoleAssumption`, `JobListAssumption` and `StoreAssumption`:

| theorem | statement |
|---|---|
| `ConsoleInvariance` | `ConsoleSpec => []ConsoleInv` |
| `ConsoleTypes` | `ConsoleSpec => []ConsoleTypeOK` |
| `EditsSendOnce` | `ConsoleSpec => []EditSendsOnce` |
| `TermsAreLiteral` | for every name and term, of any length, the escaped pattern matches the names that contain the term |
| `SearchesAreLiteral` | `ConsoleSpec => []SearchIsLiteral` |

`EditSendsOnce` needs that an edit still open has sent nothing (`EditOK`): the first
of Enter, blur, Escape and a refresh closes it, and whatever comes second finds it closed.
`TermsAreLiteral` is an induction over the pattern: `EndsOf` is the set of places in the
name where a match of the pattern read so far can end; after the first `%` that is every
place, after the escaped term the ends of its occurrences, and after the second `%` the end
of the name if there was one.  It cannot fail on `%`, `_` and the backslash, nor on a
term that ends in one, because escaping makes every symbol of the term stand for itself
(`Escapes`).  That ids are finitely many is part of `ConsoleAssumption`, as the total is a
cardinality.

`ProgressProofs` proves, from `ProgressAssumption`:

| theorem | statement |
|---|---|
| `ProgressInvariance` | `Spec => []ProgressInv` |
| `ProgressTypes` | `Spec => []ProgressTypeOK` |
| `PiecesDoNotMatter` | `Spec => []ReportsIgnoreThePieces` |
| `FailuresDoNotPanic` | `Spec => []NeverPanics` |
| `TheBottomIsKept` | `Spec => []MessageHasTheBottom` |

`ProgressInv` has three parts.  `KeptInv`: the text kept is an end of all the text and has at least
its last `FullKeep` bytes, which cutting it in the middle of a character would not leave
true, and `char_indices` does not.  `ShownInv`: the bytes and the text made of them
differ, since a character cut by the pipe becomes two, so the reports cannot be compared with
the output symbol by symbol; but both have the same lines, with the same percentages in each,
and unfinished lines that go on to agree whatever follows (`SameLines`; a replacement character
is no digit, no `%` and no end of line, and neither are the halves it stands for).  With
that, reporting piece by piece what changed is reporting it over the whole (`Seen`).
`MessageInv`: the message is what comes before the text and the text's last `TailKeep` bytes,
which fit the limit of `mark_failed`, so that its slice at a byte, the one that would panic
inside a character, is never made.

Induction over data.  The library's induction theorems take the formula as an operator, which
the provers cannot instantiate.  `Induction` states them with the formula as a
*set* of numbers that holds 0 and the successor of each of its members, and a
recursive definition as a function whose step is a function (`RecursiveFunction`), and
derives what `Min`, `Max`, `FlattenSeq` and a split sequence are.  That is how the theorems about
names, terms and outputs of any length are proved.

Only model-checked: the liveness properties `EveryJobSettles`, `QueuedIsClaimed`,
`PollCorrects` and `PlaybackEnds`, as fairness and `ENABLED` are outside what the provers
handle.  Every invariant, every action property and the refinement of the passing runs has a
theorem.

## 5. What the models assume

* The container dies as a whole: a crash takes demucs with it, and the kill at
  a timeout takes effect at once.
* demucs exits 0 only with every output written, or -- `Silent` -- with none.
  It closes its stderr when it ends; a grandchild keeping the pipe open would
  block the worker in `worker.rs:244`, outside the timeout.
* One put of an object is atomic, and the store may have applied a request that
  reports an error (`UploadStem` then `ProcessFails`; `PutInput` then
  `UploadEnds`; `SweepObject`).
* `DEMUCS_FORMAT` and a job's model stay the same across restarts, so that `Stem`
  is what every attempt at a job writes.
* Timestamps of `started_at` and `finished_at`, sizes and error texts decide nothing and
  are kept as "set" or "not set".  The upload's own scratch file is inside
  `Receive`, and opened up in `Intake`.
* The cipher of `AudioFormat` is ideal: a frame opens only under its key and
  unaltered.  Frames of other files do not get into a stream.  `Chunk` is the
  same on both sides: the console turns encryption off otherwise.
* `remove_dir_all` of an upload's directory succeeds (its result is thrown away).  The form
  library reads a body up to its limit and fails the field it is in (external).
* demucs prints percentages in ASCII digits; others match `\d` too, but `parse` refuses them.
* SQLite returns rows that the ORDER BY does not tell apart in any order, another one
  each time.
* The poll's two intervals (1.2 s and 6 s) are one timer.  A refresh after an upload is one in
  the slot `Extra` like any other.  A text field that is taken away by a refresh does not
  save.
* Every track of the player is as long as every other, and decodes in a closed context or
  fails to, either.  A notice about the audio key is told once it was shown: that the next
  upload takes it down again (`+page.svelte:169`) is left out.

## 6. Not modelled

* lazynton (the encrypted JSON layer): an external library the code only mounts.
* Reading the configuration (`config.rs`), `ensure_bucket`, embedded assets (`web.rs`) and
  translations: read once or kept as they are, no state that changes.
* `get_job` reads one row; the expiry of presigned URLs; the wording of notices, drag and
  drop, the running clock and the progress of an upload in the console.
* Five hazards without a property (`PROJECT.json` says why each): a delete whose list of objects
  fails, an aborted upload's directory that stays, a grandchild of demucs keeping its stderr open, a job that kills the process at every
  boot, and a format that changes between two attempts.

## 7. Plan

1. `Timestamps`, `JobStore`, `Service` with properties, life cycle, invariant and
   proofs.  **Done.**
2. `AudioFormat` with properties, invariant and proofs.  **Done.**
3. `Names` and `Intake`, `Progress`, `Download`, `JobList` and `Console`, `StemPlayer` and
   `ConsoleAudio`, with their properties.  **Done.**
4. The invariant of the player and the key, and its proofs.  **Done.**
5. Proofs about `Intake`, `Console`, `Progress` and `Download`.  **Done.**
6. Proofs about the service beyond its invariants: the refinement, `PatchKept`,
   `ClaimsOldest` from an assumption on the instants; `WritersAgree` and `IntactOpens`.
   **Done.**
7. The exact condition under which two texts of instants sort as the instants do (one
   trimmed fraction is not a proper prefix of the other); what is ordered about a file's
   frames for damage that keeps some of them; the five hazards of section 6 when the code
   gives them an answer that can be stated.

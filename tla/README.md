# A verification of the headset battery daemon

`headset-battery-indicator` is a Rust daemon that reads the battery of wireless
headsets and shows it to the desktop as virtual HID batteries (`/dev/uhid`).
This directory models the daemon in TLA+, checks it with TLC on small
instances, and proves the main properties of its core with TLAPS for every
value of the constants.

Paths below are relative to the repository (`src/bridge/mod.rs` is
`src/src/bridge/mod.rs` in `PROJECT.json`).

## The system

One process, one thread that matters. `main` (src/main.rs) sets the stop flag up
and calls `Bridge::run`, a loop: `tick` polls the headsets, `next_delay` chooses
when to poll again, `wait` serves the virtual batteries until then.

| component | state | operations | what makes it correct |
|---|---|---|---|
| **Bridge loop** (src/bridge/mod.rs) | the batteries, `attach_retry_at`, `abandoned`, `probe_failing`, the summaries | `tick`, `apply`, `attach`, `outcome`, `expire`, `wait`, `shutdown`, `announce` | an entry appears when its headset answers and goes for a cause, in bounded time; failures are retried at a pace; every exit withdraws every entry |
| **Policy** (src/bridge/policy.rs) | none: pure functions | `next_delay`, `note`, `withdrawal`, `second_opinion`, `vet` | a level is believed only if it is plausible or confirmed by a second reading; each grace gets its say |
| **Device pool** (`DevicePool`, `Uhid`) | the spare `/dev/uhid` handles | `acquire`, `put_back`, `release` | an inherited handle, which cannot be opened again, is never lost |
| **Virtual batteries** (src/bridge/batteries.rs) | two vectors, devices and bookkeeping | `push`, `remove`, `drain`, `position` | both vectors stay in step |
| **Source** (src/source.rs) | the native reader, HeadsetControl, which answered last | `probe` | native first; HeadsetControl when it has nothing; a dongle that is coming back is waited for |
| **Maxwell reader** (src/maxwell/mod.rs, discover.rs) | a session per dongle, the last links | `poll`, `reconcile`, `read_once`, `listen_to` | a session per plugged dongle, replaced as the node changes |
| **Session** (src/maxwell/session.rs) | link, level, what was asked and when | `listen`, `take_in`, `should_ask`, `ask`, `battery` | asks seldom, never twice without need, and notices a headset that no longer answers |
| **Wedge watch** (src/maxwell/wedge.rs) | since when all is silent, when last told, the last look at the sound card | `heard`, `check` | a dongle that streams sound but stopped talking is told of, then once a day |
| **Frames** (src/maxwell/frame.rs) | none | `messages`, `fetch` | every well-formed message is found, any bytes are survived |
| **HeadsetControl** (src/headsetcontrol.rs) | a child process and a draining thread | `run`, `drain`, `parse` | ends by its timeout or when asked to stop |
| **Headset** (src/headset.rs) | a value | `key`, `uniq`, `display_name` | names formatted to what the kernel accepts |
| **Notifier** (src/notify.rs) | sockets | `ready`, `watchdog`, `stopping` | pings at least once per `WatchdogSec` |
| **Command line** (src/main.rs) | the configuration | options, logging | durations in range (`--interval` at least 1) |

They interact by calls: the bridge polls the source, which polls the reader and
then HeadsetControl; the bridge pushes levels into virtual devices and serves
the kernel's requests through `serve_all`; the kernel, the headsets, the service
manager and the signal handler act at any moment. The behaviours that are hard
to test are time and failure: many clocks per entry that start on different
polls, retries and strikes that outlive the poll that caused them, two dongles
that share an entry, readings that repeat because they are cached, handles that
must survive every error path, and a stop flag that may rise anywhere.
`PROJECT.json` lists these hazards line by line, each with the properties that
would catch it.

## The modules

| module | models |
|---|---|
| `Policy` | src/bridge/policy.rs: operators, and the constants every decision depends on |
| `DevicePool` | the pool of handles, counted |
| `Bridge` | the loop: one action per arm of `apply`, per outcome of `attach` and of a push, the end of `tick`, the wait, failures of service, the stop flag, the end and the restart of the process |
| `BridgeHistory` | `Bridge` with history variables: the last failure of a key, since when its dongle says it is gone, failures in a row; adds successful servicing, which the code takes no note of |
| `BridgeReadings` | `Bridge` with the reading each headset gave last, so that a cached reading keeps its level |
| `MCBridge`, `MCBridgeHistory`, `MCBridgeReadings` | the instances TLC checks |
| `Session` | one open dongle: the methods of `Session` as functions of its record |
| `Watches` | `AccessWatch` and `WedgeWatch`, the same way |
| `Reader` | the native reader: sessions per node, the links handed on, both watches; a pass as its steps, each failure an action of its own |
| `ReaderHistory` | `Reader` with what an observer of the dongles remembers: what they last said, quick requests per session, sound found, errors per node |
| `MCReader` | the instances TLC checks |
| `Desktop`, `BridgeDesktop` | the promise to the user, and how the bridge's state maps to it |
| `Batteries` | `Bridge` with the two vectors of src/bridge/batteries.rs |
| `HeadsetControl` | a run of the binary: child, helper, pipes, threads, timeout, stop; `parse` |
| `Source` | which reader answers a poll, and what that does to the pace |
| `Daemon` | the loop above them: probes, registrations, waits, pings, signals, `announce` |
| `Frames` | src/maxwell/frame.rs over the bytes of the report |
| `Dongle` | a headset, its dongle and one session, with everything in between that loses things |
| `MCBatteries`, `MCDaemon`, `MCDongle` | the instances TLC checks |
| `BridgeProofs`, `BridgeClockProofs`, `DesktopProofs`, `BatteriesProofs`, `DaemonProofs`, `SessionProofs`, `ReaderProofs`, `DongleProofs` | the proofs |

### How state and actions correspond to the code

* **One poll** is `Poll`, then one `Apply...` per headset listed, then `Sweep`.
  The code reads the clock once per tick (`now`) and stamps everything with it,
  so no time passes between those actions; `Sweep` adds what the tick took, up
  to `MaxTick`. `tick` handles headsets in the order listed; the model takes any
  order, since the order comes from outside.
* **Time** is kept as the age of each clock (`silent_since`, `missing_since`,
  `gone_since`, `last_reading`, `last_seen`, `published_at`) instead of an
  instant, and a retry deadline as the time left. `battery.last_reading == now`
  becomes `lastReading = 0`. `published_at` stops counting at `REPUBLISH_EVERY`,
  past which its value is never looked at. The model is then finite without any
  bound on the length of a behaviour.
* **`battery`** maps a key to its `VirtualBattery`, `None` without an entry;
  `device` is the reading last given to the kernel, which `update` may or may
  not have taken in when it fails. Two entries of a poll may have the same key
  (`KeyOf`): the key of a headset is its model's, so two dongles of one model
  share a battery.
* **`apply`** is split by its early returns: `ApplyUnavailable`,
  `ApplyDisconnected`, `ApplyNoLevelYet`, `ApplyNotNow`; then `AttachSucceeds`,
  `AttachFails`, `AttachGivesUp` for a headset without an entry; then
  `ApplyDeferred`, `ApplyUnchanged`, `ApplyPushed`, `ApplyPushFails` for one with.
* **`outcome`** of a failure is `Strike`; of a success, `failures = 0` in
  `ApplyPushed`. `wait` only reports failures (`ServeFails`), as the code does.
* **The end of `tick`, `expire` and `next_delay`** are one action, `SweepAfter`.
* **The environment** is unrestricted: any listing, any state of a headset, any
  level, any failure of a handle, a device, a push or the wait. Only the native
  reader can say `Disconnected` and name its samples; only HeadsetControl can say
  that a headset charges without a level.
* Left out: log lines and what only they use (`held`, `logged_percent`,
  `probe_failing`), and names and identities but for whether the
  kernel can ever accept them (`Unacceptable`).

For the reader:

* **One pass** (`reconcile`) is `Poll`, which closes the sessions of nodes that
  are not listed any more, then for each node listed `OpenFails`, `FetchFails`,
  or `Fetch`, one `HearLink` or `HearLevel` per message of the report (any
  number, in any order), and one of `DontAsk`, `GiveUp`, `Ask` and `AskFails`.
  The last four carry everything `listen_to` and `reconcile` do after the report
  is taken in: both watches, the request, and what becomes of the session. The
  pass has one instant; `Elapse` is the time between passes, of any length.
* **The environment**: any set of `Listing` may be listed on a pass, a report
  says anything, any exchange fails, with the dongle gone or not, and a look at
  the sound card finds anything. `Listing` says which nodes may be plugged in
  together: with `OneAtATime` two nodes are one dongle that re-enumerates, with
  `Both` they are two dongles.
* **Counters that only grow** stop where the code stops looking: `asks` at
  `QuickAsks`, `unanswered` at `MaxUnanswered`. `readings` is bounded by
  `MaxReadings`, in the guard of `HearLevel`.
* Which map entry wins when two sessions of one model close on one pass is the
  order of their paths; the model takes either.
* Left out: the one-shot readings of the `status` command.

For the vectors (`Batteries`): `Bridge` speaks of the battery of a key, the code
of an index into two vectors. `VectorSpec` runs both: every step of the bridge
does to the vectors what the code does (`push`, `remove`, `drain`, the walk of
`expire` over a vector that shrinks), and a failure of service is blamed on the
entry at the index of the device that failed.

For the loop's time (`HeadsetControl`, `Source`, `Daemon`):

* **Time** passes in `Pass` only, one `REAP_INTERVAL` at a time, and only while
  the loop is blocked: asleep between two looks at the child, joining the threads
  that drain its pipes, registering devices, or waiting. Everything else takes no
  time. A process takes as long as it pleases, for ever if it likes. That a thread
  empties its pipe before any time passes (`Blocked`) is an assumption: that no
  process sits before a full pipe is therefore not shown here.
* **A run of headsetcontrol** is `Spawn`, then turns of its loop (`Reap`, `Cut`,
  `Sleep`, `LoseTheChild`) between which the processes write and end (`Write`,
  `Exit`) and the threads read (`Drain`). The child may be a wrapper that started
  a helper; a kill reaches the child only. Left out is a wrapper that ends before
  its helper: the code joins the threads then without a timeout, and says so
  (headsetcontrol.rs:122-123).
* **`probe`** is `NativePass`, and for the turns that are not the native reader's
  the run, which ends in `ControlAnswers` or `ControlFails`. What the readers find
  is any of a few lists; what a document says is `parse`.
* **`announce`** is translated with the instants it compares as ages; `elapsed`,
  the time since the probe started, is the difference between the instant it is
  given and now.
* **The stop flag** rises in `Signal`, in any phase. It ends a wait that is going
  on, and is lost on one that was about to start (`armed`).

For a dongle and its session (`Frames`, `Dongle`):

* The report is its 62 bytes. The dongle writes captured byte streams to it, past
  what was not fetched yet, over what earlier exchanges left; what does not fit is
  lost. A fetch sets the count to nothing and leaves the bytes. `fresh` and
  `messages` find in it what they find in the code; the list of messages of the
  code is here a function from the place where each starts, which keeps their
  order and lets `HeardIsWhatWasSaid` compare places too. `TakenIn` goes through
  the places in turn, as `take_in` through the list.
* The session is `Session`'s, as in `Reader`; one poll is `FetchFails`, or `Listen`
  and then `Ask`. The dongle may act between the two (`fetched`): a headset may
  leave after the report was fetched and before the request that it led to is
  written, and a request may be on its way as it leaves. The reader hands the link
  on when the node goes (`Reenumerate`), which ends a poll that is going on too.
* The dongle and the radio are external: they announce the headset, re-enumerate
  some time later, answer, and lose requests, answers and transfers, as the
  comments of `src/maxwell` say they do.

What the user is promised is `Desktop`: entries with a level on show, its age and
a doubt, that appear, answer, puzzle, are withdrawn and grow old. `BridgeDesktop`
maps the state of `Bridge` to it (`Shown`, `Age`, `Doubt`), and
`ImplementsDesktop` says that the bridge implements it.

Definitions that begin with the comment "Not the code" are plausible mistakes of
the definition that follows them. No run uses them; replacing the definition by
one must break a property, which shows that the property depends on it.

## The runs

| run | instance | shows |
|---|---|---|
| `bridge_grace` | two dongles of one model, one level, graces 3 and 5, paces 1 and 4, retry 2, a tick up to 1 | `HandlesAccountedFor`, `AttachedIsUnencumbered`, `QuietEntriesGo`, `ShownLevelIsRecent`, `GoneIsBelieved`, `EntriesGoForCause`, `FailuresAreSpaced` |
| `bridge_pool` | three models, two inherited handles, one identity never accepted, the two vectors | `VectorsAreInStep`, and `HandlesAccountedFor` under competition |
| `bridge_levels` | one headset, levels 40, 45, 46, 61, 77, two samples | `ImplementsDesktop`, `DoubtContradictsTheLevelShown`, `LevelMovesAreBelievable`, `JumpsTakeTwoReadings` |
| `bridge_live` | one headset, and one with an identity never accepted, under fairness | `StopEndsTheDaemon`, `QuietEntriesDoNotLast` |
| `bridge_missing` | as `bridge_grace`, one headset | `MissingGraceHasItsSay` is violated |
| `bridge_gone` | one headset | `GoneMustPersist` is violated |
| `bridge_strikes` | one headset, limit 3 | `DestroyedForFailuresInARow` is violated |
| `reader` | one dongle with two node names, delays 1, 2, 2, 3, three unanswered requests, silence 3, reminder 3 | `LevelsAreCurrent`, `SilentDonglesAreSpared`, `BeliefOutlivesSessions`, `WedgesAreToldOf`, `SamplesAreNew`, `LastingErrorsAreReported` |
| `daemon` | timeout 3, wait 4, interval 7, settling 3, grace 4, pipes of 1 chunk, up to two new headsets a poll, the three backends | `ReadingsAreShort`, `PingsAreClose`, `StopIsPrompt`, `ComingBackIsNoticed`, `PendingIsWhatIsHeard`, `AnnouncedHasLasted` |
| `dongle` | one headset at 55%, delays 1, 1, 2, 3, two unanswered requests | `HeardIsWhatWasSaid`, `GoneIsLeftAlone`, `MissedHeadsetsAreFound` |
| `reader_access` | two dongles of one model | `LastingErrorsAreReported` is violated |
| `reader_gives_up` | as `reader` | `GivingUpLeavesTheSlowCadence` is violated |

**Bounds.** Durations are scaled down with their order kept (native pace < retry
< interval; offline grace < missing grace; settling shorter than the graces) and
all clocks are bounded by the system itself, so no state constraint is used.
One unit of `MaxTick` lets every comparison of a clock with a duration fall on
either side. The bound of `ShownLevelIsRecent` was found tight: TLC violates it
when any of its terms is one less. In `bridge_levels` the levels lie at a
distance of 5, 6, 15, 16 and more from each other, on both sides of
`ConfirmTolerance` and of `MaxPlausibleStep`. Two samples suffice because only
equality with the last sample matters. In `reader` the interval of a linked
headset is shorter than the slow cadence and longer than the first delay, so each
way of pacing may follow each other; two readings let a session after a
re-enumeration repeat a number, if it could. The bound of
`SilentDonglesAreSpared` is tight. The two node names are interchangeable, hence
the symmetry; the run checks no liveness. In `daemon` the durations keep the
order of the code's (native tick < retry < wait < interval), a run may write more
than a pipe holds, and a report may hold as many new headsets as
`MostHeadsets`. In `dongle` `MostAbsentAsks` counts one request further than
`GoneIsLeftAlone` allows, which is tight (a headset that leaves between the fetch
and the request makes it three), and `calm` as far as `MissedHeadsetsAreFound` looks,
which is tight: TLC violates it with a poll less. Two levels would tell nothing
more there, since `Percent` holds none of the other bytes of the streams.

**Fairness.** Weak fairness of each step of the loop's one thread (`Poll`, an
`Apply`, `Sweep`, `Elapse`, `Shutdown`), justified because no call of the loop
blocks for good: readings time out, registrations time out, `serve_all` has a
deadline. `Restart` is fair because the unit has `Restart=always`. Nothing is
assumed of headsets, the kernel or the stop flag.

**What the violated properties show.** Each states what a comment of the code
says, and `PROJECT.json` quotes it under "findings":

* the poll that first misses a headset still judges it by the offline grace
  (policy.rs:80-84 says the missing grace is judged on its own);
* `gone_since` survives polls that list the headset otherwise (mod.rs:50-52 says
  the dongle has to keep saying it is gone);
* strikes are not "in a row": successful servicing does not reset them
  (mod.rs:40-48);
* an error that lasts on one of two dongles is never reported, because the
  access watch holds one error for the whole process (session.rs:91-96);
* a request counts as unanswered before the next one is written, so writes that
  fail give up on a headset that was asked once, with its quick questions unspent
  (session.rs:279-285).

Two more places are narrower than the comments about them, and the properties
that hold say by how much. `WATCHDOG_WORST_CASE` (bridge/mod.rs:71-83) counts the
registration of one device a tick; a tick has one for each headset that appears on
it, and the bound that `PingsAreClose` states counts them all (19 s with two of
them, for which the 60 s of the shipped unit leave room). And a headset "that came
back unannounced is still found" (maxwell/mod.rs:55-59) unless its session believes
it gone, which it asks once (session.rs:269-274): `MissedHeadsetsAreFound` excepts
that one.

## The proofs

For the bridge, from the named assumptions of `Policy`, `DevicePool` and `Bridge` only: durations
are naturals (paces, retry and limits positive), levels lie in 0..100, `Key` is
finite, `None` is none of the values. No assumption orders the graces, paces and
bounds.

* `TypeCorrect` (BridgeProofs): `TypeOK`, by induction over the actions.
* `Unencumbered` (BridgeProofs): `AttachedIsUnencumbered` is inductive with
  `TypeOK`.
* `QuietGoes`, `RecentLevels` (BridgeClockProofs): neither bound is inductive,
  because the clocks of an entry start on different polls. `ClockInv` relates
  them: without a counted silence the last poll answered, so the level is at most
  one regular gap old; the silence started at the first unanswered poll, so the
  level is at most that gap older than the silence; a headset that is missing is
  silent too, and its silence was within the offline grace when it went missing.
  `TimelyElapses`, `TimelyKept`, `TimelyFresh` and `TimelySwept` show that each
  kind of step keeps this for one entry, `ClocksAgree` for all of them, and the
  two theorems add the bounds up.
* `GoForCause` (BridgeClockProofs): the action property, from `ClockInv` (a
  counted silence is no longer than the time without a reading).
* `HandlesKept` (BridgeProofs): `HandlesAccountedFor` with "a loop that
  ended has no device", needed for the restart; cardinalities from the library.
* `FailuresSpaced` (BridgeClockProofs): what is left of a key's retry and the
  time since its last failure add up to at least `AttachRetry`: a failure sets the
  one in full as it starts the other, and time moves both at one rate.
* `GoneBelieved` (BridgeClockProofs): with `Remembers`, the announcement is no
  older than the `goneSince` of the entry, and an entry the running poll listed
  as gone is within `DisconnectSettle`, so that the poll and a native pace are all
  it can gain before it is looked at again.
* `BelievableMoves`, `Doubts` (DesktopProofs): what `vet` accepts and defers,
  then what each step does to the level shown and the one deferred
  (`LevelsStep`), of which both follow.
* `TwoReadingsPerJump` (DesktopProofs): with `HeardInv`, what an entry deferred is
  what its headset was heard to say last, so that the second opinion a jump takes
  is a reading of its own.
* `VectorsStayInStep` (BatteriesProofs): the walk of `expire` is a recursive
  function over its turns (`turns`). `WalkInv` says what holds after n of them:
  nothing that goes is left before the index, nothing that stays was taken out,
  and each turn advanced the index or took an element out, so the walk is over
  when the turns are. It holds after every turn by `BoundedInduction`, a fact about
  a set of natural numbers, which follows from the library's `WFMin`.

For the reader, from the assumptions of `Session`, `Watches` and `Reader` (every
delay at most `LongestDelay`; the two assertions the code is compiled with:
`MAX_UNANSWERED > ASK_AGAIN_AFTER.len()` and `WEDGE_SILENCE >= ASK_IDLE_RETRY`):

* `ReaderTypeCorrect`, `CurrentLevels` (ReaderProofs): inductive as they stand;
  one lemma per operator of a session says what it does to the type and the level.
* `DonglesSpared` (ReaderProofs): the count of quick requests is not
  inductive alone. `Spared` ties it to what the session remembers: while the
  headset is believed linked, to the requests unanswered; otherwise to those
  asked, until the quick ones are spent. Only the first assertion makes the two
  bounds meet.
* `BeliefsOutlive` (ReaderProofs): under the assumption that no listing
  holds two dongles of one model, with the invariant that `last_link` is what was
  last said of every model without an open session.
* `NumbersAreNew` (ReaderProofs): the reader's count is never behind the newest
  number handed out, whichever session holds it.
* `WedgesTold` (ReaderProofs): with `WedgeInv`, a look that found no sound is older
  than the sound that streams, so that it is looked at again in time. It takes a
  reminder that is longer than nothing.
* `LastingErrorsReported` (ReaderProofs): under the assumption that no listing holds
  two dongles. `TroubleInv` ties the one error the watch holds to the trouble of the
  dongle listed. `reader_access` is the counterexample with two.

For a dongle and its session (DongleProofs), from the assumptions of `Session` and
two of `Dongle`: the interval is longer than nothing (main.rs:177 takes one of a
second or more), and a dongle is listened to for less than the interval and the
longest delay together.

* `MessagesAreHeard`: `ReportInv` adds to the property that what was written last
  leaves no header short of the one byte after it (`Closed`). Then a message of the
  new report lies before the event just written, inside it, or across its start,
  and every event starts with bytes that no header has there (`EventHeard`).
* `DongleTypes`: the session after each place of the report is a session
  (`TakenInKeeps`: what every message keeps, the report keeps, by induction over
  the places).
* `GoneLeftAlone`: `AbsentInv` counts, with the requests sent and the one on its way
  as the headset left, the one that the session told may still send (`MayAsk`: it
  has yet to ask, or is about to), and the one of the session that the next
  re-enumeration opens.
* `MissedFound`: `CalmInv` bounds the polls since the last loss by the ages of the
  session: by that of the dongle's opening before the first question, by that of the
  last question after it, by that and one interval once it gave up; a question is
  answered before the next poll. `Ready` says what of these bounds `Ask` can count
  on between the fetch and the request.

For the refinement (DesktopProofs), from the assumptions of the bridge and its
proofs above: `BridgeImplementsDesktop`. The initial states map to the initial
state; then one lemma per kind of step says which step of `Desktop` it is. A step
of `apply` on an entry is an `Answer`, a `Puzzle` or a `Withdraw`, by what
`LevelsStep` says of `vet`; `Sweep` is a `Pass`, whose bounds on the ages are what
`ClockInv` proves; the end of the process is `End`.

For the loop (DaemonProofs), from the assumptions of `HeadsetControl`, `Source`
and `Daemon`:

* `ReadingsAreShortHolds`: the run can only be asleep
  or wait for the pipes while time passes; it is asleep only before the timeout,
  and it joins the threads only when the child ended by itself, its helper before
  it, so that nobody is left to write and every thread can finish at once.
* `TypeCorrect`: needs the former for the ages of `unsettled`.
* `PingsAreCloseHolds`, `StopIsPromptHolds`: neither bound is inductive; each is
  strengthened, phase by phase, with what was spent since the ping (or the
  signal) and what is left of the current step.
* `ComingBackIsNoticedHolds`: the pace belongs to the last probe, and the grace it
  was judged by only runs out.
* `PendingIsWhatIsHeardHolds` is inductive with the type; `AnnouncedHasLastedHolds`
  follows, since what is announced is what was pending.

Only model-checked: the two liveness properties of `bridge_live`
(`StopEndsTheDaemon`, `QuietEntriesDoNotLast`), since liveness under fairness is out
of the prover's reach, and that the five properties of the failing runs fail. Every
invariant and every action property of the other runs is a theorem. The library's
induction theorems take an operator as a parameter, which the installed provers
cannot instantiate; where a proof needs induction over data it is carried out on a
set of natural numbers instead (`LeastElement`, `BoundedInduction`).

## Not modelled

* Option parsing, logging setup, the `status` command, which reads once and exits
  (`probe_once`, `read_once`, `looks_wedged`).
* The walk of sysfs (`discover.rs`) and the search for the sound card, which keep
  no state: their results are inputs of the models, without restriction.
* Datagrams to the service manager, the text of JSON, the formatting of names and
  durations, the log lines other than the announced summary.
* That the threads drain both pipes of headsetcontrol in time, and what a pipe that
  is not drained does to the child: both are read at once here.
* Two dongles under one wedge watch, and what the kernel shows after it dropped a
  push: the code promises nothing there that a property could state (see the notes
  of these hazards in `PROJECT.json`).
* The reader under the bridge as one specification: the bridge is checked against
  every listing, which includes those the reader gives; their product is beyond
  TLC's reach at bounds where both do something of interest. The two meet in the
  numbers of the readings, which `SamplesAreNew` and `JumpsTakeTwoReadings` check
  on either side.

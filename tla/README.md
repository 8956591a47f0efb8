# A formal model of lnaudit

lnaudit (Go) audits a Lightning node that runs LND. `lnaudit scan` runs some
thirty checks on the configuration, the file system, the ports and, over gRPC,
the running node, and ends with a report, a score and an exit code.
`lnaudit jamming analyze` keeps a timeline of channel snapshots in a file and
classifies sustained pressure on channels. `suggest-config` and `generate`
write configuration.

This directory models the parts in which something can go wrong over several
steps. TLC checks the models on small instances; TLAPS proves, for every
instance, the safety properties of the analyzer, from its pass over a channel to
the verdict on a whole timeline, the timeline file, the scan session, the live checks, the watchtower check, the
strings from the node, the suggested and generated configuration and the walks
over the file system. Paths are relative to the repository.

## Inventory

| Component | State | Operations | What is hard | What makes it correct |
|---|---|---|---|---|
| Temporal jamming analyzer (`pkg/jamming/analyzer.go`, `types.go`) | the points of each channel; the counters of `evaluateStreak` | `Analyze`, `buildSeries`, `evaluateStreak`, `normalizeOptions` | three passes with counters that must all be reset at a break; gaps in the indices; duplicate and unordered snapshots | High exactly for channels elevated at `MinSustainedSamples` timestamps in a row; evidence that supports its finding |
| Timeline file (`pkg/jamming/io.go`, `cmd/jamming.go`) | one file, shared by all recording runs; the timeline each run holds in memory | `RecordSnapshot`, `AppendSnapshot` (stat, load, truncate, write), read back | runs started by cron overlap; kills, full disks; no lock, no rename | no recorded snapshot is lost; a corrupt file is not replaced |
| `jamming analyze` (`cmd/jamming.go`, `pkg/report/jamming.go`) | findings, filter, score, exit code | `runJammingAnalyze` | gate, score and display use different copies of the findings | the gate does not depend on the display |
| Scan orchestration (`cmd/scan.go`) | report, warnings | `executeScanWithOptions`, `renderReport` | some failures end the scan, some its live part, some cost one check | nothing a check returns is lost and no failure is silent; exit code of the whole report |
| Interactive UI (`cmd/spinner.go`) | the Bubble Tea model; messages in flight | `Update`, `startScan`, `sendPhase` | goroutine of the scan, message loop and user race; the model is a value and is copied | ctrl+c ends the command; never a result that is not the scan's |
| Severities, score, rating (`pkg/scanner`) | - | `Score`, `Rating`, `HasFindingsAtOrAbove` | - | used by both commands |
| LND connection (`pkg/grpc`) | connection; an index into a string | `Connect`, calls with `rpcTimeout`, `truncate` and `sanitizeRunes` | calls fail or time out; `Connect` does not wait for the node; three nested loops move one index | failing calls are reported; of a string from the node whose sequences are carried through, the terminal gets its text and no part of a sequence |
| Live checks (`pkg/checks/live*.go`, `exposure_limits.go`, `cves.go`) | the answers to one or two calls | nine checks | the node moves between any two calls; two checks add up two calls; sums and thresholds near the limits of an int64; versions that do not parse | what is reported was true, what lasts is reported, an exposure is off by what moved and no more |
| Config parser (`pkg/config`) | parsed config | `ParseBytes` | two loads with different rules | - |
| Path detection (`pkg/lndpath`) | paths | `Detect`, `readKeyFromConfig` | a line scan reads `datadir` before the parser does, by other rules | both see the same data directory |
| Config checks (`pkg/checks/privacy.go`, `exposure.go`, `policy.go`, `resilience.go`, `transport.go`) | - | one function per topic | - | - |
| Suggestions and generation (`pkg/confgen`, `cmd/suggest_config.go`, `cmd/generate.go`) | settings by key | `SuggestFromFindings`, `Generate` | finding IDs used twice; suggestions that cause findings; stat before open | applied suggestions remove their findings |
| File system walks (`pkg/checks/access.go`, `secret_hygiene.go`, `macaroon_least_privilege.go`, `incident_readiness.go`) | what a walk has listed and not yet looked at; counters; coverage by topic | four walks with depth and count limits | files that are moved between the listing and the look; skipped, unreadable and linked directories; limits | a leak that stays is reported, what is reported was there, and the node's own files are no leaks |
| File permissions, backup (`permissions.go`, `backup_readiness.go`) | - | one stat per target | the paths come from path detection | what they look at is what the node uses |
| Probes (`ports.go`, `watchtower_connectivity.go`) | counters | dial each port or tower | counters that have to add up; forms of an address | one verdict per situation |
| Report writers (`pkg/report`) | - | table, JSON, SARIF | fingerprints hash three fields | distinct findings of the live checks are distinct alerts |

How they interact. `scan` calls path detection, the parser and the checks in
order, and passes phases to the UI through messages; the live checks ask the
node, the probes dial, and the walks read directories while node, network and
files go on changing; `suggest-config` runs the
same scan and hands its findings to `pkg/confgen`. Recording runs of
`jamming analyze` are separate processes that share nothing but the timeline
file; each analyzes what it reads back. The scan's own jamming check (`L-7`,
`L-8`) is separate from the temporal analyzer.

The behaviours that are hard to test, each at its line with the properties that
cover it, are listed under `hazards` in `PROJECT.json`.

## Modules

    Streaks ──── Runs ──┬── ChannelVerdict            (abstract: the verdict)
                        ├── ChannelAnalysis ──────────  MCChannelAnalysis
                        │     └── ChannelAnalysisProofs ──┐
    Lists ──── Scanner ─┴── TimelineAnalysis ─────────  MCTimelineAnalysis
                 │            └── TimelineAnalysisProofs ─┘
                 ├── ScanRun ──── ScanSession ────────  MCScanSession
                 │                  └── ScanSessionProofs
                 │
                 │   LiveChecks ── LiveNode ──┐
                 └── SarifReport ─────────────┴── LiveScan ──┐
                     TowerProbe ─────────────────────────────┼──  MCNetwork
                     Sanitizer ──────────────────────────────┤
                                                             └──  NetworkProofs

    LndPath ── FileTree ── FileChecks ── FileScan ────  MCFileScan
                                           └── FileScanProofs

    LndConf ──┬── ConfigChecks ──┐
              ├── ConfGen ───────┤
    Lists ────┴──────────────────┴── ConfigSuggest ──   MCConfigSuggest
                                       └── ConfigSuggestProofs

    SnapshotLog (abstract: the log)
      │ implemented by
    TimelineFile ── TimelineStore ────────────────────  MCTimelineStore
                      └── TimelineStoreProofs

    FoldTheorems (over Lists): used by ScanSessionProofs, NetworkProofs,
                               ConfigSuggestProofs, TimelineAnalysisProofs and
                               TimelineStoreProofs

| Module | Models | How |
|---|---|---|
| `Streaks` | the pure part of the analyzer | one operator per function or closure; `Iteration` is one turn of the loop of `evaluateStreak`; ratios are integers in units of `1/Scale` |
| `Runs` | reference definitions | unbroken runs, windows, peaks and first longest runs by quantifiers, without loops or counters |
| `ChannelVerdict` | what is promised about a channel | abstract specification with one step, `Decide` |
| `ChannelAnalysis` | the per-channel loop of `Analyze` | `EvaluatePoint` is an iteration, `ReturnStreak` a return, `Classify` the rest; the variables are the locals of the code |
| `TimelineAnalysis` | `Analyze` over whole files, and `runJammingAnalyze` | sort, deduplication and numbering as concatenations over the sorted file, the loop of `evaluateStreak` as a recursive function over `Iteration`; one action, a run that appends and analyzes |
| `Lists` | the loops that append some members of a list to another; sorting | `Within`, a concatenation of pieces; `Sorted`, each member behind those before it |
| `Scanner` | `pkg/scanner`, the filters, the score | operators on sequences of findings |
| `SnapshotLog` | what a timeline file promises | abstract append-only log |
| `TimelineFile` | the bytes of a timeline file | what `SaveTimeline` writes for a list of snapshots, and a reader that goes through the bytes as `json.Unmarshal` does |
| `TimelineStore` | the file and its recording runs | one action per system call of a run, several runs at once, kills and short writes |
| `ScanRun` | `executeScanWithOptions` | one action per phase or check; `returned` remembers what every check returned |
| `ScanSession` | one `lnaudit scan` with its UI | adds the main goroutine, the Bubble Tea loop, the messages in flight, ctrl+c, and `renderReport` |
| `LndConf` | `lnd.conf` and `ParseBytes` | a file is a sequence of settings with their sections; the two ways to load it; the values of a key, by the lines of its section that give them |
| `ConfigChecks` | the checks of the configuration | one operator per function of `pkg/checks`, from what was parsed to a set of findings (ID and module) |
| `ConfGen` | `lnaudit generate` | the settings each section emits, under the header that precedes them |
| `ConfigSuggest` | an operator with `generate` and `suggest-config` | edit, scan and suggest, apply one line or all, scan again; applied lines come in the order of the patch (`PatchOrder`); keeps the file of the scan before |
| `LiveChecks` | the nine live checks | one operator per check, from the answers to its calls to its findings |
| `LiveNode` | the node, external | what the checks can tell apart of it, and the moves of a Lightning node: channels open, close and are force-closed, payments, HTLCs, changes of what `GetInfo` answers |
| `LiveScan` | the live part of `executeScanWithOptions` | one action per call of a check; the node moves, or a call fails, between any two |
| `SarifReport` | the identity of a SARIF result | what `sarifStableFingerprint` hashes |
| `TowerProbe` | `CheckWatchtowerConnectivity` | an action per tower of the loop, the counters as variables, and one for the verdict |
| `Sanitizer` | `truncate`, `sanitizeRunes` | the index, and which of the loops reads next |
| `LndPath` | `lndpath.Detect`, and the parser's view of `datadir` | lines of `lnd.conf` by section and form |
| `FileTree` | the files of the host, external | a tree of directories; files that are created, moved and removed |
| `FileChecks` | what a check makes of one file | one operator per check |
| `FileScan` | the six checks of the file system | one action per entry of a walk: a directory is listed when it is entered, and what it listed is looked at later |

`MCNetwork` puts `LiveScan`, `TowerProbe` and `Sanitizer` side by side. They
share nothing, so each runs from its own initial states while the others stand
still.

Definitions marked "Mutant" are plausible bugs. Nothing uses them; each one,
put in the place of the definition after it, breaks the property it is listed
with under `mutants` in `PROJECT.json`.

### Abstractions

* A snapshot in `TimelineStore` is named by the run that took it;
  `TimelineAnalysis` is about what is inside. In the file it is some bytes
  (`Width`), so that a write can end at any byte, and a longer file keeps the
  tail behind a shorter write. What precedes the first snapshot is one byte, so
  is the closing bracket and brace, and so is the final newline. A file decodes
  if the reader of `TimelineFile` comes to its end: spare newlines do no harm,
  other bytes behind the end do, and inside a snapshot a byte is followed by the
  next one of the snapshot, or by one of another snapshot that happens to fit
  (`Fitting`); what is read then is a snapshot nobody took (`Spliced`). `Garbage`
  stands for everything that does not decode, the empty file included. A write
  that leaves out the final newline at most counts as written, although the run
  fails.
* A check in `ScanRun` returns some findings or, if it asks the node, an error.
  What it looks at is in modules of their own: `ConfigChecks`, `LiveScan`,
  `FileScan`, `TowerProbe`. The names of all phases and checks are those of the
  code.
* Findings are a set in `LiveScan` and `FileScan`: their order is that of the
  checks, which `ScanRun` has. Titles and descriptions are left out but for the
  channel a title names.
* A directory and a file are numbers in `FileTree`, in the order of their names,
  which is the order `filepath.WalkDir` visits them in. A file has a name out of
  those the checks know, a size, which stands for the length of its text, and
  the words it says, one for each group of patterns that look for them. `Lstat`
  and the read of a file are one step. In a path, chain and network are one
  parameter, and `~` is resolved.
* The chain directory of the default layout is five levels below the home, one
  more than a walk goes. `MCFileScan` keeps that, so that a walk meets the
  node's own files only where `datadir` says so.
* A rune in `Sanitizer` stands for the runes the function treats alike, but for
  those that, behind ESC, start a longer sequence that is neither CSI nor OSC.
* `ConfigSuggest` has the findings of the configuration only. Findings about the
  file system, the ports and the node lead to manual actions at most, or to
  nothing, and editing `lnd.conf` does not change them. Applying a suggestion
  means commenting out the lines of its key, in whatever section they stand, and
  adding the suggested line under its header at the end.
* Values in `LndConf` are the strings of the file, one on each side of every
  comparison the checks make. gopkg.in/ini.v1 is external: it matches names
  exactly and keeps repeated keys after `ShadowLoad`, which rejects lines
  without `=`; otherwise the options of the first load apply.
* `programRef` is a Boolean of the copy of the model that runs. It is `FALSE`
  because `runInteractiveScan` sets it on another copy.
* Bubble Tea is external: a sender blocks until the loop takes its message,
  commands run concurrently, `tea.Quit` is a command.
* `sort.Slice` on channel rows is not stable for lists of more than twelve rows.
  The model takes the first row of a repeated channel, which is what the code
  does for shorter lists; LND never lists a channel twice.
* Ratios are exact: `Scale` is a common multiple of the denominators in use.
  Rounding of `float64` quotients is not modelled.

## Runs

| Run | Question | Instance |
|---|---|---|
| `channel` | Do the three passes return first longest runs, and does the classification implement the verdict? | every history over 5 snapshots of a channel that is absent or has one of 5 shapes (calm, at the threshold, above it, no capacity), 3 settings of the options, among them values `normalizeOptions` replaces: 408,240 states |
| `timeline` | Does the analysis of a file agree with the verdict read off the file, whatever its order? | up to 4 snapshots with timestamps 1 to 3 in any order, 7 channel lists (none, calm, slots, liquidity, both with a repeated row, no limits, negative counts), 2 settings of the flags: 408,410 states |
| `store_serial` | Are the system calls of a run an append? | 4 runs in sequence, with and without an existing file: 2,128 states |
| `store_overlap` | What can overlap and failure cost, and what not? | 3 runs at once, kills and short writes at every byte, snapshots of 2 and of 3 bytes: 91,597 states |
| `store_lost` | Is every recorded snapshot kept, as the README suggests? No. | 2 runs |
| `scan` | Is the result of a scan complete, reported as it is, and always reached? | 96 settings of the flags; 4 phases that may find something, 3 live checks that may fail (first, middle, last), ctrl+c at any moment, and a `Run` of Bubble Tea that fails: 213,992 states |
| `scan_progress` | Does the UI show progress? No. | one interactive scan |
| `config` | What does a suggested patch fix, what does it cause, and what does a generated file leave open? | 5 files (empty, and what `generate` writes with and without Tor and tower), up to 2 further settings of 52, one line of the patch or all: 206,824 states |
| `generated_scan` | Does the scan read what the generator wrote? Not all of it. | as `config`, 1 further setting |
| `network` | Is what a scan says of the node true, and complete, while the node moves and calls fail? Do the tower counters add up, and what of a string reaches the terminal? | 4 nodes with 3 channels, 5 settings of the limits, 2 moves or failures anywhere; every list of up to 3 towers out of 5 forms, each dial either way; every string of up to 5 of 9 kinds of runes: 649,981 states |
| `files` | Do the walks report what is there, and only that, while files are moved? | 13 directories, 5 files of 12 sorts in 7 places, 5 sets of flags and homes, 6 ways to write `datadir`, 2 moves at any moment: 3,129,549 states |
| `scan_root` | Does `--scan-root` restrict the scans for secrets? Two of three it does not. | as `files`, with a root and a file outside of it |

Why the bounds are enough. With windows of two and three, five snapshots hold a
run, a break and a second run, longer or shorter, for each metric; four hold two
separate windows of two, so that a channel can have sustained slots and
sustained liquidity at different times. Snapshots of two and three bytes make
timelines that are equally long, differ by one byte or by more; a write can end
inside a snapshot, between two, in front of the closing bracket and in front of
the newline. A lost update takes two runs, a third
one sees its result and writes over it. The phases of a scan differ only in
their place in the sequence: the first, the last and one between, in each of
the loops, may find something or fail. A check of the configuration looks at
one key or at two (a listener and Tor, a tower and the client), or at two values
of one key; which lines of a patch are applied together does not matter to a
check that looks at one of their keys, so one line and all lines are the cases
to tell apart. Two moves of the node or of a file are one away and one in its
place: funds leave the wallet and come back as a channel, a file leaves a
listed directory and another takes its name; the theorems below hold for any
number. Three towers are one more than any two kinds that a branch of the
verdict tells apart. With `maxStringLen` 2, five runes are an escape sequence,
with a terminator of two runes, that is cut off, or followed by text; or a text
that is longer than the limit. `integrationScanMaxFiles` is 1 and there are up
to three integrations: within the limit, at it and past it. Directories of the
tree lie at `macaroonScanDepth` and one past it. `CHECK_DEADLOCK` is off because every
one of these programs ends.

Symmetry is not used: recorders are numbered to give their snapshots different
widths.

### What the runs show

* The analyzer does what the threat model
  (`docs/CHANNEL-JAMMING-THREAT-MODEL.md`, lines 89 to 119) asks for: a single
  snapshot never yields High, corroborated implies both kinds, the report is
  independent of the order of the file.
* A timeline file loses snapshots to overlapping runs (`store_lost`). It loses
  them in no other way as long as it decodes (`LostOnlyToOverlap`), and what
  does not decode is left to the operator (`CorruptionIsKept`). What it lists it
  lists in the order of the writes, and it lists nothing nobody recorded unless a
  run that was overtaken between its load and its write has its write cut short
  (`ReadableIsWriteOrder`).
* The interactive scan never shows a phase (`scan_progress`).
* A patch fixes the findings it was made for, where IDs are not used twice, and
  causes none but the one its own manual action speaks of:
  `wtclient.active=true` without a tower.
* One line without `=` changes how the whole file is read. Wildcard listeners
  other than the last of their key are then not reported, and findings come to
  light only when a patch replaces that line (`ReachableListenersAreReported`
  and `PatchCausesNothingNew` name the case).
* A generated file is clean but for what it leaves to the operator and for
  settings it writes where the scan does not look (`generated_scan`).
* A live scan reports what was true at some moment of it and all that was true
  throughout, unless the check in charge ended in a warning. The two findings
  that add up two calls (L-6, L-13) can report an exposure the node never had,
  and miss one it had, by what moved in between and no more
  (`ExposureOffByWhatMoved`).
* A leak that stays where it is, within reach, is reported whatever is moved
  around it; a report is of a place the file has been in. `--scan-root`
  restricts one of the three scans for secrets (`scan_root`).
* The node's own files are told from leaks as long as `datadir` is written
  plainly (`Plainly`): no spaces around the equals sign, no comment behind the
  value, in the section it belongs to; of several such lines both readings take
  the first. `Own` is what the parser behind the other checks reads; LND's own
  parser is not modelled, and of repeated lines it may take another.

Met on the way and not claimed as findings, since no text of the repository
says otherwise, or not in so many words:

* Timeline and analyzer: a run that is killed after its truncation leaves a file
  that does not decode, and with it all of the history; which of two snapshots
  with one timestamp counts depends on the order of the file; a channel with
  corroborated pressure (one High, 10 points) scores better than one with both
  kinds at different times (two, 20 points); `jamming analyze` never emits a
  Critical finding, so its default `--fail-on critical` never fails.
* Scan: a failed connection without a configuration gives an empty report and
  exit code 0 with a warning that speaks of config-only results; `finalView`
  says "Scan complete." also when the scan was interrupted; the table prints
  "No findings" for a report whose findings the filters hide.
* Configuration: N-1, N-2 and N-3 are each the ID of two findings, so a
  suggestion is made for a problem the node does not have; the loopback address
  `::1` without a port is reported as bound to all interfaces, and `0.0.0.0`
  without a port, with Tor active, not at all.
* Files: with spaces around its equals sign, a comment behind it, or in another
  section, `datadir` sends the checks to a directory the node does not use, and
  the node's own macaroon is reported as a leak (A-3); a home whose own name is
  in `skipDirs`, or that is a symbolic link, is not walked at all.
* Towers: onion towers are left unverified without a word when another tower
  answers; a bracketed IPv6 address without a port can never be dialled.
* Live: an unknown version has no CVE finding and no warning.
* SARIF: the tags of a rule are those of the first finding of its ID; two stray
  files with the same finding have one fingerprint.
* Strings from the node: where a sequence is broken off by the start of another
  one, by ST or by a control character, `sanitizeRunes` reads on where a terminal
  does not, and of ESC ESC [ 3 1 m it keeps the last four characters. Of sequences
  that are neither CSI nor OSC it skips two characters, as its comment says, and
  keeps the rest, as of a DCS string. It keeps no ESC, and of
  control characters only tab and newline, so what is left behind is text.

### Fairness

* `ChannelAnalysis`: `WF(Next)`. It is straight-line code.
* `TimelineStore`: each run that has started goes on (`WF(Step(r))`): every
  system call returns, and the call to the node has `rpcTimeout`. No run has to
  start.
* `LiveScan`, `FileScan`, `TowerProbe`, `Sanitizer`: none. Their properties are
  about what has been found when a scan ends, not about its end; that it ends is
  `ScanSession`'s, where a check that returns is the premise.
* `ScanSession`: the loop and the main goroutine go on. `Run` need not fail, and
  the scan does not have to go on: `CtrlCEnds` holds although a check may hang. `SessionEnds` states as its
  premise that the checks return.

## Proofs

`ChannelAnalysisProofs` proves, for every set of series, every setting of the
options and every `Scale` divisible by 5 (`ScaleAssumption`: the default
threshold 0.60 is then a whole number of units), and for series whose snapshot
indices increase (`InputsAssumption`; that `buildSeries` returns such series is
`SeriesIs` of `TimelineAnalysisProofs`):

* `TypeCorrect`, type correctness, with thresholds in (0, 1] and windows of at
  least two whatever the caller passes;
* `StreaksCorrect`, every streak is the first longest unbroken run with its own
  peak;
* `CorroborationSound` and `EvidenceSound`;
* `ImplementsVerdictSafely`, every step of `ChannelAnalysis` is a step of
  `ChannelVerdict` or leaves its variables alone.

The invariant that carries them is `IInv`. That the best run so far is the
longest is not inductive: the next point may carry the run under way past it.
`IsLoopAt` therefore also says what `currentLength`, `currentMax` and
`prevIndex` mean (`IsCurrentRun`): no run that ends at the last point is longer,
the run of that length is there, its peak is `currentMax`, and it is no longer
than the best. `IterationKeepsLoop` proves one turn of the loop, by cases on
whether the point is elevated (`TakePointKeepsLoop`, `BreakRunKeepsLoop`).

`TimelineAnalysisProofs` proves, for files of any length and every setting of the
flags, from `TimelineAssumption` (the inputs have the types of the code):

* `HighsSound`, High is reported exactly for the channels that are elevated at
  `MinSustainedSamples` timestamps of the file in a row
  (`HighsAreWindowsOfTheFile`);
* `GateSound` (`GateIgnoresDisplay`), `OrderIrrelevant`
  (`OrderOfFileIsIrrelevant`) and `NothingCleared`
  (`LaterSnapshotsClearNothing`).

The inductive invariant, `TimelineInv`, only says that what was printed last
follows from the file as it is now; the work is in what `Analyze` makes of a
file. Each stage of it has a lemma that says what its result is, without the way
it is computed, and the next one rests on no more than that. The sort is a
permutation in the order of time (`SortedByTimeIs`). What is kept is the first
snapshot in the file of each timestamp, in order (`DedupedIs`), and there is only
one such list (`IncreasingUnique`), so files with the same first snapshots give
the same report: that is `OrderIrrelevant`, and half of `NothingCleared`. The
points of a channel are those of the snapshots that have it, numbered by the
snapshots (`SeriesIs`), and a point matches exactly if the first row is elevated
(`PieceIs`); there the division by the limit or capacity is shown to reach the
threshold exactly if the product does (`RatioReaches`). A turn of the loop is
`Iteration`, of which `ChannelAnalysisProofs` knows what it keeps, so a streak is
a first longest run (`StreakIs`). A run of the series is a window of consecutive
snapshots (`RunIsWindow`, `WindowIsRun`), and a window of snapshots is one of
timestamps (`FileWindow`). The findings have one member at most for a channel and
metric (`FoundIs`), which makes the order they are sorted by total
(`BeforeOrders`).

`TimelineStoreProofs` proves, for any number of recording runs, with or without
overlap and failures, for snapshots of any width and whatever bytes fit behind
one another, from `FileAssumption` (names of runs, earlier snapshots and the
markers differ; a byte that fits is inside of a snapshot, or a newline) and
`StoreAssumption`:

* `TypeCorrect`, and `LossSound`, a snapshot is lost to overlap only
  (`LostOnlyToOverlap`);
* `CorruptionKept`, a file that does not decode is never replaced by a fresh
  timeline (`CorruptionIsKept`), from the types alone;
* `OrderSound`, a file that decodes lists the snapshots it has not lost in the
  order they were written, and, unless a run that was overtaken was cut short,
  nothing else, the last write last (`ReadableIsWriteOrder`);
* `SerialRunsImplementLog`, the refinement of `SnapshotLog` (`ImplementsLog`)
  when runs neither overlap nor fail in the middle.

They rest on what decodes. The reader is followed byte by byte (`ReadStep`,
`ReadingGrows`): a file that agrees with a list as far as it goes decodes to a
list that starts so, or not at all (`DecodeKeepsStart`); one that starts with a
whole list, its end included, to that list or not at all (`DecodeWhole`); one
without an end of a list, not at all (`DecodeUnended`).

The invariant behind `LossSound` is `LossInv`. That the file keeps what was
written is not inductive: the next write replaces the file by what its run
holds in memory. `FileKeeps` says of the bytes that they agree with every
timeline that was written and not overrun since, as far as the file goes, which
holds of a truncated file and of one that was written in part too; `WritersKnow`,
that a run about to write starts with such a timeline, or is known to be behind
it. `OverwriteLoss` is the step that matters, for a write of any length.

The invariant behind the rest of `OrderSound` is `OrderInv`. What a run holds in
memory is what the next write puts into the file, so the order has to hold of the
timelines in memory too (`InWriteOrder`). A run that has truncated the file and
was not overtaken since finds no end of a list in it (`UnendedUntilWritten`), so
that its write, if it is cut short, leaves a file that does not decode
(`CutOrder`).

The invariant behind the refinement is `SerialInv`. The log is in the file
except between a truncation and the write after it, when it is in the memory of
one run; so the invariant says that one run is active at most, that a run about
to truncate holds what the file holds, that the file is empty and undecodable
only while that run is about to write, and that nobody is in the log who has not
written (`SerialTruncate` and `SerialWrite` are the steps that matter).

`ScanSessionProofs` proves, for any flags, any phases that find something and
any checks that fail (`ScanAssumption`):

* `TypeCorrect`, and `ExitSound` (`ExitIsOfTheWholeScan`);
* `NothingSilent`, a finished scan has run every check that applies, in order,
  its report is all they returned and its warnings are those that failed, in
  that order (`NothingIsSilent`);
* `DisplaySound`, the writer of the output is given what the user asked to see of
  all that the checks returned, in the order they returned it in
  (`DisplayIsTheFilteredReport`).

The invariant behind the first two joins what the three parties know:
the report has exactly what checks returned, and a scan with an outcome takes no
further step (`ReportIsWhole`); a result the loop has, or a message with it on
the way, is the scan's, and a quit message has a cause (`LoopIsHonest`); the
main goroutine is past the scan only with a result, an interruption or an error
of the interface (`MainFollows`). For the other two it is joined by what has returned at each
stage of the scan: a prefix of the checks that apply, of the length the stage
and its counter say (`EveryCheckInTurn`); report and warnings are concatenations
over that prefix, and grow by one piece with each check (`ReturnMarks`).

`NetworkProofs` is about the parts of a scan that ask the network. It proves of
the live checks, for any number of channels, limits, moves and failures:

* `LiveTypeCorrect`; `ExposureSound`, the error of L-6 and L-13 is what moved
  (`ExposureOffByWhatMoved`); `LimitsSound` (`LimitsAgree`);
* `FindingsSound`, every finding but L-6 and L-13 was true at some moment
  (`FindingsWereTrueOnce`); `LastingConditionsFound`, what is true throughout is
  reported, or its check ended in a warning (`LastingConditionsAreReported`);
* `AlertsDistinct`, no two findings of one live scan have one fingerprint
  (`AlertsAreDistinct`);
* `PressureReported`, the check that counts HTLCs never ends on a node with more
  than 50 pending without a finding or a warning (`PressureIsReported`);
* `DoubleIsExact`, although the product wraps around (`Twice`), the test for twice
  a threshold answers for any two int64 values, negative ones included, what it
  would in numbers without a largest one; without the guard it does not; `UpgradesAddNoCVE`, a newer version has no CVE that an older one
  has not.

The invariant `LiveInv` says that the list a check holds differs from the node's
channels by what moved since (`ListIsOffByWhatMoved`), that a check which has
not come to its verdict has reported no exposure (`ExposureNotYetReported`), and
`LimitsAgree` itself. What the report says of the node is in a second invariant,
`ReportInv`: every state of the node since the scan began is on record, the one
the list was taken in among them (`StatesAreSeen`); a check that is over has
reported all that lasts, or failed (`LastingIsReported`); and none that is still
to come has reported anything (`ReportedOnce`).

It proves two things about loops over an input of any length. For lists of
towers of any length, the counters count the towers of their kinds among those
the loop is through with (`TowerInvariance`), and the verdict they give is the
one stated over single towers (`TowersCorrect`). For texts of any length, whose
sequences are carried through to their end or to that of the text,
`sanitizeRunes` keeps what a terminal would show (`TextSound`,
`TextIsWhatATerminalShows`). `KeepsPace` relates the loop that reads next to the
mode the terminal is in, which it leaves only behind the last rune; the premise
`~BrokenOff(runes)` keeps the two together where the function looks one rune
ahead for the end of an OSC sequence.

`ConfigSuggestProofs` proves, for files of any length, and any number of edits,
runs and patches (`ConfigAssumption`):

* `PatchFixes` (`PatchFixesItsFindings`), an applied line removes the findings
  it was made for, but those whose ID is used twice;
* `PatchIsSafe` (`PatchCausesNothingNew`), a patch brings none that the file with
  its bare keys spelled out did not have, but for the towers of the client it
  activates;
* `ListenersReported` (`ReachableListenersAreReported`);
* `GeneratedHardened` (`GeneratedIsHardened`), from what each line of `generate`
  is read as (`GeneratedValues`) and what each check makes of it
  (`GeneratedFindings`).

`PatchInv` says that the file scanned last is the one before it with some of its
suggestions applied. The argument for the first two is then about two readings of
a file: a patched key has the value suggested, and every other key what it had,
in the file before or in that file with its bare keys spelled out, if the patch
has replaced the last of them (`PatchImproves`). Of two such readings, each check
finds nothing in the first that it does not find in the second (one lemma per
check, up to `NothingNew`).

`FoldTheorems` has what the other proofs need of two recursive functions of the
libraries: the sum over a finite set, and the concatenation of a sequence of
sequences, with the filter `Within` built from it. The library's induction
theorems take operators, which the installed provers cannot instantiate. That the
functions exist, and what they are, is shown by the smallest argument that would
be an exception, from the well-foundedness of strict inclusion on finite sets:
the sum is a number and changes by as much as one of its terms; a concatenation
is a sequence and grows by what is appended; a filter keeps exactly the members
asked for, and pieces of one member at most add up to a selection of them, in
order (`SelectionIs`). `Sorted` puts every member of a finite set that has an
order in one place (`SortedIs`): the numbers of members before each of them are
all different (`RankingsGrow`), so every place is taken (`EveryPlaceTaken`).

`FileScanProofs` proves, for every finite tree, every set of files, flags and
`lnd.conf`, every depth and count limit and any number of moves, from
`TreeAssumption`, `DirsAssumption`, `LimitAssumption` and `FileScanAssumption`
(a directory is deeper than the one above it, and no two files have one path):

* `TypeCorrect`;
* `LeaksSound` (`LeaksAreWhereTheyWereSeen`). `WalkInv`: what is on the list of
  a walk is a directory below its root, or a file in a directory it may look
  into, and a listed file was in that directory. `FoundInv`: the same of each
  finding.
* `LeaksComplete` (`LastingLeaksAreReported`). `LastingInv`: of each file that
  has not been moved, what is due is found already, or the file, or a directory
  on the way to it, is still on the list of the walk, or the walk is still to
  come. A walk that enters a directory puts the next one on the way, or the
  file, on its list (`EnterLasts`); the way exists because of a directory of
  least depth in every set that has none above it (`TopOf`, `WayUp`), which is
  how an induction over the tree is done here.
* `RunbooksSound` (`RunbooksAreJudgedByTheLongest`). `CoverageInv`: what is known
  of a topic is the length of a text that was in reach, and no less than that of
  any text that has stayed there and is not still on the list of the walk.
* `OwnFilesSound` (`OwnFilesAreTakenForOwn`). With `datadir` written plainly the
  line scan and the parser see the same directory (`PlainPaths`), so that no leak
  of any kind is reported in it: `LeaksSound` sees none in what the line scan
  takes for the node's own. `OwnInv`: of the node's own files, those that are
  links or too open are told of, by ID and severity (`Warning`), or still to be
  looked at; and a missing backup is told of once the check has come to the
  wallet.

### Only model-checked

* Liveness: `ImplementsVerdict` as a whole, `EveryRunEnds`, `CtrlCEnds`,
  `SessionEnds`. The provers have no rule for fairness or `ENABLED`.

## Not modelled

* Layout, wording and colours of the table and JSON reports, and of
  SARIF all but the identity of a result: formatting, without state.
* `CheckOpenPorts` beyond its place in a scan: a fixed table of ports, dialled
  one by one, each with a finding of its own.
* The check of the TLS certificate: one file, parsed by the standard library.
* `Connect`'s reading of credentials and the shortening of public keys in
  titles.
* `~` and the platforms' default directories in path detection; redaction of
  home directories in texts.
* The text of generated and suggested files, and where they are written: the
  output is looked for before it is opened (`suggest_config.go:72`,
  `generate.go:91`), which is listed as a hazard.

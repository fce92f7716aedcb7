# A verification project for Luadch Announcer

The announcer is a Lua bot that logs in to an ADC hub over TLS, scans
directories for new releases and announces each of them once in the hub's chat.
It runs as a command-line program (`frontends/cli`) or as a worker process that a
wxLua GUI (`frontends/gui`) starts and watches through a file.

This directory holds TLA+ models of the parts of it that are hard to test, TLC
configurations that check them on small instances, and TLAPS proofs that lift the
central results to every value of the constants. `PROJECT.json` lists the
components, the runs, the seeded bugs that show each property can fail
(`mutants`), the source lines behind every definition (`map`), the hazards, the
findings and the theorems.

## 1. Inventory

| Component | Source | State | Operations |
|---|---|---|---|
| Announce cycle | `core/net.lua` 391-428, `core/announce.lua` | `found`, `next_announce` | scan, send one BMSG per release, keepalive, poll |
| Record of announced releases | `core/log.lua` | `announced.txt`, table `releases` (aliased as `alreadysent`) | load, `check_filesize`, `pre_rotate`, `log.release` |
| Event log | `core/log.lua` | `logfile.txt`, string `content` | `log.event`, `log.find`, rotation with a marker line |
| Hub session | `core/net.lua` 54-390, both frontends | socket, SID, salt, login stage | connect, handshake, keyprint, five login reads, exits, reconnect loop |
| Connection | `luasec/src/ssl.c`, `luasec/src/luasocket/{buffer,timeout,usocket}.c`, `core/net.lua` | read buffer, partial line, timeout, TCP connection | receive a line, send, settimeout, wait for the socket |
| Event bus | `core/events.lua` | handlers by event | `on`, `emit` (one pcall per handler), `clear` |
| Status file | `core/util.lua`, `gui/spawned_worker.lua`, GUI | `core/status.lua`, its temporary file | read-modify-replace by the worker, poll and reset by the GUI |
| GUI process control | `gui/Announcer.wx.lua` | `pid`, buttons, locks, LED, timers | CONNECT, DISCONNECT, checks, kill, end-of-process event, exit |
| Release scan | `core/announce.lua` 24-237 | none | filters: lists, SFV, NFO, age, extension and depth, day directory |
| Release walk by extension | `core/announce.lua` 116-165 | none | count files by extension down to a depth, through links |
| Rules reload | `core/announce.lua` 242-248 | global `rules` | `loadfile` before each scan; the old rules stay when it fails |
| Certificate generation | `core/cert_autogen.lua` | files under `certs/` | `ensure`: five openssl steps |
| ADC identity | `core/adc.lua` | `cfg/id.lua` | create once, load afterwards |
| Rules and categories editor | `gui/Announcer.wx.lua` | tables of rules and categories, tabs, "need save" flags | add, delete, clone, import, save |
| Log viewer, validation of fields | `gui/Announcer.wx.lua` | shown file; none | read, count, clear; check the fields before a save |
| Utilities, start-up, configuration | `core/util.lua`, `core/init.lua`, `core/const.lua`, `frontends/bootstrap.lua`, `cfg/` | settings | formatting, serialisation, loading |
| Conversions | `adclib/*.cpp`, `basexx/basexx.lua` | none | escape, unescape, base32, Tiger |
| Lua, lfs, slnunicode, wxlua, wxwidgets | vendored or generated | - | interpreter, files, GUI bindings |

How they interact:

- The *frontend* calls `net.loop()` until it returns true; false means "sleep
  `cfg.sleeptime` and call again". `net.loop` calls `announce.update` for every
  scan and `log.release` after every successful send.
- `announce.lua` took a reference to `log.lua`'s table of releases when it was
  loaded. The two modules share that table for the life of the process.
- `net.lua` reports every login step with `events.emit("status", key, text)`. In
  the GUI's worker, a handler writes it to `core/status.lua`; in the
  command-line program nothing listens.
- The *GUI* starts the worker, sleeps, reads `core/status.lua` step by step, then
  polls it every two seconds. It also receives the end-of-process event, kills
  the worker, resets the file, edits `cfg/*.lua` and truncates log files that the
  worker has open.
- The *hub* and the network are the environment: frames, refusals, closes, cuts.

What is hard here: two processes on one file without a lock; a process that may
die between a send and the flush of its record; a table aliased across modules
that a rotation must empty in place; a login in which a status frame, a refusal, a
close or silence can come instead of any frame, each with its own exit; a silently
cut link on which reads say "nothing yet" and sends are buffered; a GUI handler
that sleeps while everything else goes on, and events that arrive late. `PROJECT.json`
("hazards") has each of them at its line.

What makes each component correct:

- *record and cycle*: a release is announced once while its record lasts; memory
  and file agree; the file is bounded; every release is announced in the end;
- *connection*: a login reads whole frames; a due scan is not held up by a talking
  or a silent hub; what is recorded reached the hub or broke with its connection;
- *session*: announce only as a member; end only when refused; do not try for ever
  what was refused; come back after every transient failure; leave no stale failure;
- *status file*: an emit of one key loses no other; what is shown is recent and
  catches up;
- *process control*: no second announcer beside a known one; locks as long as
  it runs; red when nothing runs; nothing runs that cannot be stopped;
- *scan*: an entry is found if and only if the rule's filters accept it; a broken
  entry does not end the scan;
- *certificates, identity*: a failure at any step leaves nothing that passes for
  the complete result at the next start; one identity for all logins;
- *conversions, walk*: what is escaped or encoded comes out as it went in; the count
  is that of the files, and ends, whatever the links;
- *editor*: tabs, tables and saved file stay in step; rules refer to existing
  categories.

## 2. Modules

### Announcer (`Announcer.tla`, `AnnouncerProofs.tla`, `MCAnnouncer.tla`)

`core/log.lua` with the body of `net.loop`'s `while true`. `announced.txt` is
abstracted to the number of lines per release (`lines`) and its `size`; a line of
`r` has `Bytes[r]` bytes. `releases` is the table that `log.lua` keeps and
`announce.lua` consults; `found` is the result of `announce.update`. `pc` is the
worker's place:

| `pc` | code |
|---|---|
| `off` | no process; `Start` is the loading of `log.lua` with `pre_rotate` |
| `login` | `net.loop` up to the login (all of it is in `Session`) |
| `waiting` | the poll between scans; `Scan`, `IntervalElapses`, `PollLost` |
| `announcing` | the `for release, cfg in pairs(found)` loop; `SkipBroken`, `ConcatRaises`, `SendRelease`, `SendFails`, `KeepAlive`, `KeepAliveFails` |
| `rotating` | in `log.release`, before `check_filesize` |
| `appending` | in `log.release`, after it, before the flush |

The steps are cut where a crash, a failed write or the clearing of the file from outside
can come between. Faults are `crash`, `link`, `diskfull`, `clear` (the operator or the GUI
truncates `announced.txt`), `detach` (it is removed or replaced while the worker has it
open), `denied` (it cannot be opened for a rotation: `RotationRaises`) and `growth` (something
else writes to it while the announcer is off), at most `MaxFaults` in all. A rule of
`BrokenRule` lacks a category or a command, and its releases are logged and left alone; a
rule of `RaisingRule` has the alibi check on and lacks the command or the nick, and to put the two
together ends the process (`ConcatRaises`, net.lua 404-405). `path` says whether the path still names the open file: when it names
nothing, the next `check_filesize` raises and the process ends (`CheckRaises`); when it
names a later file, the check measures that one and the lines go to the old one. Four ghosts
record what actually happened: `told` (sent, and not lost from the file by a rotation or a
fault), `unsaved` (in the table, but kept from the file by a fault), `orphans` (sent by a
process that ended before it wrote the line) and `repeats` (how many announcements the hub got a
second time for that reason). `Truthful` says that both together are never more than the
faults.

### Session (`Session.tla`, `HubMembership.tla`, `SessionProofs.tla`, `MCSession.tla`)

All of `net.loop` with the frontends' loop, the connection and a hub. While the
client waits for a login frame, `pc` is the status key net.lua would blame. Frames
are kinds: what `recv_login` tells apart (`Disposition`) and what the next step
expects. `setup` enumerates the hubs and settings an operator can have: keyprint
unset, matching or wrong; password right or wrong; and hubs that lack OSNR, SID, INF
or the password request, send a salt that does not parse, admit registered users
only, or refuse a password with a frame of another kind. `HangUp` is every way in
which net.lua lets go of a connection, closed or left to the garbage collector; the hub
may go on counting it (`stale`), which is what makes it refuse the bot's nick
on the next attempt. The hub and the network are external: modelled from what
net.lua sends and expects. The errors that net.loop raises before the login, for want of a socket
or of the hub's certificate, are left out (section 7).

`HubMembership` is the abstract promise: out, joining, member, refused, where
only an acceptable login becomes a membership and only an unacceptable one a refusal.
`Session` implements it under a refinement mapping (`ImplementsMembership`).

### Link (`Link.tla`, `Delivery.tla`, `LinkProofs.tla`, `MCLink.tla`)

The layer under net.lua. `buf` is LuaSocket's read buffer, `line` the `luaL_Buffer` of the
current `recvline`, `block` and `left` what `settimeout` set and `timeout_getretry` has left.
The hub's bytes are pieces; a login frame is two, of which the last has the line feed.
`RecvLine` takes a line from the buffer, `RecvData` fills the buffer, `RecvTimeout` and
`RecvClosed` end a read with what there is of a line thrown away; `Tick` is time,
which passes only while the client waits in `socket_waitfd`, and before which the client
does everything it can. net.lua above it is reduced to its login reads, the loop of scan,
sends and keepalive, and the poll with its shorter timeout. `wire` is up, closed
or cut; a cut link answers nothing and buffers `SendBuffer` frames. The abstraction of
`Session` (a frame arrives or a read fails) is what `WholeFrames` justifies.

`Delivery` is the abstract promise about each release: pending, on the wire, read or lost.
It is handed over once; the end of a connection decides the fate of all that is on it; what
was read or lost stays so, however often the client connects again. `Link` implements it
under a refinement mapping (`Fate`, `ImplementsDelivery`) from the record, the wire and what the
hub received; a combination of the three that no fate explains is mapped to "nowhere", which
`Delivery` does not know.

### Startup (`Startup.tla`, `StartupProofs.tla`, `MCStartup.tla`)

`adc.lua` (load the identity, or create it and append it to id.lua) and
`cert_autogen.ensure` with its five openssl steps, then the context that LuaSec makes of the
pair, then the login. A file is absent, torn, or made of a key; id.lua is absent,
unreadable, mute (it loads and sets nothing), raising or whole. Each step may fail, and
the process may die between any two; the next start goes by what is on disk. The operator may
delete id.lua, the key or the certificate. Ghosts remember the identity that the hub saw and
what was cut, for as long as it matters: `cutCert` until one of the two files is deleted or a
generation comes to its end, `cutId` until a login shows the hub what id.lua holds, `cutCa` until
the authority's files are removed.

### Codec, ExtensionWalk, Algorithms (and `ReleaseScanProofs.tla`, `MCAlgorithms.tla`)

Pure functions. `Codec` has adclib's escape and unescape on the characters that they tell
apart, its base32 in both directions on bytes, with the shift registers of the C++ code, and
basexx's `to_base32`, against each other. `ExtensionWalk` has `count_files_by_ext` on any
graph of directories, against the enumeration of the ways through it. A loop of the code is a
recursive function from the number of rounds to the loop's state (`UnescapeNext`, `EncodeNext`
and `DecodeNext` are one round each), and a recursive descent is a function from the levels that
are left to what every directory then comes to. `Algorithms` puts the question: one input is
chosen in `Ask`, one step answers it, and the two properties are about the answer. Its constants
are the inputs: lists of texts, strings of bytes, and trees with their limits (`Walkable`).

### StatusFile (`StatusFile.tla`, `StatusFileProofs.tla`, `MCStatusFile.tla`)

The worker's handler in its five steps (create if absent, load, write the temporary
file, remove the old file, rename) beside the GUI's read and reset. A file is absent, torn
(truncated and not yet written, or cut) or a table. A write can fail to begin (`SaveTmpFails`: the
emit is dropped) or be cut (`SaveTmpCut`, `CloseResetCut`): `savetable` looks at no result of
write and close, so that a cut temporary file replaces `status.lua` like a whole one. The GUI
reads by `get_status`, from the checks of `start_process` (`Ask`) or from `conn_status_timer`
(`Tick`, and `LookAtLogin` when hubconnect says nothing of a failure); `led` is what the
timer makes of it (`Show`), and `polling` says whether the timer runs, which `StartTimer` and
`StopTimer` change at any time: CONNECT, DISCONNECT, a failed start and the end of any worker, an
older one among them, do. `system` is chosen at the start from the
constant `Systems` and says what happens to a file that is open: POSIX unlinks and
replaces it (`attached` says whether the GUI's handle is still the file the path names),
Windows refuses both.

### GuiControl (`GuiControl.tla`, `GuiControlProofs.tla`, `MCGuiControl.tla`)

The button handlers, `start_process`, `kill_process`, the end-of-process handler,
the LED timer and the exit. `gpc` says whether the event loop is idle or which
check of `start_process` comes next; timers and events are handled only when idle,
workers move, and die (`Dies`), at any time. A worker has the stages that the GUI can tell apart, and
`status.lua` is four groups of keys: hubconnect, hubhandshake, the eight from hubkeyp
to hubsalt, and hublogin. `assumed`, chosen at the start from the constant `Timings`,
names what is assumed of the workers' pace: `NoOrphan` needs that they settle before each
check and that their ends are handled in time, and nothing of what an earlier GUI left in
`status.lua`. A spawn is taken to succeed.

### ReleaseScan (`ReleaseScan.tla`, `ReleaseScanProofs.tla`, `MCReleaseScan.tla`)

`announce.update` and `search`, cut at each look at the disk: listing a directory,
`lfs.attributes` of an entry, and the look inside it. An entry is a record of what the
filters can see: kind, readable, old, has an NFO, has an SFV that is valid or that may not be
read, exceeds the count of an extension (`crowded`); or it is a link to nothing (`Dangling`). A rule's blacklist, whitelist, hidden check and check for
spaces are the set of names they refuse (`blocks`). The day directory scheme is kept:
all rules watch one path, whose subdirectories are day directories, directories of other
names, or directories whose name is a short number. The count behind `crowded` is in `ExtensionWalk`. `access` says which of these exist
and can be listed. An entry may change between any two steps, and rules.lua is `torn`
while it is being written, or raises when it is run (`Raising`). `dead` is a Lua error: there is no
pcall between the scan and the process. lfs is the one for POSIX, whose `lfs.dir` raises on
what it cannot list; on Windows it returns a loop that ends at once, so that there the scan
takes a loose file for a release without an NFO.

### RulesEditor (`RulesEditor.tla`, `RulesEditorProofs.tla`, `MCRulesEditor.tla`)

Tabs 3, 4 and 5 of the GUI. `rules` is the table in memory, `file` is rules.lua, and a
rule's blacklist and whitelist are one list that the rule refers to (`list` into
`lists`), because `table.copy` copies the reference. The one flag of a rule (`active`)
stands for every plain setting. Each handler is one step, for the GUI has one thread:
it changes the table and, on tab 4, also loads, changes and saves the file; where the
file does not load, it ends with an error half-way. A save is refused (the file stays) or
cut (the file does not load any more); `spoilt` remembers that until the file is whole
again. `id` is a ghost by which the properties tell rules apart. `deletable` is the
category for which the Delete button was enabled when its row was selected. The text fields for
the command, the alibi nick and the path take two steps: a character sets the flag
(`Type`), and the table follows when the field loses the focus (`LoseFocus`), before any other
click is handled (`typing` is the rule whose field it is). The start takes two as well: the tables
are loaded and old rules completed (`Start`), and categories imported (`ImportCategories`).

## 3. Runs

| Run | Shows | Bounds |
|---|---|---|
| `announcer` | `Coherent`, `Truthful`, `SizeBound`, `NoRepeat`, `EveryReleaseAnnounced` | three releases of 1, 2 and 2 bytes, one whose rule is broken and one whose rule raises, limit 2: the file rotates in every cycle; two faults of any kind, so that each can follow each |
| `session` | `AnnouncesAsMember`, `GivesUpOnlyIfRefused`, `NoStaleFailure`, `ImplementsMembership`, `EventuallyStaysOnline`, `EventuallyGivesUp` | all 48 setups, two faults (one to drop the session and one during the next login), as many informational frames as the client tolerates |
| `link` | `WholeFrames`, `Punctual`, `ImplementsDelivery`, `CutIsNoticed` | two login frames of two pieces, two releases; a poll of two units of time, sends of three, a scan every three: a poll may begin before and end after a scan is due; buffers of two, so that a frame is split by the buffer and a send waits; two cuts or closes |
| `startup` | `EnsuredIsUsable`, `IdentityKept` | three identities and keys: one in each file and a new one; three faults (a cut generation, a cut repair, and one more), two deletions |
| `algorithms` | `ConversionsAreExact`, `WalkIsSound` | two fields of up to three of six characters; strings of up to six of four bytes (a group of base32 is five); every graph on three directories, and on two with two entries each that may lead to one directory; one of them unreadable or none; depth up to three, so that the depth exceeds every path without a loop |
| `status_file` | `NoKeyLost`, `ReadIsRecent`, `SeenConverges` | both systems; two keys, two texts, three emits: an emit of one key before and after one of the other; a reset and a write that fails or is cut |
| `gui_control` | `RedWhenNothingRuns`, `KnownWorkerIsExclusive`, `NoOrphan` | three workers, so that two old ones can interfere with a new one; one failing kill; any timing (`NoOrphan`: prompt workers) |
| `gui_disconnect` | finding: DISCONNECT leaves a worker behind | two workers, slow |
| `release_scan` | `FoundExactly`, `RaisesOnlyIf` | two rules and two names, so that one rule can accept what the other refuses; eleven trees with one entry of each kind, three sets of directories, five tables of rules and a file that raises; one change, one save, two scans |
| `scan_loose_file` | finding: a loose file ends the announcer | one loose file, one rule |
| `rules_editor` | `Aligned`, `NothingUnsaved`, `RunsWhatIsShown`, `CategoriesExist`, `OthersUntouched` | two rules, two names and two categories: one to confuse with each other; one unsaved edit between saves, one failing save |
| `editor_clone` | finding: a clone shares its lists with the original | the same, no failing save |

Each passing run also checks the module's `TypeOK` (`algorithms` has no state to type).
`FoundExactly` includes that nothing is found that is on record already; `NoKeyLost` that
a key goes missing only when a write failed (its own), was cut (all of them) or, on Windows, the
GUI had the file open. `RaisesOnlyIf` lists all that ends the announcer from inside a scan:
something that changed under it, or one of seven conditions that last.

The bounds on sets are small because the code treats releases, keys, rules and workers
alike: a defect needs one of them and another that it is confused with. The
bounds on faults are the bounds of the checks: what needs three faults in a row is not
covered by TLC. It is by the proofs, which hold for every number of faults and cover every
invariant, action property and refinement of every passing run. What is checked by TLC alone is liveness.

## 4. Findings

1. `gui_disconnect`: `start_process` zeroes `pid` before it kills the worker. When a
   worker is still logging in as the middle checks look, it stays, and DISCONNECT
   stops another one.
2. `scan_loose_file`: the guide describes the NFO check as one on subdirectories. It is
   made for loose files too, where `lfs.dir` raises and the announcer ends, on every
   start until the file is gone.
3. `editor_clone`: the guide offers a clone as a template. Clone and original share their
   blacklist and whitelist until the next start; editing one edits both, and Save writes both.
   `OnlyClonesChangeTogether` proves that nothing else changes two rules at once.

Noticed besides, without a run:

- the guide (`docs/USERGUIDE.md` 351-353) says that clearing `announced.txt` forces a new
  announcement on the next cycle. A running announcer does not look at the file again
  (`core/announce.lua` 22); only a restart does. `Coherent` says by what the two differ.
- the message for a rule without a category or command (`core/net.lua` 409) suggests that such a rule
  is reported and passed over. With the alibi check on and no command or nick, the concatenation before
  the check (404-405) raises; the announcer ends at every scan, and announces nothing that
  `pairs` visits later (`ConcatRaises`; excluded in `EveryReleaseAnnounced`).
- `savetable_atomic` (`core/util.lua` 64-75) is there so that no reader finds a partial table.
  `savetable` (48-62) reports a write that was cut on a full disk as done, and the partial
  temporary file then replaces the whole one: every status is unknown until it is told again
  (`SaveTmpCut`, the exception in `NoKeyLost`).
- the LED follows the worker only as long as `conn_status_timer` runs. The end of an older worker stops
  it for the one that runs (`Announcer.wx.lua` 4209; the premise of `SeenConverges`).
- a link to nothing, an .sfv file that may not be read, a rule with `checkage` and without `maxage`, and
  a rules.lua that loads and raises each end the announcer (`RaisesOnlyIf`).
- a send that fails ends the session without a status event (`core/net.lua` 413-416), so
  that the LED, said to reflect the live state (`Announcer.wx.lua` 4101-4107), stays green or
  turns green on it until the next attempt reports something.
- removing `announced.txt` under a running announcer ends it at the next announcement
  (`core/log.lua` 31), with the BMSG sent and no record of it; replacing it makes every
  further record invisible to the next start (`CheckRaises`, `DetachFile`).
- a generation that is cut between the key and the signed certificate leaves two files with
  the names that `ensure` looks for. They are taken for a certificate at every start
  and every start fails on them, until somebody deletes one of them (`core/cert_autogen.lua` 93;
  the exception in `EnsuredIsUsable`, which also says that one is enough).
- an id.lua that was created and not written (`core/adc.lua` 30) loads as an empty program:
  it is not repaired, and `id` stays without values (part of the exception in `IdentityKept`).
- a release whose name has a line feed is read back as two names after a restart
  (`core/log.lua` 86, 98), so that it is announced again then. Names are atomic in `Announcer`.
- a loop of links counts the files of a release once for every way to them: a link back to
  the release itself makes a rule refuse it for an extension of which it has few
  (`WalkIsSound` says that the count never errs the other way).
- `check_filesize` (`core/log.lua` 30-49) truncates a file that is already past the limit;
  the guide (`docs/USERGUIDE.md` 326-328) says that a write that would push it past does so.
  `SizeBound` states by how much the file can exceed the limit.
- the comment over the reconnect loop (`frontends/cli/main.lua` 55-57) says that `net.loop`
  returns false on an authentication failure. It returns true, and the announcer ends
  (`GivesUpOnlyIfRefused`, `EventuallyGivesUp`).
- after a save of rules.lua that failed, the need for one is forgotten, and a later delete
  takes a different rule from the file than from the table. With rules.lua empty, CONNECT does
  not complain. `Aligned`, `NothingUnsaved` and `RunsWhatIsShown` exclude both.

## 5. Fairness

- `Announcer`: weak fairness of the running worker. It is one sequential process,
  every socket call has a timeout and every sleep ends. Nothing is assumed of the
  environment, nor that somebody starts the announcer again; `EveryReleaseAnnounced` is
  about one that always is (`[]<>Running`), and from some point on finds no release whose
  rule raises: with one, no fairness helps.
- `Session`: weak fairness of the client, of the hub's answers and of the hub's noticing a
  dead connection. Strong fairness of `SendFails`: on a dead link the operating
  system buffers some sends, and in the end one fails; the scan comes round
  every `announceinterval`, so the failure is enabled again and again.
  Both liveness properties suppose `NotChattyForEver`: a hub that for ever sends as many
  informational frames as a login read skips keeps the client from ever getting in, and
  nothing in the code prevents that.
- `Link`: weak fairness of the client and of time. Nothing is assumed of the hub, nor that
  the operating system ever reports a dead link: `CutIsNoticed` follows from the keepalives
  filling the buffer.
- `StatusFile`: weak fairness of the worker's handler and of what the GUI has begun, since each runs to its
  end; strong fairness of `Tick`: a timer that is running fires again and again, between other
  events. Nothing keeps the timer from being stopped; `SeenConverges` is about one that runs from some
  point on.
- `GuiControl`, `ReleaseScan`, `RulesEditor`, `Startup`, `Algorithms`: no fairness and no
  liveness property.

## 6. Proofs

Eight modules, one for each component with a state, prove every invariant, every action property
and every refinement that the passing runs check of it, for every value of its constants; the proofs
about `Algorithms` are in `ReleaseScanProofs`, whose scan ends with the walk. The proofs about a
component with a state have one shape: `IInv` is a conjunction of named parts, among them the
properties or what implies them; TLC has checked it on the instance of the run; `InitIInv` and
`NextIInv`, with one lemma for each action or group of actions, show that it is inductive;
`InvariantHolds` (`SessionInvariant` in `SessionProofs`) states `Spec => []IInv`, and the theorems
about the properties follow from it. The hypotheses are the `ASSUME`s of the component's module and
nothing else.

`AnnouncerProofs` proves that every safety property of the run `announcer`, and that no
release ever has two lines in the file (`NoDuplicateLine`), holds for every
set of releases, lengths, limit, fault kinds and number of faults:
`TypeCorrect`, `CoherentHolds`, `TruthfulHolds`, `NoDuplicateLineHolds`,
`SizeBoundHolds` and the action property `NoRepeatHolds`. The assumptions are
those of `ConstantsAssumption`: lengths and limits are naturals, no line is longer than
`MaxEntry`, `NoRelease` is not a release, and no rule is both broken and raising.

None of the five invariants is inductive by itself. `IInv` adds what the loop of
`net.lua` maintains: the releases still to be announced are not in the table
(`FreshWork`), the one in flight is neither there nor in the file
(`FreshFlight`), `cur` is a release exactly while one is in flight
(`Handling`), and past `check_filesize` there is room for one line (`RoomToAppend`). `Truthful` is
kept as `Recorded`, `Unrecorded` (an orphan has no line) and `Afforded`: a file that
was removed will end the process later, and the fault that removed it has to be held back for that (`Owed`).
Each step's lemma derives the new value of `Lines` first and the parts of
`IInv` from it. `NoRepeat` follows from `IInv` at the one action that sends:
what is found is not in the table, the table contains the lines of the file, and
`told` is those lines.

`SessionProofs` proves that every safety property of the run `session` holds for
every bound (`MaxLoginStatus`, `MaxInfo`, `MaxFaults`; `BoundsAssumption`: they are
naturals): `TypeCorrect`, `AnnouncesAsMemberHolds`, `GivesUpOnlyIfRefusedHolds`,
`NoStaleFailureHolds` and the refinement, `ImplementsMembershipHolds`.

The invariant `IInv` says how far client and hub can be apart. While the client is at
a stage of the login, the hub is at a matching one unless the connection is gone
(`InStep`); every frame on the wire is one that this hub sends (`Truthful`); the login
frames in flight are the ones the client still waits for, in order and with none
missing (`InOrder`), and what the client has passed is what the setup allows it
to pass (`Passed`); the statuses reported so far belong to the stage (`Reported`). None
of these holds without the others: that the client announces as a member follows
from the last frame it read, which is truthful because the hub was in step when it sent it.
There is one lemma for each step. The refinement needs that the client goes online only
if the hub accepts (`Moves`, `HubLoginStep`), which is `Passed` at the last frame.

`StartupProofs` proves every property of the run `startup` for every set of identities and keys
and any number of faults and deletions (`StartupAssumption`: `None` is neither an identity
nor a key, the bounds are naturals): `TypeCorrect`, `EnsuredIsUsableHolds` and the action property
`IdentityKeptHolds`. `EnsuredIsUsable` speaks of one moment of a start, so that its
invariant must say what every earlier moment leaves behind: `PairOnDisk` has, for each step of the
generation, which of the two files are there and whose they are, and outside a generation that
two files are a pair or were cut. `NoAuthorityLeft` says the same of the authority's
files. `IdentityOnDisk` says what id.lua is at each moment unless it is in doubt: the identity of this run, and the one that the hub saw. The two are
independent, and each step's lemma takes them one by one; `IdentityIsKept` and `PairKept` are the
frame arguments for the steps that are about the other.

`LinkProofs` proves `TypeCorrect`, `FramesAreWhole`, `ScansAreOnTime`, `HubAndClientAgree` and the
refinement `ImplementsDeliveryHolds`, for
every number of login frames, all timeouts, intervals and buffers (`LinkAssumption`: positive
numbers, and a keepalive is not a release). `WholeFrames` speaks of frames already taken and
would let the next one be anything; `Stream` says that what is on the line, in the buffer and on the
wire, in this order, is the hub's stream from the place after the frames taken, and
`LineIsFrame` that therefore the first line feed in the buffer ends the frame that is due. `Punctual`
needs `OnTime`: the time for which a scan has been due and what is left of the poll's timeout
make less than a poll, which is what a timeout that started again after every piece would break.
`HubAgrees` needs `OnWireOnce` (what is on the wire is recorded, is there once and was not read) and
`Unsent` (what the scan has still to send is not recorded). The refinement takes these and one more
invariant, `Gone`: what went down with a connection is recorded and is on none that works, so that
nothing lost can be read later. Then each step turns one fate (`SendDone`, `HubReads`), decides the
fates of all that are on the wire (`DropEnds`, `BrokenEnds`), or changes none.

`StatusFileProofs` proves `TypeCorrect`, `KeysKept` and the action property `RecentRead` for any
set of keys and texts, both systems and any number of emits, resets and failing writes.
`NoKeyLost` is about the moments between two emits; `FileFollows`, `TableFollows` and `TmpHoldsTable`
carry it through the worker's handler: the file is one emit behind in the key that is being written
and in no other, or is absent just before the rename. The temporary file is whole or cut, and a cut one is
counted (`CutIsCounted`). `RecentRead` is proved at the poll, whatever step
of the handler it falls into.

`GuiControlProofs` proves `TypeCorrect`, `LedIsRed`, `Exclusive` and `NoneLost` for any number of
workers and failing kills. `RedWhenNothingRuns` and `NoOrphan` are not inductive: that the LED is lit for
somebody has to hold inside `start_process` too, where no event is handled (`LitForSomeone`), and
that a known worker is the only one needs that no end is outstanding that would be taken for its own
(`EndsAreTold`) and that an online worker has said so (`OnlineIsTold`).

`ReleaseScanProofs` proves `TypeCorrect`, `ScanIsExact` and `RaisesForAReason` for every set of
names, directories and their contents, every table of rules and any number of changes, saves and scans.
`FoundExactly` is about the end of a scan; `FoundSoFar` says the same of the part of the three
nested loops that is done, and `Visiting`, `Searching` and `Judging` what the loops are at.
`FiltersAgree` is the core: the checks of `search` in their order, with their early exits, decide
what the filters taken together decide. `RaisesForAReason` goes through the steps that raise: for each,
either the entry is `touched`, or what raised is still there and is one of the seven.

`ReleaseScanProofs` also proves the two properties of `Algorithms`, from `AlgorithmsAssumption`
alone: fields are a non-empty list of texts, bytes a non-empty string of numbers below 256, a tree has
finitely many entries in each directory. `WalkIsSoundHolds` is about every such tree, limit and depth,
`ConversionsAreExactHolds` about every text and string. Neither is about the steps of `Algorithms`, of
which there is one; they are about what recursive definitions compute. As theorems cannot take an
operator for the induction hypothesis, `Induction` takes the *set* of the numbers that have it, and is
proved from the library's well-founded order on finite sets. A definition f[n] = ... f[n - 1] ... is a
CHOOSE, so that each proof has two parts: some function satisfies the equation, and any that does has the
property. Where the state of a loop after n rounds is known in closed form, the function is written
down (`Encoded`); where it is not, it exists by induction on the bound (`WalkExists`,
`SplitExists`, `JoinExists`).

- *Walk.* Sums over finite sets are independent of the order in which they are taken (`TotalAdd`,
  `TotalParts`, `TotalImage`). The ways of n + 1 directories are the ways of n with a start put before
  them (`Prefix`, `MoreWays`), so that the count at a level is the sum over the ways that are
  left there (`CountedEver`, `CountIsTotal`). That it never errs on the wrong side, and errs only
  if two ways have one end, follows from the sum (`WalkableIsSound`).
- *Base32.* `BitsOf` writes a byte as eight bits, and shifts and masks as what they do to them.
  Digit n takes five bits from phase `Phase(n)` of byte `At(n)`; both encoders compute that
  digit (`ToBase32Is`, `Basexx32Is`), and after n digits the decoder's buffer has the bytes before
  `At(n)` whole and the first `Phase(n)` bits of that one (`Filled`, `DecodeStep`). All phases are
  taken one by one, the last digit with its zeros among them.
- *Frames.* `FlattenSeq` lays its parts one after the other (`Stand`, `FlattenIs`); an escaped
  text has neither spaces nor line feeds and is unescaped to itself (`EscapeIs`, `UnescapeReturns`); a split
  at spaces therefore finds exactly the parts (`PartRead`, `SplitReturns`, `FieldsReturn`).

`RulesEditorProofs` proves `TypeCorrect`, `AlwaysAligned`, `NothingIsUnsaved`, `WorkerRunsWhatIsShown`,
`CategoriesAreKept` and the action property `OthersAreUntouched` for every set of names,
categories and entries, any number of rules and edits, and saves that fail in either way at any time.
The argument is about sequences: inserting into, and removing from, what is shown and what is saved
come to the same (`AppendedIsSaved`, `RemovedIsSaved`), because the lists of the other rules do not
change; and what is loaded is what was saved (`Loaded`), because no two rules in a file
have one identity (`NoTwins`). A running worker's rules follow from what CONNECT checked, kept by
the locks (`Locked`). `CategoriesExist` needs `DeletableIsUnused`: whatever gives a rule a category
clears the selection on tab 5, except a handler that ends with an error on a torn rules.lua.
`NothingUnsaved` needs `TypedIsUnsaved`: what is still in a text field has set the flag, for the handler
that writes it to the table does not.
`OnlyClonesChangeTogether` is about the finding `EditsOneRule`: two rules that change in one step
share the list that was edited.

What proving changed in the models:

- `Link`: `left` was thought never to exceed `block`. During a scan it may, for what is left over
  from a poll stays while `settimeout` sets a shorter timeout (`cfg.sockettimeout` may be less than
  `poll_timeout`); the send sets it anew. The login has at least one frame (`LinkAssumption`).
- `GuiControl`: `NoOrphan` was stated under one more assumption, that `status.lua` was blank when the
  GUI started. The proof does not need it, and the property was strengthened.
- `Startup`: `EnsuredIsUsable` excused every later start after a cut, and `IdentityKept` every later
  login. A deletion of one file ends the first, a login with the identity of the file the second.
- `RulesEditor`: `CategoriesExist` excused every failing save. The only one that matters is a save that
  is cut (`NeverTorn`), and the property was strengthened.
- `Link`: `HubAgrees` says nothing of the past; a release could be lost and then read. `Delivery` was
  added, and the run checks `ImplementsDelivery` in its place; `HubAgrees` is a part of `IInv` still.
- `Codec`, `ExtensionWalk`: their recursive operators became recursive functions. A tree was assumed to
  have one entry for each directory that another holds; it may have two links to one, and `subs` is a
  set of entries now.

Checked by TLC only:

- liveness: `EveryReleaseAnnounced`, `EventuallyStaysOnline`, `EventuallyGivesUp`, `SeenConverges` and
  `CutIsNoticed`. The provers have no ENABLED and no fairness rules.
- the findings' counterexamples, which are behaviours and not theorems.

## 7. Not modelled

- *Most of the repository by lines.* Nine tenths of its C and C++ are the bindings of wxWidgets
  that wxLua generates, and with Lua itself, lfs and slnunicode they are third-party code with no
  logic of the announcer's. What is the program's own is some six thousand lines of Lua, the
  small adclib, and the parts of LuaSec and LuaSocket that its correctness rests on; the models
  are of these. The share of the lines of compiled code that `map` covers is therefore small and
  cannot be otherwise.
- *Tiger* (a hash: no property to state but its reference values), adclib's cipher functions
  (not called), OpenSSL, and LuaSocket's other patterns of `receive`, servers and datagrams.
- *logfile.txt*: what is written there changes nothing that the
  program decides (`log.find` is called from nowhere). The marker that a rotation leaves is
  not modelled.
- *The event bus*: `on` and `emit` with one listener are in `Session` and `StatusFile`; handlers
  that register or clear others during an emit do not occur in the program.
- *The layout of the GUI*, the viewer's reading of log files, the wording of messages, the
  GUI's own call of `ensure` (the same function as at the start of the worker), a spawn that
  fails, and the checks of single fields before a save.
- *Errors of the machine at the start of a session* (`core/net.lua` 119-120, 142-143, 152-155): no socket,
  no memory for one more TLS connection, no certificate of the hub or no digest of it. Each ends
  the process before the login. A hub that speaks TLS 1.3, the protocol that `cfg/sslparams.lua`
  asks for, shows a certificate.
- *lfs on Windows*, where a scan raises in fewer cases (section 2, `ReleaseScan`).
- *The day*: a scan takes the day at which it began to be the day at which it ends.
- *Delivery*: nothing acknowledges a BMSG. `Truthful` says "sent", not "received"; by how much
  the two differ is what `Delivery` says of `Link`: by what was on a connection when it broke.

## 8. Plan

Done: `Announcer`, `Session` with `HubMembership`, `Link` with `Delivery`, `Startup`,
`StatusFile`, `GuiControl`, `ReleaseScan` and `RulesEditor`, each with its proofs; `Codec` and
`ExtensionWalk` under `Algorithms`, with theirs in `ReleaseScanProofs`.

Next, in this order:

1. `System`: `Session` and `Announcer` composed, so that what is recorded was sent as a member;
   each of the two as a refinement of its part.
2. `LogStore`: both log files with their markers.
3. `Events`: handlers that raise, register or clear during an emit.

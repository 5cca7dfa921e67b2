# Verification of Oxidecraft in TLA+

Oxidecraft is a Minecraft 1.8.9 client in Rust. This directory holds TLA+ models
of its concurrent core, the TLC configurations that check them on small
instances, and theorems about them that TLAPS proves for every value of the
constants. Everything is translated from the source under `src/`; where a
comment of the code and the code disagree, the model follows the code and the
disagreement is recorded below.

## 1. The system

### Threads

| thread | owns | talks through |
| --- | --- | --- |
| window (`oxide-client/src/main.rs`) | screens, capture of the pointer, meshes, its own copies of the session's flags | drains the session's events once a frame, sends inputs |
| session (`oxide-game/src/session.rs`), one per joined server | the connection, the world, the player, the open window, the mesh queue | reads packets, drains inputs, reports events, feeds the mesh pool |
| mesh pool (`oxide-game/src/session.rs`, rayon) | nothing: a job carries a snapshot | a channel of finished builds |
| skin worker, ping threads, sign-in and fetch | their request | channels drained by the window |

The world belongs to the session alone. The window never reads it: it is told by
events, and every copy it keeps (meshes, whether the player is dead or asleep,
the slots of a window, sign texts) is stale by whatever is on the channel. Most
of what can go wrong lies in those copies and in what happens to them when a
session ends, a world is replaced, or an answer comes late.

### Components

| component | state | operations | hard part | correct when |
| --- | --- | --- | --- | --- |
| mesh pipeline | dirty list, phase and generation of a column, jobs out, channel of builds, shown meshes | chunk, bulk, unload, block change, Join Game, respawn, F3+A, pump, drain, finish, frame | a build is of a snapshot; the column, its neighbours or the whole world change while it is out | a build that is accepted is current; no change is lost; the window comes to show the world |
| session lifecycle | link, thread, window's screen and flags, channel | join, login, play packets, end, last Disconnected, frame, leave | the window folds events of a session that has moved on or is over | its copies agree with the session once it has caught up; an end is shown |
| held input | keys down, capture, screens, chat, held keys of the session | key, button, focus, screens, server windows, deaths | a press whose release goes elsewhere; three owners of the pointer | the session holds nothing the player has let go, and nothing while the pointer is free |
| login and connection | compression and cipher modes, bytes read ahead, the deadline | handshake, encryption, compression, success, disconnect, reads, waits, writes | modes switch in the middle of a stream that is read ahead | each frame is read in the modes it was written in; the login settles |
| play session | position reported, sprint and sneak as told, taps, abilities, slot, death | tick, keys, slot, respawn request, correction, abilities, death, respawn, Join Game | both ends decide on the same copies while packets cross; a respawn replaces the player on one end first | what the session takes the server to know, the server comes to know; a correction settles |
| digging and placing | aim, dig progress, hit delay, crack, cells ahead of the server's | press, hold, release, look, tick, block change, mode, death, respawn, world | the client breaks and places before the server has agreed | each dig that is started is ended; the cells agree once all is read |
| open window (containers) | slots, cursor, drag, action number; the same at the server | clicks, drags, Set Slot, Window Items, confirm, open, close | a prediction on a stale copy, and its repair | both agree once all is read; a click makes no item |
| player list and scoreboard | list, objectives, scores, slots, teams; the window's copies | packets of each, Join Game, respawn, frame, next server | a membership held twice; reports only on a change | nothing names what is gone; the copies follow what was reported |
| settings | values, dirty flag, deadline, file | launch, slide, toggle, poll, save, exit, crash | a write that fails or is cut short; a debounce that an exit overtakes | a change is saved in the end |
| server list and pings | entries, rows, selection, sub-screen, ping thread, file | refresh, add, edit, move, delete, direct connect, frame | answers by index while the rows move | an answer lands in its own server's row |
| skin worker | requests, last property seen, updates, own fetch | report, fetch, frame, join | answers for what has changed meanwhile | the last property reported is the skin filed |
| asset store and fetch | files, manifest, lock | resolve, download, verify, extract, report | a kill or a second process between two writes; rot | the manifest is true; a run that reports leaves a complete store; a rerun repairs |
| accounts and sign-in | account file, backup, keyring | device code, polls, chain, save, remove, list, resolve | two halves in two places; no lock; kills between | what the launcher has said of an account stands |
| launcher | the data directory | fetch, auth | several processes | those of its parts |
| entities | table by id | spawn, move, mount, remove | mounts that outlive what they name | no entry names what is gone |
| light engine | sky and block light | recompute a region | a closed region with an open border | the fixed point of the definition |
| codecs, mesher geometry, renderer, physics, noise, audio | none that another part depends on | pure functions, I/O | arithmetic | outside the reach of TLC |

The hazards of each, with the line where each bites and the properties that watch
it, are listed in `PROJECT.json` under `hazards`.

## 2. Modules

| module | models |
| --- | --- |
| `MeshQueue` | `mesh_queue.rs`: the dirty set as a value |
| `MeshPipeline` | packets to meshes: session, pool, channels, window; extends `MeshQueue` |
| `ColumnView` | abstract: what a window is promised of a world another thread owns; refined by `MeshPipeline` |
| `SessionLifecycle` | the window and the sessions it opens, one after the other |
| `HeldInput` | capture, screens, held keys |
| `Login` | connection modes, login, reads and waits |
| `PlaySession` | the player at the two ends of a connection |
| `Dig` | digging and placing ahead of the server |
| `SlotClick` | `container.rs`: the game's click machine on a container |
| `Windows` | the open window on both ends of a connection; extends `SlotClick` |
| `Scoreboard` | abstract: the board the packets speak of, each fact held once; refined by `Roster` |
| `Roster` | player list and scoreboard, and the window's copies |
| `Settings` | options and their save on change |
| `ServerList` | the multiplayer screen and the pings of its rows |
| `SkinWorker` | requests and updates of the player list's skins |
| `Client` | composes `Settings`, `ServerList` and `SkinWorker` in the runs and frames of one program |
| `AssetStore` | fetch, verify and extract, by several processes |
| `Accounts` | account file and keyring, sign-in, sign-out and client start, by several processes |
| `Launcher` | composes `AssetStore` and `Accounts` on one data directory |
| `MeshPipelineProofs` | theorems about `MeshQueue` and `MeshPipeline` |
| `SessionProofs` | theorems about `SessionLifecycle` and `PlaySession` |
| `HeldInputProofs`, `LoginProofs`, `DigProofs` | theorems about the module each extends |
| `CopiesProofs` | theorems about `Roster` and `Windows` |
| `ClientProofs` | theorems about `ServerList` and `SkinWorker`, as parts of `Client` |
| `LauncherProofs` | theorems about `AssetStore` and `Accounts`, as parts of `Launcher` |
| `MCMeshPipeline`, `MCPlaySession`, `MCDig`, `MCWindows`, `MCRoster`, `MCClient`, `MCLauncher` | instances for TLC |

### Plan of what is left, in order

1. The unpredicted click modes and the player's own window 0 in `Windows`.
2. `Entities`: the table by id with its mounts and the copies the frame draws.
3. `Light`: the flood fill against a fixed point on a small grid.
4. `VarInt` and the `Ticker`'s arithmetic, as operators against a reference.

## 3. How the models correspond to the code

Each definition that stands for code is listed with its lines in `PROJECT.json`
under `map`. Definitions marked `MUTANT of X` are plausible bugs: X is replaced by
the mutant and the property named for it must then fail.

**`MeshQueue`, `MeshPipeline`.** A column's blocks and light are *stamps*, the
number of the change that last wrote them, and a build is the stamps its snapshot
copied, of the column and of the neighbours its collar reads; the geometry of a
mesh is left out. `queue` is the struct of `mesh_queue.rs` (dirty list, states by
column, last generation) and each operator one method. `pc` is where the session
thread stands: reading a packet, pumping (spawn up to `PENDING_JOBS_CAP`, drain),
marking columns after F3+A, or finishing after the stream's end, where
`finish_meshes` races a deadline. A pool job finishes at any time, in any order.
The window's frame drains the channel to its end. Chunk load, unload, bulk, block
change, respawn elsewhere and a second Join Game are one action each and mark what
the arm marks, in its order. The grid is any finite set of columns: `Orthogonal`
and `Diagonal` give the neighbours.

**`ColumnView`.** What the window has been told of a column changes only to what
the column is at that moment, or is dropped when the column is gone. The refinement
mapping (`View` in `MeshPipeline`) takes the blocks a build of the present world
would have for `current`, the channel folded onto the window for `told`, the
window's meshes for `shown`.

**`SessionLifecycle`.** One action per handler that reports something the window
copies: death, respawn (the same world or another), teleport, bed, wake, a column,
a sign, a window. `link` is the receiver the window holds; a session that is left
goes on reporting to nobody, as `report` does. `Frame` is `draw`'s drain and fold:
all events, then the end if the channel is closed. A world is the pair of a session
and its number there.

**`HeldInput`.** `down` is the keyboard and mouse as they are, `window` the capture,
the screens and the chat, `session` the held keys and the attack button as drained
from the inputs. A gesture is a whole window event with all the messages it sends;
a pass of the session drains every input, then a packet or a tick. The window hears
of a death or of a server's window a frame later. A grab may be refused by the
window system. `slipped` is a history of the pause defect (section 5), so that the
other properties can be stated for everything else.

**`Login`.** A frame is a record of its packet and of the layers it was written in;
it arrives in two halves, so that reads can cut it anywhere, and `Fill` deciphers
with the cipher in force at the read, as `conn.rs` does. `client` is the thread:
`run_login`, then the play loop with its wait under a deadline and its reads
without. The server and the session service are external and may end the link at
any step.

**`SlotClick`, `Windows`.** `SlotClick` has the click machine of `container.rs`,
that is, the port of the game's own, run by the creative screen. `Windows` has the
second copy of it, `windows.rs`'s `predict_*`, run before a click is sent, and the
exchange: click with its number and echo, confirm, resync, acknowledgement, Set
Slot, open, close. The server is external: it runs `SlotClick`, accepts a click
whose echo is what its own click answered, and otherwise sends the window whole and
is deaf until the rejection is acknowledged. A drag is several clicks sent at the
release of the button, its slots covered in any order; the session may read packets
between them. A use of a block carries the number of the window it will open. Kinds stand for
item, damage and tag; every kind stacks to the same cap (`BASE_MAX_STACK_SIZE`, the
only one `windows.rs` reads). `sent` and `apart` are history: they record what the
exchange itself cannot see, so that agreement can be claimed of everything else:
a click sent between a resync's parts, a slot the client does not hold (`beyond`),
a resync or a change between the clicks of a drag, and a change that crossed a
click the server then accepted.

**`PlaySession`.** `client` and `server` are the two ends, `toServer` and `toClient`
the packets between them. A tick is `walking_report` after the edges of the sneak
and the sprint, with the double taps of the sprint and the flight; what moves a
player (physics) is a step to any position, the report's epsilon is kept. The
client's `told` is what the code calls the last sent flags; a respawn resets it, and
the code's order of the resets is the model's. Corrections carry their place,
absolute or relative, and are confirmed by their echo; until then the server holds
them in `pending` and may repeat them, as the game's server does. An edge carries
the life of the player it was sent in, because a server that has replaced the player
applies an old edge to the new one. A behaviour is about one of six scenarios, each
about one copy with the deaths and respawns around it: copies do not interact, and
their product is out of reach. `crossed` is history: the copies both ends have
decided on at the same time.

**`Dig`.** The player looks along a line of cells; the aim is the first that is not
air within reach. `dig` is the struct of `interaction.rs`, with its progress, delay
and stages, and a tick is one call of `dig_step` with the placement. A break or a
placement changes the session's own cells at once; the server makes the same change
and says so, or puts the cell back. `open` holds the starts that need an end, `crack`
the cracks the window has been told of. `ghosts` is history: cells a creative break
took from the session alone because the server, not yet in that mode or already out
of it, reads the packet as the start of a slow dig.

**`Settings`, `ServerList`, `SkinWorker`, `Client`.** A run of the program is
launched, with or without a view distance on the command line, and exits or is
killed; a frame polls the debounced writer, files the skins and applies the pings,
in that order. A save is one step that succeeds, fails, or is cut short by a kill,
which leaves the old file or the new (written beside it and renamed). `touched` and
`failed` are history. The ping thread answers the rows of its refresh in order by
their index and sends into the channel of that refresh; `shifted` is history: a
delete has moved rows under it. The worker takes one request at a time and
remembers the last property of each player. A behaviour spends its changes on one of
the three parts, all of which keep stepping; the parts share the run, the frame and
the session, and nothing else.

**`AssetStore`.** A run takes the lock, resolves the version document and the index,
fetches each object and the jar, and extracts: one action per file, since each is
written beside its name and renamed. Between any two a run may fail or be killed, a
file may rot, the version may be published anew, and a second process may start. A
file is the revision it belongs to; `Extract` removes the manifest before the first
file, `WriteManifest` writes it after the last. `guard` is what `check_jar_descriptor`
lets pass: every revision, or the pinned one alone if the version is 1.8.9.
`disturbed` is history: something has rotted since the run began.

The stored version document is the one file taken without a hash. `flawed` says that
it has rotted and still parses, names its version and passes the guard: a run that
takes it may end at the index or at the jar, as may every later one, or get through
when what rotted is nothing it uses. So `document = rev` in `Complete` speaks of what
a run uses of the document, not of its bytes. A run puts right whatever a kill, an
error or a noticed rot has left, and `BeyondRepair` names the rest, which `RunsRepair`
leaves out: a flawed document; a revision the guard refuses, when no document that
passes is stored; an object or the jar that cannot be read, for a failure to read
proves nothing of the bytes.

**`Accounts`.** A sign-in polls, goes through the chain, writes the secret half to the
keyring, then reads `accounts.json` and renames the new file over it; a sign-out
removes in the same order; `status`, a sign-out's lookup and the client's `resolve`
read. Each of those is an action, and nothing locks the file, so another process may
step between any two. Whoever reads a file that does not parse renames it to the
backup; that rename is a step of its own, for it takes what lies there by then. An
error ends a command where it stands, as a kill does, the listing reads excepted,
which take an error for an empty file. The lifetime of the code, the interval and its
bump are scaled; that the service never asks for an interval of zero is an assumption
(`PollAssumption`), without which the waits need not add up. Three things are history:
`said`, what the launcher last reported; `apart`, accounts whose halves a failure, an
overlap or a bad file has parted since; and `clashed`, that two commands stood between
the halves of one account at once.

**`Launcher`.** The two commands share the directory and no file, so a behaviour uses
one of them.

**`Scoreboard`, `Roster`.** A packet is one step: it changes the tables and reports
those that changed, whole. The code holds a membership twice (`players` of a team,
`member_of` by entry), and so does `Roster`; `Scoreboard` holds it once. The
refinement takes the teams' players for the membership. The window's copies are
replaced by what it drains; `told` is history: the tables this session has reported.

## 4. Runs

Bounds are constants of the modules, named in the guards.

| run | instance | checks |
| --- | --- | --- |
| `mesh_corner` | three columns in an L (one pair diagonal), bulk packets over any two, pump cap 2, two changes | `NoChangeLost`, `CleanStopReportsAll` |
| `mesh_view` | two neighbouring columns, two changes, a second Join Game, pump cap 1 | `AcceptedIsCurrent`, `WindowCatchesUp`, `ViewHolds` (the pipeline implements `ColumnView`) |
| `sessions` | two servers one after the other, two play packets, and a wake after each bed | `CopiesAgree`, `ScreensMatchLink`, `DeathIsShown`, `EndIsShown` |
| `held_input` | one key and the attack button, five gestures, three packets | `KeysAreDown` |
| `login` | online or offline server, two play packets each way | `FramesReadable`, `JoinedBeforeResponse`, `PacketsArrive`, `LoginSettles` |
| `play` | six scenarios, four positions, four inputs, two packets, two in flight | `FlagsAgree`, `PoseAgrees`, `DecisionsAgree`, `KeyIsTold`, `CorrectionSettles` |
| `dig` | two cells of a plant, a stone or bedrock, three inputs, one packet | `DigsClose`, `CrackIsOfDig`, `WorldsSettle`, `HoldingBreaks` |
| `windows` | a chest of two slots, two gestures, two openings, one change or close by the server | `SettledAgrees`, `ClicksCreateNothing`, `LockLifts` |
| `client` | a stored list of two servers, two players, two properties, two changes of one part | `RowsExist`, `AnswersFindTheirRow`, `SkinsSettle`, `SliderIsSaved`, `PingsSettle` |
| `button_saved` | the same | `ButtonIsSaved`: violated, see section 5 |
| `launcher` | two processes; two revisions that share an object and a file, with the guard and without, three events; or two accounts, one fault | `ManifestIsTrue`, `CompletedIsComplete`, `KeptAsIs`, `RunsRepair`, `StandsAsSaid`, `PollsEnd` |
| `roster` | two players, two teams, an objective in two slots, two servers, three packets of each; players and teams are symmetric | `BoardConsistent`, `CopiesFollow`, `BoardHolds` (the tables implement `Scoreboard`) |

The modules state further properties that hold on the same instances: each module's
type, `DirtyListExact` and `RunningHasJob` (in `MeshPair.cfg`, with a change more; they
are also proved, section 6),
`ShownNeverRegresses`, `DeadHoldsNothing`, `ServerReadsAll`, `DeliveredInOrder`,
`ReadsHaveNoDeadline`, `UnchangedRunLeavesFile`.

Why the bounds are enough for what they claim:

- *mesh*: a stale build needs a change while a job is out (two changes); a second
  column is a neighbour's collar, a third the diagonal of the recompute region. A cap
  of one makes a column wait behind another one through a whole pump, which is where a
  stale completion finds it waiting. The bulk packet and the rejoin are in runs of
  their own because together they leave the reach of an ordinary machine. `MeshPair`
  has the third change, for a stale build that answers to a running newer job.
- *sessions*: an event of one session that reaches the next needs two; a death and
  what follows it two packets. Wakes are not counted. The sleep fade of 110 ticks is
  scaled to two.
- *held input*: the shortest faults found need four gestures and two packets; one
  key stands for each, as keys do not interact but for the jump.
- *login*: at most four login packets of the server, and one play packet each way
  behind them to be read ahead; the second meets a deadline the first has set.
- *play*: a press, a release and a press again around a death or a respawn, with both
  packets of the server in flight, or a correction that meets a second one; a position
  inside the epsilon, on it and beyond it. The double taps' windows of seven ticks are
  scaled to three, which still tell a tap in time from one too late.
- *dig*: the shortest fault found needs a press, a release and a mode or a refusal;
  a second cell is what an aim moves on to. A stone takes two ticks, the hit delay one.
- *windows*: the second gesture is predicted before the first is answered; the
  change crosses both; the second opening replaces a window that clicks are still
  on their way to. The slots hold full stacks of two kinds, so clicks lift, halve,
  place, merge, swap, throw, drop, split and fill to the cap of three.
- *client*: an answer for a moved row needs a list of two and one move or delete; a
  second change is what a debounce that is armed meets; a property that changes and
  changes back needs two reports.
- *launcher*: two revisions that share an object and a file are a store that is half
  one and half the other; three events are a kill or an error, a rot and a publication
  in one history (four were checked too, and show no more). One account is both processes', one a third party's: the first shows
  overlaps on one account, the second an account that another command's write carries
  with it. A second fault adds no case to a store with two accounts: what the first
  parts is `apart` until a command of that account has run.
- *roster*: a membership that moves needs two teams, one that is taken over two
  players; a slot that survives its objective needs one to remove and one to show
  again; a table of the last server needs a second.

Deadlock is checked in `client` and `launcher`, where something can always go on; in
the others the session ends, the player stops or the bounds run out, and it is off.

### Fairness

- `MeshPipeline`: the loop's read times out after `MESH_TICK`, so `Idle`, the pump
  and a running rebuild are weakly fair, as are the pool's threads and the frame.
  Packets, the end and the deadline are not promised.
- `SessionLifecycle`: frames, ticks and the last message of a thread that left its
  loop. Nothing of the server or of the player.
- `Login`: the client's thread, delivery, the answer of the join's request and the
  server's own steps. Without the last, a login would rest on a server that says
  nothing, which the code has no timeout for.
- `PlaySession`, `Dig`: the session ticks and reads, the server reads what it is
  sent and, in `PlaySession`, repeats a correction that is not confirmed. Inputs and
  the server's decisions are not promised.
- `Windows`: the session reads its inputs and packets, the server what it is sent.
- `Client`: frames, which the window asks for whenever it is idle, the passing of the
  debounce, and the ping thread, whose attempts all end by one deadline. The skin
  worker is promised nothing: its property is about the quiet states.
- `Launcher`: a process that runs goes on, as every request has a timeout and no step
  waits for another process (a run that does not get the lock ends). The user's
  approval, the issue of commands and the faults are not promised.
- `HeldInput` and `Roster` state safety and refinement only.

## 5. Where the code and its comments part

One is a listed run:

| run | property | what happens |
| --- | --- | --- |
| `button_saved` | `ButtonIsSaved` | an immediate write only writes what is dirty, and only the sliders make the settings dirty: what a button or a key changed is not in the file, not at the exit either |

Of the same save, the comment on `run_multi_action` says that the direct form's address
is written on every close (`main.rs:4811-4815`); its cancel button does, Escape closes
the form without it (`main.rs:3116-3128`, `OnList`).

The others are kept beside the runs as configurations, with their properties stated
in the modules; `tlc -config X.cfg M` shows each (where a configuration names several,
one at a time):

| configuration, module | property | what happens |
| --- | --- | --- |
| `SessionFindings`, `SessionLifecycle` | `ServerReasonShown` | the thread's last "session thread ended" replaces the server's reason when both are folded in one frame |
| | `LeftSessionsEnd` | a session the player left plays on, answering keepalives |
| | `SleepAgrees`, `CoverDrops` | a respawn leaves the window asleep; a wake folded before the first tick of a sleep leaves the cover up |
| | `MeshesOfThisSession`, `BoardsOfThisSession` | meshes and sign texts of one session are shown in the next |
| `HeldInputFindings`, `HeldInput` | `AttackIsDown` | the attack button stays held after the pointer is let go |
| | `PauseFreesThePointer` | Escape in play opens the pause menu with the pointer locked and the keys held |
| | `RequestsAreAsked` | a press made in play, in the frames before the window hears of the death, asks for the respawn |
| | `ScreensFreeThePointer` | a screen is closed over another one and the pointer is grabbed under what is left |
| `LoginFindings`, `Login` | `ClosedEndsQuietly` | a server that closes while the client is about to write ends the session with an error |
| | `CipheredFromThen` | the clear Disconnect of a server that never had the encryption response is read through the cipher |
| `PlayFindings`, `MCPlaySession` | `LastWordStands` | a flight or a slot both ends decide on at once stays different at the two |
| | `ReleaseIsTold` | a sneak edge that crosses a respawn sticks to the new player at the server: the mirror was reset, so the release is no edge |
| | `FlagsTold` | a second Join Game replaces the server's player and resets no mirror: a key held across it is not told |
| `DigFindings`, `MCDig` | `FinishWasStarted` | a block that reappears while the dig of the next one runs is finished without a start |
| | `CracksAreOwn` | a second Join Game gives the player another entity id, and the crack drawn under the old one stays |
| `ClientFindings`, `MCClient` | `RowShowsItsServer`, `RowsFillIn` | a delete during a refresh shifts the rows under its answers: one shows another server's answer, the last is left pinging |
| | `FlagStaysOut` | the command line's view distance is saved with the next change of anything else |
| | `DirtyIsArmed` | a save that failed is not tried again until the next change or the exit |
| | `PlainShowsDefault` | a player whose property is withdrawn keeps the old skin |
| | `OwnSkinStands` | a failed fetch of the listed property replaces the own skin by the default |
| `RosterFindings`, `MCRoster` | `TablesOfThisSession` | the tab list and the sidebar of the server that was left are drawn on the next until it sends its own |
| `LauncherFindings`, `MCLauncher` | `HalvesTogether` | two sign-ins at once: the file written last has undone the other's record, whose secret stays in the keyring |
| | `BackupIsBad` | a good file another process has just written is renamed over the backup in the place of the bad one that was read |
| | `SignedOutIsGone` | a sign-in killed between its halves leaves a refresh token that no sign-out can find: the lookup goes by the record |
| `WindowsFindings`, `MCWindows` | `DragsSettle` | a drag over a slot the server has changed meanwhile overwrites it for good: `windows.rs` lacks the per-slot guard its twin in `container.rs` has |
| | `EverySlotSettles` | a click on the player's half of a chest is not predicted; when the server accepts it the cursor stays wrong |
| `MeshFindings`, `MCMeshPipeline` | `NoLightLost` | a relight does not rebuild the columns beyond its region whose collar reads the light it rewrote |
| | `NoGhostMesh` | a second Join Game leaves the old world's meshes in the window |
| | `GenerationNamesOneJob` | a stale completion of a running column puts it back under the running job's own generation, which is then handed out twice (harmless to what is shown: `AcceptedIsCurrent` holds) |

## 6. Proofs

Every safety property the passing runs check is proved for all values of the
constants; liveness stays with TLC. Each module of theorems has an inductive invariant,
one lemma for each action that says the action keeps it, and a theorem
`Invariance` (`Safety`, `PlayInvariance`) that says the specification implies it.

| module | theorem | says |
| --- | --- | --- |
| `MeshPipelineProofs` | `TypeCorrect` | `Spec => []TypeOK` |
| | `LateBuildsRefused` | `AcceptedIsCurrent`: a build the queue would accept was taken from the blocks that stand now, in the column and in its collar |
| | `ChangesReachTheChannel` | `NoChangeLost`: a loaded column is outstanding, or the window shows it as it is, or will when it has folded what is on its way |
| | `NoColumnIsStuck` | `DirtyListExact` and `RunningHasJob`: the dirty list holds exactly the waiting columns, each once, and a running column has its job in the pool or its build in the channel until the session ends |
| | `LastMeshesAreReported` | `CleanStopReportsAll`: a session that finished within its deadline has reported every loaded column as it is |
| | `PipelineIsAView` | initial states and steps of `MeshPipeline` are those of `ColumnView`, or stutter |
| `SessionProofs` | `ScreensFollowTheLink` | `ScreensMatchLink`: the screen is one of the title's exactly without a session |
| | `CopiesDoAgree` | `CopiesAgree`: a window that has folded all is dead exactly as its session is, and waits for terrain only while it does |
| | `FlagsDoAgree` | `FlagsAgree`: the sneak and the sprint the server has, or will have read, are those the session takes as told, whatever deaths, respawns and worlds came between, second joins excepted |
| | `PosesDoAgree` | `PoseAgrees`: once all is read and confirmed, the server has the player where it is, but for the epsilon |
| | `DecisionsDoAgree` | `DecisionsAgree`: once all is read, slot and flight are the same at both ends, unless both decided at once |
| `HeldInputProofs` | `HeldKeysAreDown` | `KeysAreDown`: the session holds nothing the player has let go |
| `LoginProofs` | `FramesAreReadable` | `FramesReadable`: the frame to be read next was written in the modes it will be read in, a clear reason for a refusal excepted |
| | `JoinsComeFirst` | `JoinedBeforeResponse`: a server that has the encryption response finds the join at the session service |
| `DigProofs` | `DigsDoClose` | `DigsClose`: a start that needs an end is of the dig in progress |
| | `CracksFollow` | `CrackIsOfDig`: the player's crack is on the cell of the dig in progress |
| | `WorldsDoSettle` | `WorldsSettle`: once all is read the cells agree, ghosts excepted |
| `CopiesProofs` | `BoardsAreConsistent` | `BoardConsistent`: the two holdings of a membership agree, and nothing names what is gone |
| | `WindowFollows` | `CopiesFollow`: the window's copies, once it has drained, are what this session last reported |
| | `BoardImplements` | `Spec => BoardHolds`: the tables implement `Scoreboard` |
| | `PredictionIsTheClick` | the two click machines do the same on every container and click, an undercut drag excepted |
| | `WindowsTypeCorrect` | `WindowSpec => []WindowTypeOK` |
| | `ClicksCreate` | `ClicksCreateNothing`, an action property: no click makes an item |
| | `WindowsSettle` | `SettledAgrees`: once nothing is on its way the window shows what the server holds, but for what the exchange cannot see (`apart`) |
| `ClientProofs` | `RowsDoExist` | `RowsExist`: the selection and the sub-screens name rows there are |
| | `AnswersFindRows` | `AnswersFindTheirRow`: an answer lands in the row of its own server, where no delete shifted them |
| | `SkinsDoSettle` | `SkinsSettle`: the skin filed at rest is that of the last property reported |
| `LauncherProofs` | `ManifestsAreTrue` | `ManifestIsTrue`: every file a manifest lists is of its jar, or has rotted |
| | `ReportsAreComplete` | `CompletedIsComplete`: a run that comes to its report undisturbed leaves the whole of its revision |
| | `RunsKeep` | `KeptAsIs`, an action property: a run removes no object it did not find wrong, and a dry run changes nothing |
| | `AccountsStand` | `StandsAsSaid`: an account has both its halves if the launcher last said it is signed in, else neither, but for those parted (`apart`) or between their halves |

### From what

The named assumptions of the modules, and no more. They are facts of the code, not
of an instance: neighbours are other columns and neighbours mutually
(`SymmetryAssumption`, from the code's four offsets; the grid is finite, of any
size, in `GeometryAssumption`); a placeholder is no value (`NothingAssumption`,
`RevisionsAssumption`); the pinned jar is one of the revisions (`PinnedAssumption`); constants have their types (`BoundsAssumption` of four
modules, `ListsAssumption`, `CommandsAssumption`, `StoredAssumption`,
`PlayersAssumption`, `DigAssumption`, both `PlayAssumption`s); a jump key exists
(`KeysAssumption`); the sign-in service asks for intervals above zero
(`PollAssumption`). Every bound stays a parameter: the theorems hold for any number
of changes, packets, gestures, sessions and faults.

### Along which argument

**The pipeline.** `AcceptedIsCurrent` is not inductive. A job whose generation is
*above* the last one the queue handed out would be refused today and accepted
tomorrow, when the queue reaches that number. So

    IInv == TypeOK /\ Bounded(queue) /\ JobsBounded /\ AcceptedIsCurrent

adds that every generation in the queue (`Bounded`) and in every job
(`JobsBounded`) is at most the last one handed out. A mark gives each column it
touches a generation above all of those, so every job out for it is refused from
then on (`MarkDirtyMoves` and its kin, folded into `Moves(q, r, S)`: r follows q by
marking at least the columns of S that stay outstanding, and nothing else); and each
handler marks every loaded column whose own blocks or collar it changes
(`UnmarkedBuild`), so a column that was not marked would be built as before
(`AcceptedPreserved`). Symmetry of the neighbours is what makes "the columns whose
collar reads c" and "the neighbours of c", which the code marks, the same set.

`SafeInv` adds `Kept`: `NoChangeLost` itself, and what holds at the seams where a
mark could be missed: no column waits for its rebuild mark outside a rebuild, nothing
is loaded before a world is joined, and a session that is over either holds no
column or has nothing outstanding. `NoChangeLost` speaks of what the window will show
when it has folded its channel; `Caught...`, `Silent...` and `Spoken...` say how that
fold moves when an event is sent and when a frame drains.

`NoColumnIsStuck` does without `Kept`: `Places` adds its two facts to `IInv`. A mark
appends a column to the list only if it does not wait already, a spawn takes the head
and makes it run, a job leaves the pool only for the channel, and the channel only for
a completion, after which its column does not run.

The refinement of `ColumnView` is by cases on the step: a step that changes blocks
may or may not change the current build of each column, which is what the abstract
world may do; a drain tells, and by `AcceptedIsCurrent` tells the current build;
unloads retract; a frame shows.

**The window's copies.** A window behind its channel agrees with nothing, so the
invariant is about the window *run ahead*: `Folded(window, channel[link])`, what it
will be when it has folded the events on their way, is dead and waits for terrain as
the session does. A handler appends what it changed (`FoldedAppend`), a frame folds
everything. `Roster` is the same with `Observed`, the last table of a kind on the
way; that every board on its way is consistent makes the window's consistent too.

**Windows.** The two click machines are compared mode by mode. They part in one
place: `predict_click` gives a covered slot its share at the end of a drag whatever
the slot holds by now, its twin only if it still takes the stack (`Undercut`). `AddedIs`
says what a drag adds in all, by the sums below; with it the cursor pays for what the
slots gain, which is the hard case of `ClicksCreateNothing`. The other clicks move or
throw between one slot and the cursor, and a sum changes by what one of its terms
does (`TotalOf...`). The typing invariant says what may be in each queue, down to the
clicks (`ToServer`, `ToClient`, `DragsAreClicks`): a click that is read twice late is
still a click of a slot there is.

`SettledAgrees` is far from inductive: it says nothing while anything is on its way.
Its invariant is about the two ends *run ahead*: what the session comes to when it has
read `toClient` (`Read`, folded by `ReadThrough`) and what the server comes to when it
has run the clicks of `toServer`, every one of which it accepts (`Hear`,
`HeardThrough`). `EndsAgree` says that if the session comes to the window that is
served, and no click that will be run was `Crossed` by a change, the two show the same
in every slot of the layout, and each such click was `Predicted` on what it will be
run on. It rests on three smaller invariants. `Numbers`: windows are numbered upwards,
so what is about an older one cannot be mistaken for the one served. `Exchange`: a
server that has rejected a click has a rejection on its way with the window whole
behind it (`RejectionComes`), or hears its acknowledgement next (`ApologyComes`), and
a window just opened is sent whole before anything of it is clicked (`Fresh`).
`ReadsBehind`: a click has read no more changes than were sent, so one that lags is
found by `Crossed` for good. Four arguments carry the steps:

- a click looks at and touches its own slots and the cursor (`ClickAgrees`), so the
  prediction at one end and the run at the other, which `PredictionIsTheClick` says is
  the same click, lead from agreement to agreement (`LiveClick`);
- a change by the server of a slot that no click in flight touches can be made before
  or after them (`BesideHeard`); if one touches it, that click is `Crossed`, and
  nothing is claimed until it has been run;
- a rejecting server runs none of the clicks behind the one it rejected (`DeafEnds`)
  and the session, whatever it has predicted meanwhile, comes to the window whole,
  which leaves nothing of what was shown before (`Overwritten`);
- a drag the prediction gives a share its twin refuses is noted when it arises
  (`UndercutNoted`), and with it the claim ends.

**Held input.** Run ahead again, the other way: the session that has drained its
`inputs` holds only what is down, and nothing with the pointer free. A death the
window has not heard of yet is in between: `Ahead` says that the deaths and respawns
among the events lead from what the window knows to what the session is.

**The player at two ends.** `PlayInv` follows each copy through the packets in
flight. `LivesAgree`: the respawns on their way lead, one life after the other, from the life
the session is in to the server's. `Paired`: a respawn has its position right behind.
The others say of a copy what it *comes to* once the packets are read (`Comes`: the
last of its kind on the way carries the value, or there is none and the reader has
it). `MirrorsAgree`: while both ends are in one life, the flags the server comes to
are those the session takes as told; a life the session does not know of yet has
heard none. `PosesAgree`: with no placement left to read the session has reported
about where it is, and the server comes to that report. `SlotsAgree`, `FlightsAgree`:
the packets of a copy on their way are all of one end, and the other comes to its
value, unless two decisions crossed. One lemma says how each grows with an
append (`...Concat`), shrinks with a read (`...Tail`) and stays when a step sends
nothing of its kind (`...Stay`).

**The login.** What can be on the way at each state of the server (`RequestInv`) and
in which modes (`ModeInv`): frames held by the client's buffer have been deciphered
with the key they were written with (`HeldRight`), those in the stream will be
(`StreamRight`), and the compression changes exactly behind the packet that
announces it (`Packed`). It rests on the server sending nothing between its request
and the client's response but a Disconnect, which is why the clear Disconnect of
section 5 is left out of the property by `Clear`.

**Digging.** `Agrees(c)` of each cell that is no ghost: either the changes on their
way will make the session's cell the server's (`Shows`), or a packet on its way to
the server is sure to bring an answer about it (`Assured`). `DigOK` ties the open
digs, the crack and the dig in progress; `Reloads` says that a chunk comes next
whenever the session has emptied its cells, and right behind what will empty them. A tick is a chain of operators on the
hand, each of which keeps what the invariant says of a hand (`Good`), so that only
their composition is left to do (`...Keeps`).

**The client's lists.** `ListSound`: rows, entries, the selection and the pings in
flight have indices that fit each other. `SkinsInv`: for each player, the last update
on its way or filed is of the property the worker last saw (`SeenStands`), and the
requests behind it lead to the one last reported (`Answered`).

**The launcher.** `StoreInv`: at most one run has the lock (`Alone`), the manifest is
true, and a run at a place of its lists has left what lies before it as it should be
(`Fit`), unless something rotted since it began. `AccountsInv`: a command at a place
holds what it has read on the way there (`Sensible`), and one that is between the
halves of an account alone has made the first of them (`HalfMade`). The two share `events` and nothing else, so the theorem
of the composition is the two side by side.

**Recursion.** Folds over packets, events and inputs are recursive functions bound in
a LET (`f[n \in ...]`), and induction over their length is a lemma, `Induct`, on a
set of numbers: it has 0 and the successor of each member, so it has all, since the
least number outside would have a predecessor inside
(`WellFoundedInduction`'s `WFMin`).

### What stays with TLC

- Liveness: `WindowCatchesUp`, `DeathIsShown`, `EndIsShown`, `PacketsArrive`,
  `LoginSettles`, `KeyIsTold`, `CorrectionSettles`, `HoldingBreaks`, `LockLifts`,
  `SliderIsSaved`, `PingsSettle`, `RunsRepair`, `PollsEnd`, and of `ViewHolds` the
  fairness of the abstract frame. Fairness and `ENABLED` are out of the prover's
  reach.

## 7. What is not modelled

`PROJECT.json` lists every component with its status. Codecs, asset decoding, mesher
geometry, the renderer and its vertex tables, scene building, physics, block
behaviour, noise, audio mixing and widget layout are pure functions over bytes,
arrays or floating-point numbers, without state another thread sees; their unit tests
are the right instrument. They are most of the repository's lines, so the share of
lines the models stand for stays small however much of the control is modelled.
Entities, the light engine and the codecs' integers are in the plan above.

Within modelled parts:

- `HeldInput`: mouse look, wheel and hotbar digits.
- `Login`: the bytes of a frame and of the keys.
- `SessionLifecycle`: every event the window keeps no copy of.
- `PlaySession`: physics, vehicles, keepalive and the ticker that decides how many
  ticks a pass runs.
- `Dig`: entities under the aim, the use of items, the facing of a placed block,
  other players' cracks.
- `Windows`: the modes sent without a prediction (shift, number keys, pick, gather),
  window properties, the player's own window 0 and the caps of single items.
- `Roster`: gamemode and latency, sorting, colours and drawing.
- `Settings`: the session-only run of a client that has no place for its options (an
  empty path), which saves nothing.
- `Client`: where a setting is pushed to; names and icons of a server; capes and the
  disk cache of skins; the cap on the list's length, which only its load applies; a
  second client that stages its options under the same name.
- `AssetStore`: the space check, rot that keeps an extracted file's size, the
  temporary files a kill leaves behind. Revisions are told apart by their jars: a
  version published anew with the same jar and another index is left out.
- `Accounts`: names of accounts, the refresh token a silent sign-in rotates and the
  client does not store, the session join (a step of `Login`).
- Power loss: a rename that returned is taken to have happened, in every module.

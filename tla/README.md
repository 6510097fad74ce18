# DALI dimmer firmware: specifications, checks and proofs

The program is the firmware of a mains dimmer on an ESP32: it listens to a DALI
line, takes arc power and OFF commands from it, fades a lamp by moving the delay
at which a triac is fired after each zero crossing, keeps its level in a file,
and lights the lamp at a failure level when the line loses its supply.  There
are five tasks and callbacks on two cores, three interrupt sources, an event
loop, and not one lock: what can go wrong lies between the steps.

All paths below are relative to the repository (`src/`).

## 1. Inventory

`main/CMakeLists.txt` builds `comp/triac_dim.cpp`, `comp/dali.cpp`,
`comp/storage.cpp` and `main.cpp` (which includes `tool/config.cpp`).
Everything else under `main/` is not built.

| component | state | operations | runs in |
|---|---|---|---|
| DALI driver `comp/dali.cpp` | `start_bit`, `cont`, `Olcum_Ready`, `hat_error`, `gelen`, the semaphore; the statics of `int_handler` and `end_clock` | edge interrupt, tick, hand-over, answer, measurement of the line, `send` | GPIO interrupt, esp_timer task, `sem_task`, `adc_task` |
| Triac dimmer `comp/triac_dim.cpp` | `var` (levels, limits, fade rate, addresses; persisted), `limit_error`, `fade_running`, `fade_param`, `raw_pwm_time` | `init`, `start`, `direct_power`, `direct_arc_power`, `command_*`, `fade_task`, zero crossing | the caller, fade tasks, GPIO interrupt, GP timer |
| Application `main.cpp` | `busy`, `dali_hat_yk`, `dali_hat_status` | `dali_callback` (dispatch), `dimmer_handler`, `dali_handler`, `app_main` | `sem_task`, default event loop, main task |
| Storage `comp/storage.cpp` | SPIFFS files | `file_control`, `file_create`, `write_file`, `read_file`, `list` with `fnmatch` | the caller |
| Boot configuration `tool/config.cpp` | `GlobalConfig`, `NetworkConfig` | `config`, `default_config`, `network_default_config` | main task |
| Legacy dimmer `dimmer.cpp` (not built) | the whole DALI control gear: levels, scenes, groups, addresses, kept in NVS; `fade_running`, `fade_param` | the operations on the lamp, `command_config`, `command_query`, `special_command`, `nvm_variable_process`, `fade_task` | the caller, fade tasks |
| Older driver `comp/dalie.cpp` (not built) | as the driver | replaced by `dali.cpp` | - |
| Device list `eski_prg/cihazlar.cpp`, ESP-NOW `eski_prg/now.cpp` (not built) | linked list of devices, peers | add, remove, find, `garbage`; send and receive callbacks | - |

**Interactions.**  `int_handler` starts the clock whose callback `end_clock`
samples the line; `end_clock` fills `gelen` and gives a binary semaphore;
`sem_task` takes it, calls `dali_callback` with a pointer to `gelen`, may answer
(`backword_yesno`) and clears `gelen`.  `dali_callback` calls one operation of the dimmer, which may
create a `fade_task` and posts `DIMMER_BUSY_START`; the task posts
`DIMMER_BUSY_END`.  `adc_task` measures the line every few hundred milliseconds
and posts `DALI_HAT_ERROR` or `DALI_HAT_NORMAL`; the event loop runs
`dali_handler`, which calls `direct_power`, beside any fade.

**Hard behaviours.**  Four parties switch one interrupt on and off.  `gelen`
has one place.  The decoder keeps statics from frame to frame.
`Olcum_Ready` is asked once for three measurements over 200 ms.  `fade_running`
is asked in one step and set in another; `fade_param` is shared by the fade that
runs and the one that is planned.  An END can overtake its START.  Posts wait
(`portMAX_DELAY`) or give up (timeout 0).  The mains may fail between the change
of a level and the write of the file.  Sums of levels are kept in a `uint8_t`.
`PROJECT.json` lists each hazard at its line.

**What makes each part correct.**  *Driver*: a frame sent to a ready receiver
is delivered once, bit by bit; garbage leaves the decoder in phase; the receiver
never stays deaf; a loss of the supply is reported, and only a loss.
*Dimmer*: the delay stays inside the half wave; the level stays inside its
limits; one fade at a time; when all is quiet the lamp shines at the level
reported; a fade and a command end.  *Application*: `busy` and the failure flag
follow the dimmer and the line; a frame reaches exactly the units it addresses.
*Storage and boot*: after a mains failure the dimmer comes back at its last
level, whatever write was interrupted.  *Legacy dimmer*: what the unit was told
it answers, also after a failure between any two of its writes.  The code does
not keep all of this; what a property leaves out is named in its premise and at the
hazard concerned, and sections 2 and 3 say it again.

## 2. Modules

| module | models | proofs |
|---|---|---|
| `DaliReceiver` | `comp/dali.cpp`, with the line and another unit as environment | `DaliReceiverProofs`, `DaliMailboxProofs` |
| `FrameMailbox` | abstract: what the driver promises the application about packages | `FrameMailboxProofs` |
| `TriacLevels` | the arithmetic of `comp/triac_dim.cpp`, most of which `dimmer.cpp` has too: `raw_level`, `fade_calc`, the step of a fade | `TriacLevelsProofs` |
| `TriacDimmer` | `comp/triac_dim.cpp`, the handlers of `main.cpp`, `write_file` as one step, the event queue | `TriacDimmerProofs`, `TriacQuietProofs` |
| `Storage` | the files of `comp/storage.cpp`, in chunks | in `FirmwareProofs` |
| `NameMatch` | `fnmatch` and `rangematch` of `comp/storage.cpp` | in `FirmwareProofs` |
| `Firmware` | `app_main`, `config.cpp`, `init` and `start` of the dimmer, `dali_callback`; composes `Storage` and `NameMatch` | `FirmwareProofs` |
| `GearMemory`, `GearDimmer` | `dimmer.cpp`: what it keeps; its operations, fades and restart | `GearProofs` |
| `MCDaliReceiver`, `MCTriacDimmer`, `MCFirmware`, `MCGear` | the sets and values the configurations choose from | |

A definition called `X_y` is `X` with a seeded fault (a dropped guard, a missing
reset).  No specification uses it.  Each stands for a bug that could plausibly
be made at that place; put in the place of `X`, it makes a property fail, which
is how we know that the property looks at that code.

### 2.1 DaliReceiver

One step of time is a half bit (`HALF_PERIOD`, 416 us).  A unit that drives the
line is a sequence of the half bits it has still to send (`peer`, `own`); the
line is low when anybody pulls it low or the supply is gone (`hat`).

| action | code |
|---|---|
| `HalfPeriod` | a half bit passes; the line moves, and `int_handler` runs in the same step if rx is enabled |
| `PeerSend`, `CutLine`, `RestoreLine` | the environment |
| `Tick`, `EarlyTick` | `end_clock`, whole; either at the boundary or up to 50 us (`KALIBRASYON`) before it |
| `SemTake`, `ReadAddress`, `ReadData`, `NoReply`, `Clear` | the loop of `sem_task` with `dali_callback` in it, one step for each access to what is shared: `data0` is read at `main.cpp:170`, `data1` behind the log at `main.cpp:197-205` |
| `BackwordBegin`, `ListenBusy`, `ListenFree`, `ReplySent` | `backword_yesno`: disable rx, poll 4 ms, give up or answer, enable rx |
| `AdcCheck`, `AdcRead1..3`, `AdcGood`, `AdcBad` | `adc_task`: ask `Olcum_Ready`, measure up to three times, report |

`count` and `bb` of `end_clock` are incremented and cleared together, so `bb` is
the parity of `count` and has no variable.  The package is its type and its
bits; the placing of the bytes inside `package_t` belongs to the external
`dali_global`.  `delivered`, `handled`, `clean`, `overrun`, `mark`, `sent`,
`frames` and `cuts` are history: no action of the code reads them, except that
`frames` tells `adc_task`'s two waits of 100 ms (longer than any frame, 26.7 ms)
that the frame of the earlier measurement is over.

What is abstracted: a tick is at most 50 us early and never later than its half
bit, so a loaded timer task is not modelled; the polls of 10 us act within
the half bit; the analog filter in front of the ADC is not in the repository, so
a measurement may fall on any half bit; the calibration of the ADC is assumed to
have succeeded (without it every measurement would read as a lost line).
`HandOver` is one step: `end_clock` writes `gelen` in a few stores next to each
other, and each read takes what is there as one package, so a mixture of two
packages is modelled, and a word between two of these stores is not.
`data1` is read once or twice (for the log, then for the operation), `ReadData`
is the read that acts.  `CutAndReply` says whether one behaviour may hold both a
loss of the supply and an answer, and `Measuring` whether `adc_task` measures at
all; without them the runs of the liveness properties stay small.  The two reads
through the pointer are in every run.

`FrameMailbox` says what all this amounts to for the application: a place for
one package and a debt of calls.  `PutInTime` needs the place empty and nothing
owed; `PutLate` may replace the package before it, or be lost, or be put between
the two reads of a call; `ReadAddress` looks at what is there, `ReadData` looks
again and empties the place.  So the address of one package may be obeyed with
the data of another, but only when one came late (`overrun`); as long as none
does, both reads are of the same package (`HandledInOrder`).  `DaliReceiver`
implements it under the mapping `Mailbox`: until the second read the place is
`gelen`, behind it what the next call will be given (nothing, as `Clear` is to
come), `opened` is the address read, and the debt is the semaphore and the state
of `sem_task`.  `GivenOnce` is the specification of the mailbox as a
property of the driver.

### 2.2 TriacLevels and TriacDimmer

`TriacLevels` keeps the code's widths: sums of levels modulo 2^8, the delay of a
running fade modulo 2^16.  `raw_level` computes in `float`; the integer formula
was compared with it for all 256 levels.

| action | code |
|---|---|
| `direct_arc_power`, `command_off`, `command_up`, `command_down`, `command_step_up`, `command_step_down` | the first step of the operation: guards, clamping, `fade_calc`, assignments |
| `CreateTask`, `PostStart`, `UpdateLevel`, `write_file` | what the operation has left, in its order (`cmd`) |
| `FadeCheck` .. `FadePost` | `fade_task`: ask `fade_running`, set it, drive, wait and advance, clear it, post the END |
| `dimmer_handler`, `dali_handler` | the event loop, one event at a time; `direct_power` runs inside `dali_handler` |
| `LineReport` | `adc_task` as seen from here: posts without waiting |
| `PowerCycle` | the mains fail and return: `init` and `start` from the file |

The steps are cut where another task can see or change what is shared:
`fade_running`, `fade_param`, `raw_pwm_time`, `var`, the queue.  Time is left
out; a fade may take arbitrarily long between two steps, which includes every
timing of the code.  `MayCall` lets an operation be called whatever the line is
like: `adc_task` disables rx when it raises the alarm, but `end_clock` may enable
it again, and nothing in `dali_callback` asks.  So an OFF can be carried out after
the loss was handled; `offSince` remembers it, and `LitWithoutLine` excepts that
lamp and no other.  `ActualInLimits` is stated of the operations that are built;
the single steps do leave the limits by one level (`triac_dim.cpp:406`).
`last_actual_level` is not a variable: it is written with each level and read by
no operation that is modelled.  `command_step_up` and `command_step_down` name a
member that is not declared under that name (`actual_level`); they are read as
`var.actual_level`.  The repository has no `sdkconfig`, so ESP-IDF defaults are
assumed (two cores, event queue of 32; `QueueLen` covers every size).

`Prompt` says that a fade task has begun before the next command is called.  The
code relies on it: a new task asks `fade_running` at once, the next frame takes
at least 15 ms to arrive, and `dali_callback` waits 10 ms after each command.
It is a constant: the proofs about the delay do without it, which covers plans
replaced under a running fade; `OneFade` needs it, and says nothing of the window
between the question and the answer (`triac_dim.cpp:211`).

### 2.3 Firmware, Storage and NameMatch

`Firmware` starts where the chip does.  `at` is the place `app_main` has
reached; each file operation is a step of its own, and a write is one step for
each chunk, since newlib hands a long `fwrite` to the file system 128 bytes at a
time.  Two chunks stand for all: the first holds the fields the code looks at
(the flags of the settings; the level, limits, address and groups of the
dimmer), the second the rest.  `Restart` (the mains fail, or the chip restarts
after an abort) may come between any two steps and leaves nothing but the files.

| action | code |
|---|---|
| `ReadConfig`, `default_config`, `WriteConfig`, `CheckConfig` | `config`: for both files, read, fill in, create, write, read again, `FATAL_MSG` |
| `list` | `disk.list("/config/","*.*")`, with `fnmatch` of `NameMatch` over the paths |
| `DaliInitialize` | the driver runs, from here on packages arrive |
| `InitName` .. `InitLoad`, `Start` | `dimmer.init` and `dimmer.start` |
| `dali_callback`, `SaveVar` | a package is selected by its address and an operation begins; its `write_file` follows in chunks, taking `var` as it is then |

A package is its type, whom it addresses, its number and its data; taking apart
the address byte belongs to the external `dali_global`.  The memory of the
dimmer begins as zeros (a static object).  A fade is only a time in which the
next one is refused; `TriacDimmer` has its steps.  `pow(2, addr)` from 8 on does
not fit a `uint8_t`; on the chip the conversion keeps the low eight bits, all 0.
An operation before `init` has set `file_name` opens a null path: that fails, or
the chip restarts, which `Restart` covers.

`history` is `kept`, the levels the file may come back with; `early`, that an
operation ran before the file was read; `torn`, that the mains failed between
the two chunks of a file of settings.  `SettingsKept`, `LevelKept` and
`OnlyItsOwn` are for units that are not `early`, `SettingsWhole` for files that
are not `torn`: in those windows the code does lose what they speak of.
`OnlyItsOwn` accepts a number of either kind, as `main.cpp:191` does.

`NameMatch` writes the two pointers of `fnmatch` and `rangematch` as recursive
functions of the places they have reached; `MatchAt` is one pass of the loop.
An escaped character takes no character of the name: the `break` at
`storage.cpp:302` skips the comparison.

### 2.4 GearMemory and GearDimmer

`dimmer.cpp` was replaced by `comp/triac_dim.cpp` and is not in the build (it
uses `first_special` and `special_timer`, which its header does not declare),
but it holds the rest of what a control gear must do.  `GearMemory` is `nvm` and
`nvm_variable_process`: memory and flash are functions from the names to bytes,
with the shared place of scenes 8 and 9, and the bits of the groups.  `nvm`
writes one name by its own commit, so a command has a set of writes to do
(`todo`), name by name in the order of `nvm_variable_process` (`Rank`).
`GearDimmer` has an action for each operation, with `run` FALSE where the code
is only asked what it would do, for each kind of configuration command, and for
the special commands that change what is kept.  Where the code divides by zero
(a rate without a whole level in 200 ms, or not known) the chip starts again.

| step | code |
|---|---|
| an operation | its guards and assignments; the level is set (`change_actual_level`), its commit is left in `todo` |
| `SetVariable`, `SetExtendedFade`, `SetScene`, `AddGroup` ... | a command begins: the writes it is to make, one for each `nvm` |
| `Reset` | `dimmer.cpp:694-704`, and `NM_RESET` of each name in `todo` |
| `Assign`, `Commit`, `ReadBack` | one name: the variable, `nvs_set_u8` with `nvs_commit`, and for `NM_RESET` the `nvs_get_u8` behind it |
| `Finish` | what STEP DOWN AND OFF and ON AND STEP UP do when the level is stored |
| `FadeCheck` .. `FadeOn`, `FadeEnd`, `FadeSave` | `fade_task`: ask `fade_running`, set it, step, set the level, commit it and clear the flag |
| `PowerCycle` | the mains fail and return, between any two of these |

`PowerCycle` takes `Initialize` and `start` up to its write as one step: `NM_INIT`
writes only names that flash does not hold, so a failure inside it is repaired by
the next start; the write of the level at the end of `start` is a step of its
own.  The next command is taken when the one before has nothing left to write
(one task gives them), the fades run beside all of these steps.

`fade_task` steps and ends by a plan that all share.  `upset` records what the
code does not guard against: `hasty` (a plan replaced before its task began),
`jump` (a level set at once during a fade), `reset` (RESET during a fade), `wrap`
(the sum of a level and the steps wrapped round).  `LampShowsLevel`
leaves all four out, `OneFade` the first and the third.  Scene 9 is never loaded, so it starts as whatever memory holds;
scenes 8 and 9 are outside `AnswersAsTold` and `StartRestores`.

What the unit was told is recorded from the bus and not from the register:
`said` is what the bus wanted DTR0 to hold, `order` what the command at hand
tells, `told` the answers allowed to each question.  When the last write is done
only the new answer is allowed.  A command cut off by a failure was told or was
not, value by value: both answers are allowed from then on, until it is told
again.  After RANDOMISE has overwritten DTR0 (`dimmer.cpp:620`) a command that
sets a name by it stores what nobody said, and any answer is allowed for that
name.  `Open` names the one value that memory has and flash may not have yet,
which is all that `StartRestores` excepts beside the search and random addresses
and scenes 8 and 9.

## 3. Checks

Passing runs:

| run | what it shows | bounds |
|---|---|---|
| `dali_decode` | every clean frame is delivered bit by bit (`CleanFrameDelivered`), every package is as long as its type (`PackageWellFormed`) | one frame; all 256 bytes, 16 and 24 bit frames with all patterns of the bits near the two windows (counts 18..21 and 35..38), where alone the length is decided; any jitter, posts dropped at will |
| `dali_traffic` | what the two reads of the callback are given, in which order, and never twice (`CleanFrameDelivered`, `HandledInOrder`, `GivenOnce`: the driver implements `FrameMailbox`); `backword_yesno` comes to its end (`ReplyEnds`) and the receiver hears again (`NotDeaf`), whether it answers, gives up before a frame or a dead line, or the line dies beneath the answer | two frames, an answer and a loss of the supply, in any mixture; `adc_task` does not measure (`Measuring`) |
| `dali_live` | the statics stay in step (`DecoderPhase`, `TypeOK`), and `ReceptionEnds`, `NotDeaf`, `LossReported`, `RecoveryReported` | one frame; the supply lost at any half bit and restored at any later one or never, or an answer during which `adc_task` may switch rx on |
| `triac_built` | what level, lamp, `busy` and failure flag agree on when all is done (`Settled`, `ActualInLimits`, `OneFade`, `BusyFollowsFade`, `LitWithoutLine`, `TypeOK`) | the operations the firmware calls; two tasks, a queue of one, two losses, any number of mains failures |
| `triac_restart` | the delay stays inside the half wave (`DelayInsideHalfWave`, `DriveInRange`); the file holds the level reported whenever no command is under way (`RestartsAtLastLevel`); `FadeEnds`, `CommandReturns` | every operation, limits 0..4, mains failures at any step, `xTaskCreate` may fail, a queue of one |
| `firmware` | the start never aborts and, if the mains stay, ends (`NeverAborts`, `ComesUp`); the settings are whole unless a file of them was cut off (`SettingsWhole`); the dimmer keeps its own settings and level unless an operation ran before `init` had read them (`SettingsKept`, `LevelKept`); from then on a package that is not for all is obeyed only with a number the unit has, of whichever kind (`OnlyItsOwn`); the list shows every file (`ListShowsAll`) | any number of mains failures between any two steps and chunks; no file, or that of a unit with an address and groups 8 and 9, or of one without; packages of every kind, the empty one and an answer included |
| `gear` | lamp and level agree when fades are over (`LampShowsLevel`); `OneFade`; what was told is answered and survives (`AnswersAsTold`, `GroupsAsTold`, `StartRestores`), of a command cut off the old or the new; `FadeEnds` | two commands beside any number of loads of DTR0 and of mains failures, these between any two of an assignment, its commit and its reading back; two tasks; levels 248..254 (where a `uint8_t` wraps); scenes 4, 8, 9; groups 1, 8, 9 of a unit in all others |

`MCFirmware` also states, as assumptions that TLC evaluates, that `fnmatch` is
the usual match for all patterns of up to four and names of up to four
characters, with a leading period, with the parts of a path, and with brackets.

Why the bounds are enough.  The decoder has no memory of more than one frame but
its statics, which `DecoderPhase` shows to be as new after every reception, so
two frames reach what many would.  A fade has the same shape at every length:
limits a few levels apart give fades of one to four steps in both directions,
levels below and above the limits are commanded too, and `triac_built` keeps the
built limits.  A queue of one place is the hardest for posts that wait.  Two
fade tasks are the fewest that can run into each other.  A file of two chunks
can be empty, torn or whole, which is all that a longer one can be to code that
looks at its first chunk.  In `firmware` nothing is counted but the sets of
packages and images, which meet every branch of `my_package`.  Two commands are
enough in `gear` for each property to be violated by its seeded fault, and for
every pair (a fade and what disturbs it; a value told and another one); what
more commands could do is covered by the proofs, which have no such bound, but
for `FadeEnds`.  Scenes 4, 8 and 9 stand for the sixteen (`Scenes`; the proofs
have any set that holds 8 and 9 or neither): one of its own and the two that
share a place.  The limits of `triac_restart` keep the sum of a level and its
steps away from 255; that a wrapped one does no harm to the delay is what the
proofs show, and `triac_up` shows what it does to the level.

Deadlock is checked in every run but `dali_traffic`, where the system may stop:
with no frame left and `adc_task` not measuring, the line is idle for good.

Runs that show a disagreement between a comment and the code:

| run | the comment says | the code does |
|---|---|---|
| `dali_alarm` | where the alarm is raised the voltage of the line is gone (`dali.cpp:53`) | three low half bits of three frames are enough: `Olcum_Ready` is asked once, before the first measurement |
| `triac_failure` | the lamp must burn at the failure level (`dali.cpp:53`) | a fade that runs goes on over what `direct_power` has set, without any operation since |
| `triac_up` | `command_up` raises the light (`triac_dim.cpp:324`) | near 254 the `uint8_t` sum wraps: the level reported, and saved, drops; the lamp stays as it is, since the loop of the fade ends at its first test |
| `triac_reaches` | the level is changed by the fade (`triac_dim.cpp:269-270`) | the loop ends before the delay of the destination is driven; a change of one level moves nothing |
| `firmware_answer` | an arc power or a normal command has come (`main.cpp:196`, `203`) | the type of the package is never looked at: the 8 bit answer YES of another unit is dispatched as OFF for all |

**Fairness.**  `DaliReceiver`: time passes (`HalfPeriod`), the periodic timer
fires (`Tick`), `sem_task` and `adc_task` are scheduled: FreeRTOS tasks that
block only on what is modelled.  Nothing is promised about the other unit or the
supply.  `TriacDimmer`: the command task, the fade tasks and the event loop are
scheduled; a post that waits with `portMAX_DELAY` gets its turn when room keeps
appearing (strong fairness), since FreeRTOS wakes the waiting task of highest
priority and those of one priority in the order they came.  Nothing is promised
about commands, losses or mains failures.  `Firmware`: `app_main` goes on and so
does a save that has begun, being ready tasks between calls that return; `ComesUp`
holds of the behaviours in which the mains stop failing, and promises nothing of
the others.  `GearDimmer`: each `fade_task` is scheduled; commands and mains
failures may stay away for ever.

## 4. Proofs

For every value of the constants that satisfies the assumptions of the modules:

| theorem | says |
|---|---|
| `DaliReceiverProofs!DecoderCorrect` | `DecoderInv` is invariant |
| `PackagesWellFormed`, `DecoderInPhase` | the two properties, for all frames, answers, cuts and jitter |
| `DaliReceiverProofs!TypeCorrect` | `TypeOK` |
| `CleanFramesArrive` | `CleanFrameDelivered`, for every set of frames of 8, 16 and 24 bits, behind any traffic, answers, losses and jitter |
| `FrameMailboxProofs!MailboxCorrect` | the mailbox loses nothing that comes in time and owes no more calls than there were packages |
| `DaliMailboxProofs!DriverIsMailbox` | the driver, with the two reads of `dali_callback`, implements the mailbox (`GivenOnce`) |
| `PackagesInOrder` | `HandledInOrder`: as long as no package comes late, each is given once, whole and in its order |
| `TriacDimmerProofs!DelayStaysInside`, `DriveStaysInRange` | the delay of the triac lies inside the half wave, and no task drives a wrapped one: for all limits, levels, rates, operations, any number of tasks, with or without `Prompt` |
| `TriacDimmerProofs!TypeCorrect` | `TypeOK`, the bound of the queue included |
| `TriacDimmerProofs!OneFadeAtATime` | assuming `Prompt`, two fades never run together |
| `ActualStaysInLimits` | assuming the operations are `arc` and `off`, and that `power_on_level` is 255 or within the limits, the level is 0 or within them |
| `TriacQuietProofs!LastLevelRestored` | `RestartsAtLastLevel`, assuming `power_on_level` is 255 |
| `LostLineLightsLamp` | `LitWithoutLine`, assuming the failure level is within the limits; operations are called whatever the line is like |
| `BusyEnds` | `BusyFollowsFade`, assuming `Prompt` and that `xTaskCreate` succeeds |
| `LampSettles` | `Settled`, assuming this too and that the operations are `arc` and `off`: for all limits, levels, rates, losses and mains failures |
| `FirmwareProofs!TypeCorrect`, `StartNeverAborts` | `TypeOK`, `NeverAborts`: for all packages and stored images, no failure and no package makes the start abort |
| `GivenIsKept`, `PackageForUs` | `SettingsKept`, `OnlyItsOwn`: what the unit was given stays in its file, and only a number that is in it (address or group, of either kind) makes it obey, unless an operation ran before `init` had read the file |
| `LastLevelKept`, `SettingsAreWhole` | `LevelKept`, `SettingsWhole`: the level is that of the last operation or of one cut off (under the same premise), and the settings are whole unless the mains failed between the two chunks of a file of them |
| `AllFilesListed` | `ListShowsAll`, from what `*.*` matches among all strings |
| `GearProofs!TypeCorrect`, `OneFadeAtATime` | `TypeOK`, `OneFade`, for any number of commands and tasks |
| `StartFindsAll`, `GroupsAreAsTold`, `AnswersAreAsTold` | `StartRestores`, `GroupsAsTold`, `AnswersAsTold`, after any sequence of commands and of failures between any two writes |
| `LampIsAtItsLevel` | `LampShowsLevel`, for any number of commands and tasks |

`TriacLevelsProofs` holds the lemmas of arithmetic that the two dimmers share.

*The decoder.*  `PackageWellFormed` alone is not inductive: the length of a
package depends on `count`, `max` and the samples when the clock stops.
`DecoderInv` adds `DecoderPhase` (a sample every second tick; `max` grows only
after its window) and the types of these variables.  `PackageFits` shows that a
reception can end only at counts 23, 39 and 55, with 11, 19 or 27 samples.

*A clean frame.*  `CleanInv` holds the receiver against the wave, half bit by
half bit (`WaveAt`).  What is still to come is the rest of the wave (`OnWire`),
nobody else has the line (`Alone`), and the frame is before its start bit
(`AtStart`), being received (`Receiving`) or handed over (`Received`).  While it
is received, `count` follows the half bits that have passed (`InStep`; an early
tick is one ahead, and only at an odd count, where nothing is sampled), so that
each sample is the second half of its bit (`Sampled`).  `Lengthened` is where
16 and 24 bits are told from 8: in each window the middle of one bit falls, where
the line always changes, and behind a shorter frame the line stands still; so
`max` has grown when the window closes exactly if more bits follow.
`SampledAtTick`, `LimitAtTick` and `HandedOver` are the three things a tick does.

*The mailbox.*  `RefinementStep` takes the actions one by one: a tick that ends
a reception is a `PutInTime` or a `PutLate`, the two reads of `dali_callback` are
those of the mailbox, all else stutters (`MailboxUntouched`).  What has to be known of the driver is
its type and `Cleared`: `sem_task` waits only after it has emptied `gelen`,
unless a package has come since.  `PackagesInOrder` then needs no invariant of
the driver: what `MailboxInv` says of what was read carries over.

*The delay.*  A task drives `tmp` and steps by `param.step` although `param` may
have been replaced since.  The loop's test is made on the next value, so it
suffices that the present one is a delay `raw_level` can give (928..10000) and
the step is at most 36 (`FadeCalcInRange`, from the slope of `raw_level` and the
bound of a quotient): then neither direction leaves 892..10036, nothing wraps, and a value
the loop accepts lies on the near side of `step_stop` (`NextRawInRange`).
`DelayInv` states this of `raw` and of every task's `tmp`.

*One fade.*  `OneFadeInv` says that at most one task is between its creation and
the end of its fade, that `fade_running` is set as long as it drives, and
that an operation that has yet to create one finds none.  Without `Prompt` it
fails: two tasks may both have asked before either sets the flag.

*The limits.*  `LimitInv` adds to `ActualInLimits` that the file holds such a
level too, and that no operation is left that sets the level from `fade_param`.
With the single steps the theorem is false as it stands (`direct_power` can
light a lamp whose level is 0, and a step up from there is below the minimum),
which is why it names the operations.

*The last level.*  `RestartsAtLastLevel` is about a step; it follows from
`SavedInv`: between two operations the file holds the level.  An operation
changes the level only while its write is still to come (`LastIsWrite`).

*The lost line.*  What `main.cpp` will know is decided by the verdict that comes
last, which may still be in the queue behind others.  `LineInv` says that this
last verdict is that of `hat_error`, or that none is left and `main.cpp` and the
lamp are as it says.  A failure level outside the limits would be refused by
`direct_power`, hence the assumption; the built values (35, and limits 35..254)
meet it.

*Busy.*  `BusyInv`: once a fade was planned, there is an operation that will
create its task, or a task that will post its END, or the last word in the queue
(or the last handled) is an END and no START is to come.  Without a task
(`xTaskCreate` fails) the START stands alone, and `busy` stays set for good,
whence the assumption.

*The lamp.*  `Settled` and `LampShowsLevel` have the same core.  From the start
of its plan a delay stays on its side of the stop (`OnWay`); the loop either
goes on, still on that side, or ends within one step, 36 us at most
(`FadeNearsItsStop`); and the stop is the delay of the level that is, or will
be, reported.  `AimInv` of either dimmer says so of each place of the fade.  In
the built dimmer the level is set before the fade runs, so `LevelAim`
distinguishes whether a fade is ahead; a single step (`command_step_up`) may move
the level under a fade, and a fade whose task is not created moves it without
the lamp, which is why `LampSettles` names the operations and assumes the task.
In the legacy dimmer the level is set at the end, from the plan all share, and
what could replace or bend the plan is in `upset`, so `AimInv` holds only while
`upset` is empty and rests on `OneInv`.  `LampEffect` sorts its operations by
what they do to the light.

*The start.*  That `FATAL_MSG` is not reached depends on what an interrupted
start may leave behind, so `BootInv` speaks of every place of `app_main`: a
write goes on at the end of its file or inside it, a file of settings holds no
chunk that is not filled in, and what is about to be checked was written whole.
`KeptInv` says what makes the settings of the dimmer survive: the defaults are
written only while its file is empty, and once the file has been read, `var` and
the first chunk agree in all but the level.  Both need the premise `~early`; an
operation before `init` has read the file saves zeros over it, which the run
`firmware` reaches.

`LevelInv` adds to these that the level in the file is one it may come back
with, that the level in memory is too once the file has been read, and that
between the two chunks of a save the file already has the new one.
`SettingsInv` says which settings are still unset at each place of `config`,
that half a file exists only while its second chunk is being written, and that
what `config` has passed is whole: the code asks the first chunk only
(`Recorded`), so nothing else would rule out half a file.

*The list.*  `AllNamesShown` says which strings `*.*` matches: those that have a
period and do not begin with one.  A recursive function equals its body only if
some function does, which takes an induction in general; for this pattern its
values can be written down (`table`), so the proof shows that they solve the
equation and unfolds `match` three times.  `MatchEnd`, `MatchDot`,
`MatchLastStar` and `MatchStar` are the characters the pattern has.  `ListInv`
adds that no file changes between the list and the first package.

*The gear.*  `Types` is what the operations can rely on; `OperationEffect` puts
all operations on the lamp into a few effects (nothing, a jump, a plan), so that
the later proofs have those for cases and not the commands.  `OneInv`: as long
as nothing was `hasty` or `reset`, at most one task is there at all, and the
flag says whether it runs.  `KeepInv`: flash and memory agree in every name but
the addresses of the search, the random address and the scenes that share a
place, unless the name is `Open`, that is, at the head of `todo` or the level a
fade is storing; hence a start changes nothing else.  `ToldInv` has three parts:
what memory and flash hold is allowed by `told` or is what the command at hand
tells (`BytesFit`); so is every value still to be assigned (`WritesFit`);
and what a command tells is, for each fact, already in memory and flash or still
in `todo` (`OrderHeeded`), so that behind its last write the new value alone
remains.  A group is a fact of its own: a bit put in or taken out touches no
other one (`BitSet`, `BitReset`, from the quotients by powers of two), so the
fifteen other groups of the byte stay as they were told.  `PairInv`: the two
halves of the extended fade fit four bits each, wherever a failure falls between
their commits, so that the answer that packs them can be taken apart again.
`AimInv` holds across the commit of the level, which a fade and an operation
leave to a later step, and `DarkInv` says that while RESET has the level still to
write the lamp is out.

Only model-checked: all liveness, which is outside what the prover does
(`ReceptionEnds`, `NotDeaf`, `LossReported`, `RecoveryReported`, `ReplyEnds`,
`FadeEnds` of both dimmers, `CommandReturns`, `ComesUp`); and `NameMatch` against
the usual match for every pattern, an induction over the pattern, which is
outside too.

## 5. Not modelled

*Of what is built.*  `Dali::send` is a waveform only; nothing that is built
calls it.  The zero crossing interrupt and its timer appear as the bound of the
delay they are given: whether the half wave is met depends on microseconds, not
on the order of steps.  `set_short_address` and `clear_short_address` are not
called.  Mounting and formatting of the file system
(`ESP_ERROR_CHECK(!disk.init())`), `file_empty` and `file_create` by name, and
the flag `FNM_CASEFOLD` of `fnmatch`, which no call sets.  The pins, the LED,
NVS (initialised, never used by what is built) and the buttons, whose callbacks
only log.  A `fade_rate` of 0, 14 or 15, for which `triac_dim.cpp:196` divides by
zero: no operation of the built dimmer sets it (`GearDimmer` models the same
division, which a command of the legacy dimmer reaches).  The commands that `dali_callback` has commented out call nothing.

*Of the legacy dimmer.*  `reset_state`, `operating_mode`, `power_cycle_seen` and
DTR1, which only queries read; COMPARE and VERIFY, which change nothing; the
check that a command came twice, whose variables are not declared and whose
result gates nothing; the zero crossing, as above.

*Not at all.*  `comp/dalie.cpp` is an earlier copy of the driver with the same
decoder; a second model would repeat `DaliReceiver`.  `eski_prg/cihazlar.cpp`
frees nodes of its list while `garbage`, a task, may follow it, but who adds and
removes devices, and from which task, is not in the repository.  `eski_prg/now.cpp` has its acknowledgements and
pings commented out; what is left copies messages to callbacks nobody registers.
Web pages, partition table and build files are no logic of this program; the
build file decides what is built, and section 1 follows it.

## 6. What could follow

- `Dali::send` and the zero crossing with its timer, with time in the model, if
  the firmware comes to send or the timing is to be shown.
- The device list and ESP-NOW, should they return to the build with their callers.

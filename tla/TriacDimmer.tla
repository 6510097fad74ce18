----------------------------- MODULE TriacDimmer ----------------------------
(***************************************************************************)
(* The mains dimmer of main/comp/triac_dim.cpp with the tasks around it:   *)
(*                                                                         *)
(*   - the command task (sem_task in dali_callback) runs one operation of  *)
(*     the class at a time, each in several steps: the decision and the    *)
(*     variables, xTaskCreate of a fade task, the blocking post of         *)
(*     DIMMER_BUSY_START, the write of the file;                           *)
(*   - fade tasks move raw_pwm_time towards the planned delay;             *)
(*   - the default event loop handles DIMMER_EVENTS and DALI_EVENTS        *)
(*     (dimmer_handler and dali_handler of main.cpp) in the order of its   *)
(*     queue;                                                              *)
(*   - adc_task of the DALI driver posts the loss and the return of the    *)
(*     line without waiting.                                               *)
(*                                                                         *)
(* There is no lock.  Time is left out: a fade may take as long as it      *)
(* likes between two steps.                                                *)
(*                                                                         *)
(* A definition named X_y is X with a seeded fault: no specification uses  *)
(* it; it is put in the place of X to see that a property notices.         *)
(***************************************************************************)
EXTENDS TriacLevels, SequencesExt

CONSTANTS
    Ops,          \* the operations that are called
    ArcLevels,    \* the levels direct_arc_power is called with
    min_level,    \* var.min_level, 35 by default
    max_level,    \* var.max_level, 254 by default
    PowerOnLevel, \* var.power_on_level; 255 asks for the last level
    FailureLevel, \* var.system_failure_level
    FadeRate,     \* var.fade_rate
    TaskIds,      \* bound: fade tasks that may exist at a time; a further
                  \* one waits until one of them is gone
    MaxLosses,    \* bound: how often the line is lost
    QueueLen,     \* CONFIG_ESP_SYSTEM_EVENT_QUEUE_SIZE
    CreateMayFail,\* may xTaskCreate find no memory?
    Prompt        \* has a fade task begun when the next command is called?

ASSUME OpsAssumption == Ops \subseteq {"arc", "off", "up", "down", "step_up", "step_down"}
ASSUME LevelsAssumption ==
    /\ min_level \in Level /\ max_level \in Level /\ min_level <= max_level
    /\ ArcLevels \subseteq Level /\ PowerOnLevel \in Level /\ FailureLevel \in Level
ASSUME RateAssumption == FadeRate \in 1..13
ASSUME QueueAssumption == QueueLen \in Nat \ {0} /\ MaxLosses \in Nat
ASSUME SwitchAssumption == CreateMayFail \in BOOLEAN /\ Prompt \in BOOLEAN

VARIABLES
    actual,       \* var.actual_level
    lampOn,       \* var.lamp_on
    limitError,   \* limit_error
    fadeRunning,  \* fade_running
    param,        \* fade_param
    raw,          \* raw_pwm_time
    disk,         \* what the file holds of var
    cmd,          \* the operation the command task is in, and what is left of it
    task,         \* the fade tasks: where each is, and its local tmp
    queue,        \* the event loop's queue
    busy,         \* busy of main.cpp
    hatDown,      \* dali_hat_yk of main.cpp (dali_hat_status is its negation)
    hatError,     \* Dali::hat_error: what adc_task last found
    losses,       \* history: how often it was lost
    dropped,      \* history: a post of adc_task found the queue full
    overtaken,    \* history: an END was queued before the START of its fade
    override,     \* history: direct_power has set raw since the last fade began
    offSince      \* history: OFF was carried out since the loss was handled

state   == <<actual, lampOn, limitError>>
fade    == <<fadeRunning, param, task>>
events  == <<queue, busy, hatDown>>
history == <<losses, dropped, overtaken, override, offSince>>
vars    == <<state, fade, raw, disk, cmd, events, hatError, history>>

NoTask == [pc |-> "none", tmp |-> 0]
Idle   == <<>>

\* What the file holds: the fields of var that change and are read again
\* (last_actual_level is written with every level and read by none of these
\* operations).
Image == [actual |-> actual, lampOn |-> lampOn]

\* fade_param before the first fade; nobody reads it.
NoFade == fade_calc(0, 0, "DIR_UP")

-----------------------------------------------------------------------------
(* Power on: init (the file exists, or is written with the defaults) and   *)
(* start.  start writes nothing.                                           *)

DefaultImage == [actual |-> 0, lampOn |-> FALSE]

StartLevel(image) == IF PowerOnLevel = 255 THEN image.actual ELSE PowerOnLevel

Init ==
    /\ disk = DefaultImage
    /\ actual = StartLevel(disk)
    /\ lampOn = (RawLevel(actual) <= 10000 \/ disk.lampOn)
    /\ raw = RawLevel(actual)
    /\ limitError = FALSE /\ fadeRunning = FALSE /\ param = NoFade
    /\ cmd = Idle /\ task = [t \in TaskIds |-> NoTask]
    /\ queue = <<>> /\ busy = TRUE /\ hatDown = FALSE /\ hatError = FALSE
    /\ losses = 0 /\ dropped = FALSE /\ overtaken = FALSE /\ override = FALSE
    /\ offSince = FALSE

\* The mains fail and come back at any moment: only the file survives.
PowerCycle ==
    /\ actual' = StartLevel(disk)
    /\ lampOn' = (RawLevel(actual') <= 10000 \/ disk.lampOn)
    /\ raw' = RawLevel(actual')
    /\ limitError' = FALSE /\ fadeRunning' = FALSE /\ param' = NoFade
    /\ cmd' = Idle /\ task' = [t \in TaskIds |-> NoTask]
    /\ queue' = <<>> /\ busy' = TRUE /\ hatDown' = FALSE /\ hatError' = FALSE
    /\ dropped' = FALSE /\ overtaken' = FALSE /\ override' = FALSE
    /\ offSince' = FALSE
    /\ UNCHANGED <<disk, losses>>

-----------------------------------------------------------------------------
(* The operations.  An operation decides and sets its variables in its     *)
(* first step and leaves the rest of its work in cmd, a list of steps.     *)

\* The callback gets a command when the one before has returned.  It does
\* not ask whether the line is lost: adc_task switches the rx interrupt off,
\* but end_clock may switch it on again after that.
MayCall(op) ==
    /\ op \in Ops
    /\ cmd = Idle
    /\ Prompt => \A t \in TaskIds : task[t].pc \notin {"created", "entered"}

\* The operations that fade do nothing while a fade runs.  (Seeded: they do
\* not ask.)
MayFade_any(op) == MayCall(op)

MayFade(op) == MayCall(op) /\ ~fadeRunning

Clamp_above(level) == IF level > max_level THEN max_level ELSE level

Clamp(level) == IF level < min_level THEN min_level
                ELSE IF level > max_level THEN max_level ELSE level

direct_arc_power ==
    /\ MayFade("arc")
    /\ \E level \in {Clamp(l) : l \in ArcLevels} :
          /\ param' = fade_calc(actual, level,
                                IF actual > level THEN "DIR_DOWN" ELSE "DIR_UP")
          /\ actual' = level
    /\ lampOn' = TRUE
    /\ override' = FALSE /\ overtaken' = FALSE
    /\ cmd' = <<"create", "post", "write">>
    /\ UNCHANGED <<limitError, fadeRunning, task, raw, disk, events, hatError,
                   losses, dropped, offSince>>

command_off ==
    /\ MayCall("off")
    /\ lampOn
    /\ lampOn' = FALSE
    /\ actual' = 0
    /\ cmd' = <<"write">>
    /\ offSince' = hatDown
    /\ UNCHANGED <<limitError, fade, raw, disk, events, hatError,
                   losses, dropped, overtaken, override>>

\* The file is written before the level is set.
FadeBy200ms_early(op, dest, dir) ==
    /\ MayFade(op) /\ lampOn
    /\ param' = fade_calc(actual, dest, dir)
    /\ limitError' = FALSE /\ override' = FALSE /\ overtaken' = FALSE
    /\ cmd' = <<"post", "create", "write", "update">>
    /\ UNCHANGED <<actual, lampOn, fadeRunning, task, raw, disk, events,
                   hatError, losses, dropped, offSince>>

\* command_up and command_down plan first, and set the level after the fade
\* task is created.
FadeBy200ms(op, dest, dir) ==
    /\ MayFade(op) /\ lampOn
    /\ param' = fade_calc(actual, dest, dir)
    /\ limitError' = FALSE
    /\ override' = FALSE /\ overtaken' = FALSE
    /\ cmd' = <<"post", "create", "update", "write">>
    /\ UNCHANGED <<actual, lampOn, fadeRunning, task, raw, disk, events,
                   hatError, losses, dropped, offSince>>

AtLimit(op) ==
    /\ MayCall(op)
    /\ limitError' = TRUE
    /\ UNCHANGED <<actual, lampOn, fade, raw, disk, cmd, events, hatError,
                   history>>

command_up ==
    \/ /\ actual < max_level
       /\ FadeBy200ms("up", DestinationUp(actual, FadeRate, max_level), "DIR_UP")
    \/ actual >= max_level /\ ~fadeRunning /\ lampOn /\ AtLimit("up")

command_down ==
    \/ /\ actual > min_level
       /\ FadeBy200ms("down", DestinationDown(actual, FadeRate, min_level), "DIR_DOWN")
    \/ actual <= min_level /\ ~fadeRunning /\ lampOn /\ AtLimit("down")

\* command_step_up and command_step_down do not ask whether a fade runs.
StepTo(op, level) ==
    /\ MayCall(op)
    /\ lampOn
    /\ raw' = RawLevel(level)
    /\ actual' = level
    /\ limitError' = FALSE
    /\ cmd' = <<"write">>
    /\ UNCHANGED <<lampOn, fade, disk, events, hatError, history>>

command_step_up ==
    \/ actual + 1 <= max_level /\ StepTo("step_up", actual + 1)
    \/ actual + 1 > max_level /\ AtLimit("step_up")

\* Its test of the limit is the wrong way round: above the minimum it sets
\* limit_error, and the step that follows clears it.  (With the lamp off the
\* level is 0, which is not above the minimum.)
command_step_down ==
    actual - 1 >= min_level /\ StepTo("step_down", actual - 1)

Command == \/ direct_arc_power \/ command_off \/ command_up \/ command_down
           \/ command_step_up \/ command_step_down

-----------------------------------------------------------------------------
(* What an operation has left to do.                                       *)

Left(step) == cmd # Idle /\ Head(cmd) = step /\ cmd' = Tail(cmd)

\* xTaskCreate; its result is not looked at.
CreateTask ==
    /\ Left("create")
    /\ \/ \E t \in TaskIds :
             /\ task[t].pc = "none"
             /\ task' = [task EXCEPT ![t] = [pc |-> "created", tmp |-> 0]]
       \/ CreateMayFail /\ UNCHANGED task
    /\ UNCHANGED <<state, fadeRunning, param, raw, disk, events, hatError, history>>

\* It does not ask for room.
PostStart_full ==
    /\ Left("post")
    /\ queue' = Append(queue, "DIMMER_BUSY_START")
    /\ UNCHANGED <<state, fade, raw, disk, busy, hatDown, hatError, history>>

\* esp_event_post with portMAX_DELAY waits for room.
PostStart ==
    /\ Left("post")
    /\ Len(queue) < QueueLen
    /\ queue' = Append(queue, "DIMMER_BUSY_START")
    /\ UNCHANGED <<state, fade, raw, disk, busy, hatDown, hatError, history>>

UpdateLevel ==
    /\ Left("update")
    /\ actual' = param.destination
    /\ limitError' = FALSE
    /\ UNCHANGED <<lampOn, fade, raw, disk, events, hatError, history>>

\* It waits for the end of the fade.
write_file_late ==
    /\ Left("write") /\ ~busy
    /\ disk' = Image
    /\ UNCHANGED <<state, fade, raw, events, hatError, history>>

write_file ==
    /\ Left("write")
    /\ disk' = Image
    /\ UNCHANGED <<state, fade, raw, events, hatError, history>>

CommandStep == CreateTask \/ PostStart \/ UpdateLevel \/ write_file

-----------------------------------------------------------------------------
(* fade_task.  Asking for fade_running and setting it are two steps.       *)

FadeCheck(t) ==
    /\ task[t].pc = "created"
    /\ task' = [task EXCEPT ![t] =
                    IF fadeRunning THEN NoTask ELSE [pc |-> "entered", tmp |-> 0]]
    /\ UNCHANGED <<state, fadeRunning, param, raw, disk, cmd, events, hatError, history>>

\* The flag is not set.
FadeBegin_unset(t) ==
    /\ task[t].pc = "entered"
    /\ task' = [task EXCEPT ![t] = [pc |-> "drive", tmp |-> param.step_start]]
    /\ UNCHANGED <<state, fadeRunning, param, raw, disk, cmd, events, hatError, history>>

FadeBegin(t) ==
    /\ task[t].pc = "entered"
    /\ fadeRunning' = TRUE
    /\ task' = [task EXCEPT ![t] = [pc |-> "drive", tmp |-> param.step_start]]
    /\ UNCHANGED <<state, param, raw, disk, cmd, events, hatError, history>>

\* raw_pwm_time is a uint8_t.
FadeDrive_byte(t) ==
    /\ task[t].pc = "drive"
    /\ raw' = UInt8(task[t].tmp)
    /\ task' = [task EXCEPT ![t].pc = "delay"]
    /\ UNCHANGED <<state, fadeRunning, param, disk, cmd, events, hatError, history>>

FadeDrive(t) ==
    /\ task[t].pc = "drive"
    /\ raw' = task[t].tmp
    /\ task' = [task EXCEPT ![t].pc = "delay"]
    /\ UNCHANGED <<state, fadeRunning, param, disk, cmd, events, hatError, history>>

FadeAdvance(t) ==
    /\ task[t].pc = "delay"
    /\ LET tmp == NextRaw(task[t].tmp, param) IN
       task' = [task EXCEPT ![t] =
                    [pc |-> IF GoesOn(tmp, param) THEN "drive" ELSE "end", tmp |-> tmp]]
    /\ UNCHANGED <<state, fadeRunning, param, raw, disk, cmd, events, hatError, history>>

\* The flag stays set; the end is not announced.
FadeEnd_stuck(t) ==
    /\ task[t].pc = "end"
    /\ task' = [task EXCEPT ![t] = [pc |-> "post", tmp |-> 0]]
    /\ UNCHANGED <<state, fadeRunning, param, raw, disk, cmd, events, hatError, history>>

FadeEnd_silent(t) ==
    /\ task[t].pc = "end"
    /\ fadeRunning' = FALSE
    /\ task' = [task EXCEPT ![t] = NoTask]
    /\ UNCHANGED <<state, param, raw, disk, cmd, events, hatError, history>>

FadeEnd(t) ==
    /\ task[t].pc = "end"
    /\ fadeRunning' = FALSE
    /\ task' = [task EXCEPT ![t] = [pc |-> "post", tmp |-> 0]]
    /\ UNCHANGED <<state, param, raw, disk, cmd, events, hatError, history>>

\* The command that created this task may not have posted its START yet.
FadePost(t) ==
    /\ task[t].pc = "post"
    /\ Len(queue) < QueueLen
    /\ queue' = Append(queue, "DIMMER_BUSY_END")
    /\ overtaken' = (overtaken \/ (cmd # Idle /\ Head(cmd) = "post"))
    /\ task' = [task EXCEPT ![t] = NoTask]
    /\ UNCHANGED <<state, fadeRunning, param, raw, disk, cmd, busy, hatDown,
                   hatError, losses, dropped, override, offSince>>

fade_task(t) == \/ FadeCheck(t) \/ FadeBegin(t) \/ FadeDrive(t)
                \/ FadeAdvance(t) \/ FadeEnd(t) \/ FadePost(t)

-----------------------------------------------------------------------------
(* The event loop and the posts of adc_task.                               *)

Handle(event) ==
    /\ queue # <<>> /\ Head(queue) = event
    /\ queue' = Tail(queue)

dimmer_handler ==
    /\ \/ Handle("DIMMER_BUSY_START") /\ busy' = TRUE
       \/ Handle("DIMMER_BUSY_END") /\ busy' = FALSE
    /\ UNCHANGED <<state, fade, raw, disk, cmd, hatDown, hatError, history>>

\* The lamp is left as it is.
direct_power_dark(level) ==
    IF level \in min_level..max_level
    THEN /\ raw' = RawLevel(level)
         /\ override' = TRUE
         /\ UNCHANGED <<lampOn, limitError>>
    ELSE limitError' = TRUE /\ UNCHANGED <<lampOn, raw, override>>

\* direct_power asks neither whether a fade runs nor what it drives.
direct_power(level) ==
    IF level \in min_level..max_level
    THEN /\ lampOn' = TRUE
         /\ raw' = RawLevel(level)
         /\ override' = TRUE
         /\ UNCHANGED limitError
    ELSE /\ limitError' = TRUE
         /\ UNCHANGED <<lampOn, raw, override>>

dali_handler ==
    /\ \/ /\ Handle("DALI_HAT_ERROR")
          /\ direct_power(FailureLevel)
          /\ hatDown' = TRUE
       \/ /\ Handle("DALI_HAT_NORMAL")
          /\ hatDown' = FALSE
          /\ UNCHANGED <<lampOn, limitError, raw, override>>
    /\ offSince' = FALSE
    /\ UNCHANGED <<actual, fade, disk, cmd, busy, hatError,
                   losses, dropped, overtaken>>

EventLoop == dimmer_handler \/ dali_handler

\* adc_task: esp_event_post with timeout 0 gives up when the queue is full.
LineReport ==
    /\ hatError \/ losses < MaxLosses
    /\ hatError' = ~hatError
    /\ losses' = IF hatError THEN losses ELSE losses + 1
    /\ IF Len(queue) < QueueLen
       THEN /\ queue' = Append(queue, IF hatError THEN "DALI_HAT_NORMAL" ELSE "DALI_HAT_ERROR")
            /\ UNCHANGED dropped
       ELSE dropped' = TRUE /\ UNCHANGED queue
    /\ UNCHANGED <<state, fade, raw, disk, cmd, busy, hatDown, overtaken, override, offSince>>

-----------------------------------------------------------------------------
Next == \/ Command \/ CommandStep
        \/ \E t \in TaskIds : fade_task(t)
        \/ EventLoop \/ LineReport \/ PowerCycle

Spec == Init /\ [][Next]_vars

\* The tasks run and the event loop is served; a waiting post gets its turn.
Fairness == /\ WF_vars(CommandStep) /\ SF_vars(PostStart)
            /\ \A t \in TaskIds : WF_vars(fade_task(t)) /\ SF_vars(FadePost(t))
            /\ WF_vars(EventLoop)

FairSpec == Spec /\ Fairness

-----------------------------------------------------------------------------
(* Properties.                                                             *)

Events == {"DIMMER_BUSY_START", "DIMMER_BUSY_END", "DALI_HAT_ERROR", "DALI_HAT_NORMAL"}
TaskPc == {"none", "created", "entered", "drive", "delay", "end", "post"}

\* What an operation may have left to do.
Plans == { <<>>, <<"write">>,
           <<"create", "post", "write">>, <<"post", "write">>,
           <<"post", "create", "update", "write">>,
           <<"create", "update", "write">>, <<"update", "write">> }

Flags == {lampOn, limitError, fadeRunning, busy, hatDown, hatError,
          dropped, overtaken, override, offSince}

DimmerOK == /\ actual \in Level /\ param \in FadeParam /\ raw \in UInt16Range
            /\ disk \in [actual : Level, lampOn : BOOLEAN]

WorkOK == /\ cmd \in Plans
          /\ task \in [TaskIds -> [pc : TaskPc, tmp : UInt16Range]]
          /\ queue \in Seq(Events) /\ Len(queue) <= QueueLen
          /\ losses \in Nat

\* The variables of the dimmer keep the widths of the code, and the queue
\* of the event loop its bound.
TypeOK == Flags \subseteq BOOLEAN /\ DimmerOK /\ WorkOK

\* Nobody is in the middle of anything.
Quiet == /\ cmd = Idle /\ queue = <<>>
         /\ \A t \in TaskIds : task[t].pc = "none"

\* int_handler of the zero crossing fires the triac raw_pwm_time - 20 us
\* later: whatever fades, steps and failures have done to it, that delay lies
\* inside the half wave of 10 ms and does not wrap round.
DelayInsideHalfWave == raw \in RawDelay

\* Behind it: a task only drives a delay that raw_level could have given.
DriveInRange ==
    \A t \in TaskIds : task[t].pc \in {"drive", "delay"} => task[t].tmp \in RawDelay

\* When a fade is over the lamp shines within one step of the fade of the
\* level that the dimmer reports, whatever was switched off, dropped or lost
\* meanwhile, unless direct_power has driven it elsewhere since.
Settled ==
    Quiet /\ lampOn /\ ~override => Distance(raw, RawLevel(actual)) <= 36

\* The level reported is off, or between the limits, however often the lamp is
\* dimmed, switched off and started.  It is of the operations that are built:
\* a wrapped sum of command_up, or a step from level 0 of a lamp that
\* direct_power has lit, leaves the limits.
ActualInLimits == actual = 0 \/ actual \in min_level..max_level

\* Two fades never run at the same time: where fade_running is asked is safe.
OneFade ==
    \A t, u \in TaskIds :
        task[t].pc \in {"drive", "delay", "end"} /\ task[u].pc \in {"drive", "delay", "end"}
            => t = u

\* busy of main.cpp says "a fade runs".  Unless an END has overtaken its START,
\* it does not stay set when everything is done (it is set at power on).
BusyFollowsFade ==
    Quiet /\ ~overtaken /\ busy => param = NoFade

\* The line is lost, every report found room and everything is handled: then
\* main.cpp knows, and the lamp is lit, even if the line came back in between,
\* or the lamp was just being switched off when it went.  Only an OFF that is
\* carried out after the loss was handled (nothing keeps it back) leaves it
\* dark.
LitWithoutLine ==
    Quiet /\ hatError /\ ~dropped => hatDown /\ (lampOn \/ offSince)

\* With power_on_level 255 a mains failure between two commands changes
\* nothing: the dimmer comes back at the level it had.
RestartsAtLastLevel == [][PowerCycle /\ cmd = Idle => actual' = actual]_vars

\* A fade comes to its end, and with it fade_running, which keeps every other
\* fade out.
FadeEnds == fadeRunning ~> ~fadeRunning

\* A command always returns: the queue it waits for is emptied.
CommandReturns == cmd # Idle ~> cmd = Idle

\* The comment of adc_task: without the line the lamp shines at the system
\* failure level, at least until a later operation sets it.
FailureLevelHeld ==
    Quiet /\ hatError /\ ~dropped /\ override => raw = RawLevel(FailureLevel)

\* The comment of command_up: it fades the light upwards.
UpMeansUp == [][Left("update") /\ param.direction = "DIR_UP" => actual' >= actual]_vars

\* The comment of direct_arc_power: it is used to change the level by a fade,
\* so that the lamp ends at the level reported.
ReachesLevel == Quiet /\ lampOn /\ ~override => raw = RawLevel(actual)
=============================================================================

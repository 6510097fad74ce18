------------------------- MODULE TriacDimmerProofs --------------------------
(***************************************************************************)
(* What is proved of TriacDimmer for all levels, operations, fade tasks    *)
(* and queue lengths: the delay at which the triac is fired never leaves   *)
(* the half wave, under any interleaving.                                  *)
(***************************************************************************)
EXTENDS TriacDimmer, TriacLevelsProofs, SequenceTheorems

-----------------------------------------------------------------------------
(* The inductive invariant.  Every delay a task drives next has to be in   *)
(* range for raw to stay in range; and the plan has to be one of fade_calc *)
(* for the next delay not to wrap, although a command may replace it while *)
(* the task runs.                                                          *)

PlanOK == actual \in Level /\ disk.actual \in Level /\ param \in FadeParam

TasksOK == task \in [TaskIds -> [pc : TaskPc, tmp : UInt16Range]]

DelayInv == PlanOK /\ TasksOK /\ DriveInRange /\ DelayInsideHalfWave

\* The levels that commands go to, and the dimmer starts at, are levels.
LEMMA LevelsAreLevels ==
    ASSUME actual \in Level
    PROVE  /\ \A l \in ArcLevels : Clamp(l) \in Level
           /\ DestinationUp(actual, FadeRate, max_level) \in Level
           /\ DestinationDown(actual, FadeRate, min_level) \in Level
           /\ \A image : image.actual \in Level => StartLevel(image) \in Level
<1>1. \A l \in ArcLevels : Clamp(l) \in Level
  BY LevelsAssumption DEF Clamp
<1>2. \A image : image.actual \in Level => StartLevel(image) \in Level
  BY LevelsAssumption DEF StartLevel
<1>3. get_raw_fade_rate[FadeRate] \in Nat
  BY RateAssumption DEF get_raw_fade_rate
<1>4. StepsIn200ms(FadeRate) \in Nat
  BY <1>3 DEF StepsIn200ms
<1>5. actual \in Int
  BY DEF Level
<1>6. \A n \in Int : UInt8(n) \in Level
  BY DEF UInt8, Level
<1>7. /\ UInt8(actual + StepsIn200ms(FadeRate)) \in Level
      /\ UInt8(actual - StepsIn200ms(FadeRate)) \in Level
  BY <1>4, <1>5, <1>6
<1> QED
  BY <1>1, <1>2, <1>7, LevelsAssumption DEF DestinationUp, DestinationDown

\* There is always a plan, if only the one of no fade.
LEMMA NoFadeIsPlan == NoFade \in FadeParam
<1>1. 0 \in Level /\ "DIR_UP" \in {"DIR_UP", "DIR_DOWN"}
  BY DEF Level
<1>2. fade_calc(0, 0, "DIR_UP") \in FadeParam
  BY <1>1, FadeCalcInRange
<1> QED
  BY <1>2 DEF NoFade

LEMMA DelayInitially == Init => DelayInv
<1> SUFFICES ASSUME Init PROVE DelayInv
  OBVIOUS
<1>1. disk.actual = 0 /\ 0 \in Level
  BY DEF Init, DefaultImage, Level
<1>2. StartLevel(disk) \in Level
  BY <1>1, LevelsAssumption DEF StartLevel
<1>3. PlanOK
  BY <1>1, <1>2, NoFadeIsPlan DEF Init, PlanOK
<1>4. TasksOK /\ DriveInRange
  BY DEF Init, TasksOK, DriveInRange, NoTask, TaskPc, UInt16Range
<1>5. DelayInsideHalfWave
  BY <1>2, RawLevelRange DEF Init, DelayInsideHalfWave
<1> QED
  BY <1>3, <1>4, <1>5 DEF DelayInv

\* A single step of the level stays a level.
LEMMA StepIsLevel ==
    ASSUME actual \in Level
    PROVE  /\ actual + 1 <= max_level => actual + 1 \in Level
           /\ actual - 1 >= min_level => actual - 1 \in Level
<1>1. /\ actual \in Int /\ 0 <= actual /\ actual <= 255
      /\ min_level \in Int /\ 0 <= min_level /\ max_level \in Int /\ max_level <= 255
  BY LevelsAssumption DEF Level
<1>2. \A n \in Int : 0 <= n /\ n <= 255 => n \in Level
  BY DEF Level
<1> QED
  BY <1>1, <1>2

\* Every operation, and every later step of one, leaves a level and a plan.
LEMMA PlanStep == PlanOK /\ [Next]_vars => PlanOK'
<1> SUFFICES ASSUME PlanOK, [Next]_vars PROVE PlanOK'
  OBVIOUS
<1> USE DEF state, fade, events, history
<1>0. actual \in Level /\ disk.actual \in Level /\ param \in FadeParam
  BY DEF PlanOK
<1>1. CASE direct_arc_power
  <2>1. PICK l \in ArcLevels :
           /\ param' = fade_calc(actual, Clamp(l),
                                 IF actual > Clamp(l) THEN "DIR_DOWN" ELSE "DIR_UP")
           /\ actual' = Clamp(l)
    BY <1>1 DEF direct_arc_power
  <2>2. Clamp(l) \in Level
    BY <1>0, LevelsAreLevels
  <2>3. (IF actual > Clamp(l) THEN "DIR_DOWN" ELSE "DIR_UP") \in {"DIR_UP", "DIR_DOWN"}
    OBVIOUS
  <2>4. param' \in FadeParam
    BY <1>0, <2>1, <2>2, <2>3, FadeCalcInRange
  <2> QED
    BY <1>0, <1>1, <2>1, <2>2, <2>4 DEF PlanOK, direct_arc_power
<1>2. CASE command_off
  BY <1>0, <1>2 DEF command_off, PlanOK, Level
<1>3. CASE command_up
  <2>1. UNCHANGED <<actual, disk>>
    BY <1>3 DEF command_up, FadeBy200ms, AtLimit
  <2>2. \/ param' = fade_calc(actual, DestinationUp(actual, FadeRate, max_level), "DIR_UP")
        \/ param' = param
    BY <1>3 DEF command_up, FadeBy200ms, AtLimit
  <2>3. param' \in FadeParam
    BY <1>0, <2>2, LevelsAreLevels, FadeCalcInRange
  <2> QED
    BY <1>0, <2>1, <2>3 DEF PlanOK
<1>4. CASE command_down
  <2>1. UNCHANGED <<actual, disk>>
    BY <1>4 DEF command_down, FadeBy200ms, AtLimit
  <2>2. \/ param' = fade_calc(actual, DestinationDown(actual, FadeRate, min_level), "DIR_DOWN")
        \/ param' = param
    BY <1>4 DEF command_down, FadeBy200ms, AtLimit
  <2>3. param' \in FadeParam
    BY <1>0, <2>2, LevelsAreLevels, FadeCalcInRange
  <2> QED
    BY <1>0, <2>1, <2>3 DEF PlanOK
<1>5. CASE command_step_up
  BY <1>0, <1>5, StepIsLevel DEF command_step_up, StepTo, AtLimit, PlanOK
<1>6. CASE command_step_down
  BY <1>0, <1>6, StepIsLevel DEF command_step_down, StepTo, AtLimit, PlanOK
<1>7. CASE UpdateLevel
  BY <1>0, <1>7 DEF UpdateLevel, PlanOK, FadeParam
<1>8. CASE write_file
  BY <1>0, <1>8 DEF write_file, Image, PlanOK
<1>9. CASE PowerCycle
  BY <1>0, <1>9, LevelsAreLevels, NoFadeIsPlan DEF PowerCycle, PlanOK
<1>10. CASE UNCHANGED <<actual, disk, param>>
  BY <1>0, <1>10 DEF PlanOK
<1> QED
  BY <1>1, <1>2, <1>3, <1>4, <1>5, <1>6, <1>7, <1>8, <1>9, <1>10
     DEF Next, Command, CommandStep, CreateTask, PostStart, fade_task, FadeCheck,
         FadeBegin, FadeDrive, FadeAdvance, FadeEnd, FadePost, EventLoop,
         dimmer_handler, dali_handler, direct_power, LineReport, vars

\* Every step of a fade task leaves it somewhere, with a delay of 16 bits.
LEMMA TasksStep == PlanOK /\ TasksOK /\ [Next]_vars => TasksOK'
<1> SUFFICES ASSUME PlanOK, TasksOK, [Next]_vars PROVE TasksOK'
  OBVIOUS
<1> USE DEF state, fade, events, history
<1>0. param \in FadeParam /\ param.step_start \in UInt16Range
  <2>1. param \in FadeParam /\ param.step_start \in RawDelay
    BY DEF PlanOK, FadeParam
  <2> QED
    BY <2>1, DelaysFit
<1>1. NoTask \in [pc : TaskPc, tmp : UInt16Range]
  BY DEF NoTask, TaskPc, UInt16Range
<1>2. \A pc \in TaskPc, tmp \in UInt16Range :
         [pc |-> pc, tmp |-> tmp] \in [pc : TaskPc, tmp : UInt16Range]
  OBVIOUS
<1>3. 0 \in UInt16Range /\ \A pc \in {"created", "entered", "drive", "delay", "end", "post"} : pc \in TaskPc
  BY DEF UInt16Range, TaskPc
<1>4. ASSUME NEW t \in TaskIds, NEW new \in [pc : TaskPc, tmp : UInt16Range],
             task' = [task EXCEPT ![t] = new]
      PROVE  TasksOK'
  BY <1>4 DEF TasksOK
<1>5. CASE CreateTask
  BY <1>1, <1>2, <1>3, <1>4, <1>5 DEF CreateTask, TasksOK
<1>6. ASSUME NEW t \in TaskIds, fade_task(t) PROVE TasksOK'
  <2>1. task[t] \in [pc : TaskPc, tmp : UInt16Range]
    BY DEF TasksOK
  <2>2. CASE FadeCheck(t)
    BY <1>1, <1>2, <1>3, <1>4, <2>2 DEF FadeCheck
  <2>3. CASE FadeBegin(t)
    BY <1>0, <1>2, <1>3, <1>4, <2>3 DEF FadeBegin
  <2>4. CASE FadeDrive(t)
    BY <2>1, <2>4 DEF FadeDrive, TasksOK, TaskPc
  <2>5. CASE FadeAdvance(t)
    <3>1. NextRaw(task[t].tmp, param) \in UInt16Range
      BY <1>0, <2>1, NextRawIsUInt16
    <3> QED
      BY <1>2, <1>3, <1>4, <2>5, <3>1 DEF FadeAdvance
  <2>6. CASE FadeEnd(t)
    BY <1>2, <1>3, <1>4, <2>6 DEF FadeEnd
  <2>7. CASE FadePost(t)
    BY <1>1, <1>4, <2>7 DEF FadePost
  <2> QED
    BY <1>6, <2>2, <2>3, <2>4, <2>5, <2>6, <2>7 DEF fade_task
<1>7. CASE PowerCycle
  BY <1>1, <1>7 DEF PowerCycle, TasksOK
<1>8. CASE UNCHANGED task
  BY <1>8 DEF TasksOK
<1> QED
  BY <1>5, <1>6, <1>7, <1>8
     DEF Next, Command, direct_arc_power, command_off, command_up, command_down,
         FadeBy200ms, AtLimit, command_step_up, command_step_down, StepTo,
         CommandStep, PostStart, UpdateLevel, write_file, EventLoop,
         dimmer_handler, dali_handler, LineReport, vars

\* A task goes on only with a delay in range.
LEMMA DriveStep ==
    PlanOK /\ TasksOK /\ DriveInRange /\ [Next]_vars => DriveInRange'
<1> SUFFICES ASSUME PlanOK, TasksOK, DriveInRange, [Next]_vars PROVE DriveInRange'
  OBVIOUS
<1> USE DEF state, fade, events, history
<1>1. ASSUME NEW t \in TaskIds, NEW new,
             new.pc \in {"drive", "delay"} => new.tmp \in RawDelay,
             task' = [task EXCEPT ![t] = new]
      PROVE  DriveInRange'
  BY <1>1 DEF DriveInRange, TasksOK
<1>2. CASE CreateTask
  BY <1>1, <1>2 DEF CreateTask, DriveInRange
<1>3. ASSUME NEW t \in TaskIds, fade_task(t) PROVE DriveInRange'
  <2>1. CASE FadeCheck(t)
    BY <1>1, <2>1 DEF FadeCheck, NoTask
  <2>2. CASE FadeBegin(t)
    BY <1>1, <2>2 DEF FadeBegin, PlanOK, FadeParam
  <2>3. CASE FadeDrive(t)
    BY <2>3 DEF FadeDrive, DriveInRange, TasksOK
  <2>4. CASE FadeAdvance(t)
    <3>1. task[t].tmp \in RawDelay
      BY <2>4 DEF FadeAdvance, DriveInRange
    <3>2. GoesOn(NextRaw(task[t].tmp, param), param)
              => NextRaw(task[t].tmp, param) \in RawDelay
      BY <3>1, NextRawInRange DEF PlanOK
    <3> DEFINE tmp == NextRaw(task[t].tmp, param)
               new == [pc |-> IF GoesOn(tmp, param) THEN "drive" ELSE "end", tmp |-> tmp]
    <3>3. new.pc \in {"drive", "delay"} => new.tmp \in RawDelay
      BY <3>2
    <3>4. task' = [task EXCEPT ![t] = new]
      BY <2>4 DEF FadeAdvance
    <3> HIDE DEF new
    <3> QED
      BY <1>1, <3>3, <3>4
  <2>5. CASE FadeEnd(t)
    BY <1>1, <2>5 DEF FadeEnd
  <2>6. CASE FadePost(t)
    BY <1>1, <2>6 DEF FadePost, NoTask
  <2> QED
    BY <1>3, <2>1, <2>2, <2>3, <2>4, <2>5, <2>6 DEF fade_task
<1>4. CASE PowerCycle
  BY <1>4 DEF PowerCycle, NoTask, DriveInRange
<1>5. CASE UNCHANGED task
  BY <1>5 DEF DriveInRange
<1> QED
  BY <1>2, <1>3, <1>4, <1>5
     DEF Next, Command, direct_arc_power, command_off, command_up, command_down,
         FadeBy200ms, AtLimit, command_step_up, command_step_down, StepTo,
         CommandStep, PostStart, UpdateLevel, write_file, EventLoop,
         dimmer_handler, dali_handler, LineReport, vars

\* Whoever writes raw_pwm_time writes a delay in range.
LEMMA RawStep ==
    PlanOK /\ PlanOK' /\ DriveInRange /\ DelayInsideHalfWave /\ [Next]_vars
        => DelayInsideHalfWave'
<1> SUFFICES ASSUME PlanOK, PlanOK', DriveInRange, DelayInsideHalfWave, [Next]_vars
             PROVE  DelayInsideHalfWave'
  OBVIOUS
<1> USE DEF state, fade, events, history
<1>1. ASSUME NEW l \in Level, raw' = RawLevel(l) PROVE DelayInsideHalfWave'
  BY <1>1, RawLevelRange DEF DelayInsideHalfWave
<1>2. CASE command_step_up \/ command_step_down
  BY <1>1, <1>2, StepIsLevel
     DEF command_step_up, command_step_down, StepTo, AtLimit, DelayInsideHalfWave, PlanOK
<1>3. ASSUME NEW t \in TaskIds, FadeDrive(t) PROVE DelayInsideHalfWave'
  BY <1>3 DEF FadeDrive, DriveInRange, DelayInsideHalfWave
<1>4. CASE dali_handler
  BY <1>1, <1>4, LevelsAssumption DEF dali_handler, direct_power, DelayInsideHalfWave
<1>5. CASE PowerCycle
  BY <1>1, <1>5 DEF PowerCycle, PlanOK
<1>6. CASE UNCHANGED raw
  BY <1>6 DEF DelayInsideHalfWave
<1> QED
  BY <1>2, <1>3, <1>4, <1>5, <1>6
     DEF Next, Command, direct_arc_power, command_off, command_up, command_down,
         FadeBy200ms, AtLimit, CommandStep, CreateTask, PostStart, UpdateLevel,
         write_file, fade_task, FadeCheck, FadeBegin, FadeAdvance, FadeEnd,
         FadePost, EventLoop, dimmer_handler, LineReport, vars

\* The inductive invariant holds in every reachable state.
THEOREM DelayCorrect == Spec => []DelayInv
<1>1. Init => DelayInv
  BY DelayInitially
<1>2. DelayInv /\ [Next]_vars => DelayInv'
  BY PlanStep, TasksStep, DriveStep, RawStep DEF DelayInv
<1> QED
  BY <1>1, <1>2, PTL DEF Spec

\* For every choice of levels, operations and fade tasks, and under every
\* interleaving of them with failures of the line and of the mains: the delay
\* at which the triac is fired is one that raw_level gives some level, or lies
\* between two of them.
THEOREM DelayStaysInside == Spec => []DelayInsideHalfWave
<1>1. DelayInv => DelayInsideHalfWave
  BY DEF DelayInv
<1> QED
  BY <1>1, DelayCorrect, PTL

\* A fade task never drives a delay that has wrapped round its 16 bits.
THEOREM DriveStaysInRange == Spec => []DriveInRange
<1>1. DelayInv => DriveInRange
  BY DEF DelayInv
<1> QED
  BY <1>1, DelayCorrect, PTL

-----------------------------------------------------------------------------
(* Type correctness.                                                       *)

DiskOK == disk \in [actual : Level, lampOn : BOOLEAN]

CmdOK == cmd \in Plans

QueueOK == queue \in Seq(Events) /\ Len(queue) <= QueueLen /\ losses \in Nat

LEMMA TypeInitially == Init => Flags \subseteq BOOLEAN /\ DiskOK /\ CmdOK /\ QueueOK
<1> SUFFICES ASSUME Init
             PROVE  Flags \subseteq BOOLEAN /\ DiskOK /\ CmdOK /\ QueueOK
  OBVIOUS
<1>1. Flags \subseteq BOOLEAN
  BY DEF Init, Flags
<1>2. DiskOK
  BY DEF Init, DefaultImage, DiskOK, Level
<1>3. CmdOK
  BY DEF Init, Idle, CmdOK, Plans
<1>4. QueueOK
  BY EmptySeq, QueueAssumption DEF Init, QueueOK
<1> QED
  BY <1>1, <1>2, <1>3, <1>4

\* Every step leaves the flags true or false.
LEMMA FlagsStep == Flags \subseteq BOOLEAN /\ [Next]_vars => Flags' \subseteq BOOLEAN
<1> SUFFICES ASSUME Flags \subseteq BOOLEAN, [Next]_vars
             PROVE  Flags' \subseteq BOOLEAN
  OBVIOUS
<1> USE DEF Flags, state, fade, events, history
<1>1. CASE Command
  BY <1>1 DEF Command, direct_arc_power, command_off, command_up, command_down,
              FadeBy200ms, AtLimit, command_step_up, command_step_down, StepTo
<1>2. CASE CommandStep
  BY <1>2 DEF CommandStep, CreateTask, PostStart, UpdateLevel, write_file
<1>3. ASSUME NEW t \in TaskIds, fade_task(t) PROVE Flags' \subseteq BOOLEAN
  BY <1>3 DEF fade_task, FadeCheck, FadeBegin, FadeDrive, FadeAdvance, FadeEnd, FadePost
<1>4. CASE EventLoop
  BY <1>4 DEF EventLoop, dimmer_handler, dali_handler, direct_power
<1>5. CASE LineReport
  BY <1>5 DEF LineReport
<1>6. CASE PowerCycle
  BY <1>6 DEF PowerCycle
<1>7. CASE UNCHANGED vars
  BY <1>7 DEF vars
<1> QED
  BY <1>1, <1>2, <1>3, <1>4, <1>5, <1>6, <1>7 DEF Next

\* The file holds a level and a flag.
LEMMA DiskStep ==
    Flags \subseteq BOOLEAN /\ PlanOK /\ DiskOK /\ [Next]_vars => DiskOK'
<1> SUFFICES ASSUME Flags \subseteq BOOLEAN, PlanOK, DiskOK, [Next]_vars PROVE DiskOK'
  OBVIOUS
<1> USE DEF state, fade, events, history
<1>1. CASE write_file
  <2>1. lampOn \in BOOLEAN
    BY DEF Flags
  <2>2. actual \in Level
    BY DEF PlanOK
  <2> QED
    BY <1>1, <2>1, <2>2 DEF write_file, Image, DiskOK
<1>2. CASE UNCHANGED disk
  BY <1>2 DEF DiskOK
<1> QED
  BY <1>1, <1>2
     DEF Next, Command, direct_arc_power, command_off, command_up, command_down,
         FadeBy200ms, AtLimit, command_step_up, command_step_down, StepTo,
         CommandStep, CreateTask, PostStart, UpdateLevel, fade_task, FadeCheck,
         FadeBegin, FadeDrive, FadeAdvance, FadeEnd, FadePost, EventLoop,
         dimmer_handler, dali_handler, LineReport, PowerCycle, vars

\* What is left of a plan after its first step is a plan.
LEMMA TailOfPlan == \A p \in Plans : p # <<>> => Tail(p) \in Plans
<1> SUFFICES ASSUME NEW p \in Plans, p # <<>> PROVE Tail(p) \in Plans
  OBVIOUS
<1>1. CASE p = <<"write">>
  <2>1. Tail(p) = <<>>
    BY <1>1
  <2> QED
    BY <2>1 DEF Plans
<1>2. CASE p = <<"create", "post", "write">>
  <2>1. Tail(p) = <<"post", "write">>
    BY <1>2
  <2> QED
    BY <2>1 DEF Plans
<1>3. CASE p = <<"post", "write">>
  <2>1. Tail(p) = <<"write">>
    BY <1>3
  <2> QED
    BY <2>1 DEF Plans
<1>4. CASE p = <<"post", "create", "update", "write">>
  <2>1. Tail(p) = <<"create", "update", "write">>
    BY <1>4
  <2> QED
    BY <2>1 DEF Plans
<1>5. CASE p = <<"create", "update", "write">>
  <2>1. Tail(p) = <<"update", "write">>
    BY <1>5
  <2> QED
    BY <2>1 DEF Plans
<1>6. CASE p = <<"update", "write">>
  <2>1. Tail(p) = <<"write">>
    BY <1>6
  <2> QED
    BY <2>1 DEF Plans
<1> QED
  BY <1>1, <1>2, <1>3, <1>4, <1>5, <1>6 DEF Plans

\* What an operation has left to do is the end of one of the four plans.
LEMMA CmdStep == CmdOK /\ [Next]_vars => CmdOK'
<1> SUFFICES ASSUME CmdOK, [Next]_vars PROVE CmdOK'
  OBVIOUS
<1> USE DEF state, fade, events, history
<1>1. ASSUME cmd # <<>>, cmd' = Tail(cmd) PROVE CmdOK'
  BY <1>1, TailOfPlan DEF CmdOK
<1>2. CASE CommandStep
  BY <1>1, <1>2 DEF CommandStep, CreateTask, PostStart, UpdateLevel, write_file, Left, Idle
<1>3. CASE Command
  BY <1>3 DEF Command, direct_arc_power, command_off, command_up, command_down,
              FadeBy200ms, AtLimit, command_step_up, command_step_down, StepTo,
              CmdOK, Plans
<1>4. CASE PowerCycle
  BY <1>4 DEF PowerCycle, Idle, CmdOK, Plans
<1>5. CASE UNCHANGED cmd
  BY <1>5 DEF CmdOK
<1> QED
  BY <1>2, <1>3, <1>4, <1>5
     DEF Next, fade_task, FadeCheck, FadeBegin, FadeDrive, FadeAdvance, FadeEnd,
         FadePost, EventLoop, dimmer_handler, dali_handler, LineReport, vars

\* The queue holds events, and never more than it has room for.
LEMMA QueueStep == QueueOK /\ [Next]_vars => QueueOK'
<1> SUFFICES ASSUME QueueOK, [Next]_vars PROVE QueueOK'
  OBVIOUS
<1> USE DEF state, fade, events, history
<1>1. ASSUME NEW e \in Events, Len(queue) < QueueLen, queue' = Append(queue, e),
             losses' \in Nat
      PROVE  QueueOK'
  <2>1. queue' \in Seq(Events) /\ Len(queue') = Len(queue) + 1
    BY <1>1, AppendProperties DEF QueueOK
  <2>2. Len(queue) \in Nat /\ QueueLen \in Nat
    BY LenProperties, QueueAssumption DEF QueueOK
  <2> QED
    BY <1>1, <2>1, <2>2 DEF QueueOK
<1>2. \A e \in {"DIMMER_BUSY_START", "DIMMER_BUSY_END", "DALI_HAT_ERROR",
                "DALI_HAT_NORMAL"} : e \in Events
  BY DEF Events
<1>3. ASSUME queue # <<>>, queue' = Tail(queue), UNCHANGED losses PROVE QueueOK'
  <2>1. queue' \in Seq(Events) /\ Len(queue') = Len(queue) - 1
    BY <1>3, HeadTailProperties DEF QueueOK
  <2>2. Len(queue) \in Nat /\ QueueLen \in Nat
    BY LenProperties, QueueAssumption DEF QueueOK
  <2> QED
    BY <1>3, <2>1, <2>2 DEF QueueOK
<1>4. CASE PostStart
  BY <1>1, <1>2, <1>4 DEF PostStart, QueueOK
<1>5. ASSUME NEW t \in TaskIds, FadePost(t) PROVE QueueOK'
  BY <1>1, <1>2, <1>5 DEF FadePost, QueueOK
<1>6. CASE EventLoop
  BY <1>3, <1>6 DEF EventLoop, dimmer_handler, dali_handler, direct_power, Handle
<1>7. CASE LineReport
  <2>1. losses' \in Nat
    BY <1>7 DEF LineReport, QueueOK
  <2>2. \/ \E e \in Events : Len(queue) < QueueLen /\ queue' = Append(queue, e)
        \/ UNCHANGED queue
    BY <1>2, <1>7 DEF LineReport
  <2> QED
    BY <1>1, <2>1, <2>2 DEF QueueOK
<1>8. CASE PowerCycle
  BY <1>8, EmptySeq, QueueAssumption DEF PowerCycle, QueueOK
<1>9. CASE UNCHANGED <<queue, losses>>
  BY <1>9 DEF QueueOK
<1> QED
  BY <1>4, <1>5, <1>6, <1>7, <1>8, <1>9
     DEF Next, Command, direct_arc_power, command_off, command_up, command_down,
         FadeBy200ms, AtLimit, command_step_up, command_step_down, StepTo,
         CommandStep, CreateTask, UpdateLevel, write_file, fade_task, FadeCheck,
         FadeBegin, FadeDrive, FadeAdvance, FadeEnd, vars

\* Every reachable state of the dimmer is well typed, for all constants: the
\* file always holds a level, an operation is always at the end of a plan, and
\* the queue keeps its bound.
THEOREM TypeCorrect == Spec => []TypeOK
<1> DEFINE Rest == Flags \subseteq BOOLEAN /\ DiskOK /\ CmdOK /\ QueueOK
<1>1. Init => Rest
  BY TypeInitially
<1>2. Rest /\ DelayInv /\ [Next]_vars => Rest'
  BY FlagsStep, DiskStep, CmdStep, QueueStep DEF DelayInv
<1>3. DelayInv /\ Rest => TypeOK
  BY DelaysFit
     DEF DelayInv, PlanOK, TasksOK, DelayInsideHalfWave, DiskOK, CmdOK, QueueOK,
         TypeOK, DimmerOK, WorkOK
<1> QED
  BY <1>1, <1>2, <1>3, DelayCorrect, PTL DEF Spec

-----------------------------------------------------------------------------
(* One fade at a time.  fade_running is asked in one step and set in a     *)
(* later one, by the operation and again by the task, so the flag alone    *)
(* keeps nothing apart.  What does is that the one command task calls the  *)
(* operations: an operation that will create a task has found no other,    *)
(* if those created before have begun (Prompt).                            *)

Running(t) == task[t].pc \in {"drive", "delay", "end"}
Alive(t)   == task[t].pc \in {"created", "entered"} \/ Running(t)

\* The operation is going to create a task.
Creating == cmd \in { <<"create", "post", "write">>,
                      <<"post", "create", "update", "write">>,
                      <<"create", "update", "write">> }

OneFadeInv == /\ \A t, u \in TaskIds : Alive(t) /\ Alive(u) => t = u
              /\ \A t \in TaskIds : Running(t) => fadeRunning = TRUE
              /\ Creating => \A t \in TaskIds : ~Alive(t)

\* What is left of a plan creates no task that the plan would not.
LEMMA CreatingTail ==
    ASSUME CmdOK, cmd # <<>>, cmd' = Tail(cmd), Creating'
    PROVE  Creating
<1>1. Tail(<<"write">>) = <<>>
  OBVIOUS
<1>2. Tail(<<"post", "write">>) = <<"write">> /\ Tail(<<"update", "write">>) = <<"write">>
  OBVIOUS
<1>3. cmd \notin {<<>>, <<"write">>, <<"post", "write">>, <<"update", "write">>}
  BY <1>1, <1>2 DEF Creating
<1> QED
  BY <1>3 DEF CmdOK, Plans, Creating

\* A task is created only by an operation that is going to, and which is then
\* done with it.
LEMMA CreateOnce ==
    ASSUME CmdOK, Left("create")
    PROVE  Creating /\ ~Creating'
<1>1. Head(<<"write">>) # "create"
  OBVIOUS
<1>2. Head(<<"post", "write">>) # "create"
  OBVIOUS
<1>3. Head(<<"update", "write">>) # "create"
  OBVIOUS
<1>4. Head(<<"post", "create", "update", "write">>) # "create"
  OBVIOUS
<1>5. cmd = <<"create", "post", "write">> \/ cmd = <<"create", "update", "write">>
  BY <1>1, <1>2, <1>3, <1>4 DEF CmdOK, Plans, Left, Idle
<1>6. Tail(<<"create", "post", "write">>) = <<"post", "write">>
  OBVIOUS
<1>7. Tail(<<"create", "update", "write">>) = <<"update", "write">>
  OBVIOUS
<1>8. cmd' = <<"post", "write">> \/ cmd' = <<"update", "write">>
  BY <1>5, <1>6, <1>7 DEF Left
<1> QED
  BY <1>5, <1>8 DEF Creating

LEMMA OneFadeStep ==
    ASSUME Prompt = TRUE, TasksOK, CmdOK, OneFadeInv, [Next]_vars
    PROVE  OneFadeInv'
<1> USE DEF state, fade, events, history
<1>1. ASSUME UNCHANGED <<task, fadeRunning>>, Creating' => Creating PROVE OneFadeInv'
  BY <1>1 DEF OneFadeInv, Alive, Running
<1>2. ASSUME MayCall("arc") \/ MayCall("up") \/ MayCall("down"), ~fadeRunning,
             UNCHANGED <<task, fadeRunning>>
      PROVE  OneFadeInv'
  <2>1. \A t \in TaskIds : task[t].pc \notin {"created", "entered"}
    BY <1>2 DEF MayCall
  <2>2. \A t \in TaskIds : ~Running(t)
    BY <1>2 DEF OneFadeInv
  <2>3. \A t \in TaskIds : ~Alive(t) /\ ~Alive(t)' /\ ~Running(t)'
    BY <1>2, <2>1, <2>2 DEF Alive, Running
  <2> QED
    BY <2>3 DEF OneFadeInv
<1>3. ASSUME cmd' = <<"write">> \/ cmd' = cmd, UNCHANGED <<task, fadeRunning>>
      PROVE  OneFadeInv'
  BY <1>1, <1>3 DEF Creating
<1>4. CASE Command
  <2>1. CASE direct_arc_power
    BY <1>2, <2>1 DEF direct_arc_power, MayFade
  <2>2. CASE command_up
    BY <1>2, <1>3, <2>2 DEF command_up, FadeBy200ms, MayFade, AtLimit
  <2>3. CASE command_down
    BY <1>2, <1>3, <2>3 DEF command_down, FadeBy200ms, MayFade, AtLimit
  <2>4. CASE command_off \/ command_step_up \/ command_step_down
    BY <1>3, <2>4 DEF command_off, command_step_up, command_step_down, StepTo, AtLimit
  <2> QED
    BY <1>4, <2>1, <2>2, <2>3, <2>4 DEF Command
<1>5. CASE CreateTask
  <2>1. Creating /\ ~Creating'
    BY <1>5, CreateOnce DEF CreateTask
  <2>2. \A t \in TaskIds : ~Alive(t)
    BY <2>1 DEF OneFadeInv
  <2>3. UNCHANGED fadeRunning
    BY <1>5 DEF CreateTask
  <2>4. CASE UNCHANGED task
    BY <1>1, <2>1, <2>3, <2>4
  <2>5. ASSUME NEW t \in TaskIds,
               task' = [task EXCEPT ![t] = [pc |-> "created", tmp |-> 0]]
        PROVE  OneFadeInv'
    <3>1. \A u \in TaskIds \ {t} : ~Alive(u)'
      BY <2>2, <2>5 DEF Alive, Running, TasksOK
    <3>2. \A u \in TaskIds : ~Running(u)'
      BY <2>2, <2>5 DEF Alive, Running, TasksOK
    <3> QED
      BY <2>1, <3>1, <3>2 DEF OneFadeInv
  <2> QED
    BY <1>5, <2>4, <2>5 DEF CreateTask
<1>6. CASE PostStart \/ UpdateLevel \/ write_file
  <2>1. cmd # <<>> /\ cmd' = Tail(cmd) /\ UNCHANGED <<task, fadeRunning>>
    BY <1>6 DEF PostStart, UpdateLevel, write_file, Left, Idle
  <2>2. Creating' => Creating
    BY <2>1, CreatingTail
  <2> QED
    BY <1>1, <2>1, <2>2
<1>7. ASSUME NEW t \in TaskIds, fade_task(t) PROVE OneFadeInv'
  <2>1. UNCHANGED cmd /\ (\A u \in TaskIds \ {t} : task'[u] = task[u])
    BY <1>7 DEF fade_task, FadeCheck, FadeBegin, FadeDrive, FadeAdvance, FadeEnd,
                FadePost, TasksOK
  <2>2. Creating' <=> Creating
    BY <2>1 DEF Creating
  <2>3. \A u \in TaskIds \ {t} : (Alive(u)' <=> Alive(u)) /\ (Running(u)' <=> Running(u))
    BY <2>1 DEF Alive, Running
  <2>4. CASE ~Running(t)' /\ (Alive(t)' => Alive(t)) /\ UNCHANGED fadeRunning
    BY <2>2, <2>3, <2>4 DEF OneFadeInv
  <2>5. CASE Alive(t) /\ Running(t)' /\ fadeRunning' = TRUE
    <3>1. Alive(t)'
      BY <2>5 DEF Alive
    <3>2. \A u \in TaskIds : Alive(u)' => Alive(u)
      BY <2>3, <2>5
    <3>3. ~Creating
      BY <2>5 DEF OneFadeInv
    <3> QED
      BY <2>2, <2>5, <3>2, <3>3 DEF OneFadeInv
  <2>6. CASE Running(t) /\ ~Running(t)' /\ ~Alive(t)'
    <3>1. \A u \in TaskIds : ~Alive(u)'
      BY <2>3, <2>6 DEF OneFadeInv, Alive
    <3>2. \A u \in TaskIds : ~Running(u)'
      BY <3>1 DEF Alive
    <3> QED
      BY <3>1, <3>2 DEF OneFadeInv
  <2>7. CASE FadeCheck(t)
    BY <2>4, <2>7 DEF FadeCheck, Alive, Running, NoTask, TasksOK
  <2>8. CASE FadeBegin(t)
    BY <2>5, <2>8 DEF FadeBegin, Alive, Running, TasksOK
  <2>9. CASE FadeDrive(t) \/ FadeAdvance(t)
    <3>1. Running(t) /\ UNCHANGED fadeRunning
      BY <2>9 DEF FadeDrive, FadeAdvance, Running
    <3>2. Running(t)'
      BY <2>9 DEF FadeDrive, FadeAdvance, Running, TasksOK
    <3>3. fadeRunning = TRUE /\ Alive(t)
      BY <3>1 DEF OneFadeInv, Alive
    <3> QED
      BY <2>5, <3>1, <3>2, <3>3
  <2>10. CASE FadeEnd(t)
    BY <2>6, <2>10 DEF FadeEnd, Alive, Running, TasksOK
  <2>11. CASE FadePost(t)
    BY <2>4, <2>11 DEF FadePost, Alive, Running, NoTask, TasksOK
  <2> QED
    BY <1>7, <2>7, <2>8, <2>9, <2>10, <2>11 DEF fade_task
<1>8. CASE EventLoop \/ LineReport \/ UNCHANGED vars
  BY <1>3, <1>8 DEF EventLoop, dimmer_handler, dali_handler, LineReport, vars
<1>9. CASE PowerCycle
  <2>1. \A t \in TaskIds : ~Alive(t)' /\ ~Running(t)'
    BY <1>9 DEF PowerCycle, NoTask, Alive, Running
  <2> QED
    BY <2>1 DEF OneFadeInv
<1> QED
  BY <1>4, <1>5, <1>6, <1>7, <1>8, <1>9 DEF Next, CommandStep

\* Two fades never drive the triac at the same time, for every set of
\* operations, levels and tasks, although nothing makes the question "does a
\* fade run?" and the answer one step: as long as a fade task has begun when
\* the next operation is called.
THEOREM OneFadeAtATime == ASSUME Prompt = TRUE PROVE Spec => []OneFade
<1> DEFINE Inv == CmdOK /\ OneFadeInv
<1>1. Init => Inv
  <2>1. ASSUME Init PROVE \A t \in TaskIds : ~Alive(t) /\ ~Running(t)
    BY <2>1 DEF Init, NoTask, Alive, Running
  <2> QED
    BY <2>1, TypeInitially DEF OneFadeInv
<1>2. Inv /\ DelayInv /\ [Next]_vars => Inv'
  BY OneFadeStep, CmdStep DEF DelayInv
<1>3. Inv => OneFade
  BY DEF OneFadeInv, OneFade, Alive, Running
<1> QED
  BY <1>1, <1>2, <1>3, DelayCorrect, PTL DEF Spec

-----------------------------------------------------------------------------
(* The level reported, for the two operations dali_callback calls.         *)

LimitLevel == {0} \cup (min_level..max_level)

\* Only the 200 ms fades set the level to the planned one.
NoUpdate == cmd \in { <<>>, <<"write">>, <<"post", "write">>,
                      <<"create", "post", "write">> }

LimitInv == /\ actual \in LimitLevel /\ disk.actual \in LimitLevel
            /\ NoUpdate

\* The rest of a plan without an update is one.
LEMMA NoUpdateTail == NoUpdate /\ cmd # <<>> /\ cmd' = Tail(cmd) => NoUpdate'
<1>1. Tail(<<"write">>) = <<>>
  OBVIOUS
<1>2. Tail(<<"post", "write">>) = <<"write">>
  OBVIOUS
<1>3. Tail(<<"create", "post", "write">>) = <<"post", "write">>
  OBVIOUS
<1> QED
  BY <1>1, <1>2, <1>3 DEF NoUpdate

\* It never comes to one.
LEMMA NoUpdateFirst == NoUpdate => ~Left("update")
<1>1. Head(<<"write">>) # "update"
  OBVIOUS
<1>2. Head(<<"post", "write">>) # "update"
  OBVIOUS
<1>3. Head(<<"create", "post", "write">>) # "update"
  OBVIOUS
<1> QED
  BY <1>1, <1>2, <1>3 DEF NoUpdate, Left, Idle

\* What direct_arc_power is asked for is brought between the limits.
LEMMA ClampInLimits == \A l \in ArcLevels : Clamp(l) \in LimitLevel
<1> SUFFICES ASSUME NEW l \in ArcLevels PROVE Clamp(l) \in LimitLevel
  OBVIOUS
<1>1. min_level \in Int /\ max_level \in Int /\ min_level <= max_level /\ l \in Int
  BY LevelsAssumption DEF Level
<1> QED
  BY <1>1 DEF Clamp, LimitLevel

LEMMA LimitStep ==
    ASSUME Ops \subseteq {"arc", "off"}, LimitInv, [Next]_vars,
           PowerOnLevel \in (min_level..max_level) \cup {255}
    PROVE  LimitInv'
<1> USE DEF state, fade, events, history
<1>1. \A op \in {"up", "down", "step_up", "step_down"} : ~MayCall(op)
  BY DEF MayCall
<1>2. CASE direct_arc_power
  <2>1. actual' \in LimitLevel
    BY <1>2, ClampInLimits DEF direct_arc_power
  <2>2. cmd' = <<"create", "post", "write">> /\ UNCHANGED disk
    BY <1>2 DEF direct_arc_power
  <2> QED
    BY <2>1, <2>2 DEF LimitInv, NoUpdate
<1>3. CASE command_off
  BY <1>3 DEF command_off, LimitInv, LimitLevel, NoUpdate
<1>4. CASE CommandStep
  <2>1. cmd # <<>> /\ cmd' = Tail(cmd)
    BY <1>4 DEF CommandStep, CreateTask, PostStart, UpdateLevel, write_file, Left, Idle
  <2>2. NoUpdate'
    BY <2>1, NoUpdateTail DEF LimitInv
  <2>3. ~UpdateLevel
    BY NoUpdateFirst DEF UpdateLevel, LimitInv
  <2> QED
    BY <1>4, <2>2, <2>3
       DEF CommandStep, CreateTask, PostStart, write_file, Image, LimitInv
<1>5. CASE PowerCycle
  BY <1>5 DEF PowerCycle, StartLevel, LimitInv, LimitLevel, NoUpdate, Idle
<1>6. CASE UNCHANGED <<actual, disk, cmd>>
  BY <1>6 DEF LimitInv, NoUpdate
<1> QED
  BY <1>1, <1>2, <1>3, <1>4, <1>5, <1>6
     DEF Next, Command, command_up, command_down, FadeBy200ms, AtLimit,
         MayFade, command_step_up, command_step_down, StepTo, fade_task,
         FadeCheck, FadeBegin, FadeDrive, FadeAdvance, FadeEnd, FadePost,
         EventLoop, dimmer_handler, dali_handler, LineReport, vars

\* With direct_arc_power and command_off alone, and a power on level inside
\* the limits, the level that the dimmer reports, keeps in its file and comes
\* back with is off or inside them.
THEOREM ActualStaysInLimits ==
    ASSUME Ops \subseteq {"arc", "off"},
           PowerOnLevel \in (min_level..max_level) \cup {255}
    PROVE  Spec => []ActualInLimits
<1>1. Init => LimitInv
  BY DEF Init, DefaultImage, StartLevel, LimitInv, LimitLevel, NoUpdate, Idle
<1>2. LimitInv /\ [Next]_vars => LimitInv'
  BY LimitStep
<1>3. LimitInv => ActualInLimits
  BY DEF LimitInv, LimitLevel, ActualInLimits
<1> QED
  BY <1>1, <1>2, <1>3, PTL DEF Spec
=============================================================================

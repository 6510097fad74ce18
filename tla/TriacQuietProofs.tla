-------------------------- MODULE TriacQuietProofs --------------------------
(***************************************************************************)
(* What is proved of TriacDimmer for the time when nobody is in the middle *)
(* of anything: what the file holds, what main.cpp knows of the line, what *)
(* busy says, and what the lamp shines at.  Each is about an order of      *)
(* steps of several tasks, so each has an invariant that says what is      *)
(* still to come while they are under way.                                 *)
(***************************************************************************)
EXTENDS TriacDimmerProofs

-----------------------------------------------------------------------------
(* The file.                                                               *)

\* Between two operations the file holds the level.
SavedInv == cmd = Idle => disk.actual = actual

\* Only the write is ever the last step of an operation.
LEMMA LastIsWrite ==
    ASSUME CmdOK, cmd # <<>>, Tail(cmd) = <<>>
    PROVE  cmd = <<"write">>
<1>1. Tail(<<"post", "write">>) = <<"write">> /\ Tail(<<"update", "write">>) = <<"write">>
  OBVIOUS
<1>2. Tail(<<"create", "post", "write">>) = <<"post", "write">>
  OBVIOUS
<1>3. Tail(<<"create", "update", "write">>) = <<"update", "write">>
  OBVIOUS
<1>4. Tail(<<"post", "create", "update", "write">>) = <<"create", "update", "write">>
  OBVIOUS
<1> QED
  BY <1>1, <1>2, <1>3, <1>4 DEF CmdOK, Plans

LEMMA SavedStep ==
    ASSUME PowerOnLevel = 255, CmdOK, SavedInv, [Next]_vars
    PROVE  SavedInv'
<1> USE DEF state, fade, events, history, SavedInv
<1>1. CASE Command
  <2>1. CASE AtLimit("up") \/ AtLimit("down") \/ AtLimit("step_up")
    BY <2>1 DEF AtLimit
  <2>2. CASE cmd' # <<>>
    BY <2>2 DEF Idle
  <2> QED
    BY <1>1, <2>1, <2>2
       DEF Command, direct_arc_power, command_off, command_up, command_down,
           FadeBy200ms, command_step_up, command_step_down, StepTo
<1>2. CASE CreateTask \/ PostStart \/ UpdateLevel
  <2>1. cmd # <<>> /\ cmd # <<"write">> /\ cmd' = Tail(cmd)
    <3>1. Head(<<"write">>) = "write"
      OBVIOUS
    <3> QED
      BY <1>2, <3>1 DEF CreateTask, PostStart, UpdateLevel, Left, Idle
  <2>2. cmd' # <<>>
    BY <2>1, LastIsWrite
  <2> QED
    BY <2>2 DEF Idle
<1>3. CASE write_file
  BY <1>3 DEF write_file, Image
<1>4. CASE PowerCycle
  BY <1>4 DEF PowerCycle, StartLevel
<1>5. CASE UNCHANGED <<cmd, disk, actual>>
  BY <1>5
<1> QED
  BY <1>1, <1>2, <1>3, <1>4, <1>5
     DEF Next, CommandStep, fade_task, FadeCheck, FadeBegin, FadeDrive, FadeAdvance,
         FadeEnd, FadePost, EventLoop, dimmer_handler, dali_handler, LineReport, vars
\* However often the mains fail: a dimmer that is to come back at its last
\* level comes back at the level it reported, unless they failed during an
\* operation, which has a write to do until it is over.
THEOREM LastLevelRestored == ASSUME PowerOnLevel = 255 PROVE Spec => RestartsAtLastLevel
<1> DEFINE Inv == CmdOK /\ SavedInv
<1>1. Init => Inv
  BY TypeInitially DEF Init, SavedInv, StartLevel
<1>2. Inv /\ [Next]_vars => Inv'
  BY CmdStep, SavedStep
<1>3. Inv /\ [Next]_vars => (PowerCycle /\ cmd = Idle => actual' = actual)
  BY DEF SavedInv, PowerCycle, StartLevel
<1>4. [][Next]_vars /\ []Inv => RestartsAtLastLevel
  BY <1>3, PTL DEF RestartsAtLastLevel
<1> QED
  BY <1>1, <1>2, <1>4, PTL DEF Spec

-----------------------------------------------------------------------------
(* The last event of a kind in the queue: it decides what its handler      *)
(* leaves when all are handled.                                            *)

LastIn(q, S, e) == \E i \in 1..Len(q) : q[i] = e /\ \A j \in (i + 1)..Len(q) : q[j] \notin S

NoneIn(q, S) == \A i \in 1..Len(q) : q[i] \notin S

\* A new event of the kind is the last, and another one changes nothing.
LEMMA LastOfAppend ==
    ASSUME NEW q \in Seq(Events), NEW e \in Events, NEW S
    PROVE  /\ LastIn(Append(q, e), S, e)
           /\ e \notin S => /\ \A f : LastIn(q, S, f) => LastIn(Append(q, e), S, f)
                            /\ NoneIn(q, S) => NoneIn(Append(q, e), S)
<1> DEFINE r == Append(q, e)
<1>1. /\ Len(r) = Len(q) + 1 /\ Len(q) \in Nat
      /\ \A i \in 1..Len(q) : r[i] = q[i]
      /\ r[Len(q) + 1] = e
  BY AppendProperties, LenProperties
<1> HIDE DEF r
<1>2. LastIn(r, S, e)
  BY <1>1 DEF LastIn
<1>3. ASSUME e \notin S, NEW f, LastIn(q, S, f) PROVE LastIn(r, S, f)
  <2>1. PICK i \in 1..Len(q) : q[i] = f /\ \A j \in (i + 1)..Len(q) : q[j] \notin S
    BY <1>3 DEF LastIn
  <2>2. i \in 1..Len(r) /\ r[i] = f
    BY <1>1, <2>1
  <2>3. ASSUME NEW j \in (i + 1)..Len(r) PROVE r[j] \notin S
    BY <1>1, <1>3, <2>1
  <2> QED
    BY <2>2, <2>3 DEF LastIn
<1>4. e \notin S /\ NoneIn(q, S) => NoneIn(r, S)
  BY <1>1 DEF NoneIn
<1> QED
  BY <1>2, <1>3, <1>4 DEF r

\* When the first event is taken, the last one still is, unless it was that.
LEMMA LastOfTail ==
    ASSUME NEW q \in Seq(Events), q # <<>>, NEW S
    PROVE  /\ \A e : LastIn(q, S, e) => \/ LastIn(Tail(q), S, e)
                                        \/ Head(q) = e /\ NoneIn(Tail(q), S)
           /\ NoneIn(q, S) => Head(q) \notin S /\ NoneIn(Tail(q), S)
<1> DEFINE r == Tail(q)
<1>1. /\ Len(r) = Len(q) - 1 /\ Len(q) \in Nat \ {0}
      /\ \A i \in 1..Len(r) : r[i] = q[i + 1]
      /\ Head(q) = q[1]
  BY HeadTailProperties, EmptySeq, LenProperties
<1> HIDE DEF r
<1>2. ASSUME NEW e, LastIn(q, S, e)
      PROVE  LastIn(r, S, e) \/ (Head(q) = e /\ NoneIn(r, S))
  <2>1. PICK i \in 1..Len(q) : q[i] = e /\ \A j \in (i + 1)..Len(q) : q[j] \notin S
    BY <1>2 DEF LastIn
  <2>2. CASE i = 1
    BY <1>1, <2>1, <2>2 DEF NoneIn
  <2>3. CASE i > 1
    <3>1. i - 1 \in 1..Len(r) /\ r[i - 1] = e
      BY <1>1, <2>1, <2>3
    <3>2. ASSUME NEW j \in ((i - 1) + 1)..Len(r) PROVE r[j] \notin S
      BY <1>1, <2>1, <2>3
    <3> QED
      BY <3>1, <3>2 DEF LastIn
  <2> QED
    BY <2>1, <2>2, <2>3
<1>3. NoneIn(q, S) => Head(q) \notin S /\ NoneIn(r, S)
  BY <1>1 DEF NoneIn
<1> QED
  BY <1>2, <1>3 DEF r

\* In an empty queue there is no event.
LEMMA NoneInEmpty ==
    ASSUME NEW q, q = <<>>, NEW S
    PROVE  NoneIn(q, S) /\ \A e : ~LastIn(q, S, e)
BY DEF NoneIn, LastIn

-----------------------------------------------------------------------------
(* The line.                                                               *)

LineEvents == {"DALI_HAT_ERROR", "DALI_HAT_NORMAL"}

Verdict == IF hatError THEN "DALI_HAT_ERROR" ELSE "DALI_HAT_NORMAL"

\* As long as every report of adc_task found room, its last verdict is on its
\* way, or main.cpp knows it; and with a lost line the lamp then burns, unless
\* an OFF has been carried out since.
LineInv ==
    ~dropped =>
        \/ LastIn(queue, LineEvents, Verdict)
        \/ /\ NoneIn(queue, LineEvents)
           /\ hatDown = hatError
           /\ hatError => lampOn \/ offSince

\* The steps that neither post, handle nor find a verdict, and leave the lamp
\* on unless they are an OFF that will be held against it.
LEMMA LineKept ==
    ASSUME LineInv, UNCHANGED <<queue, dropped, hatError, hatDown>>,
           hatDown /\ (lampOn \/ offSince) => lampOn' \/ offSince'
    PROVE  LineInv'
BY DEF LineInv, Verdict

\* A post of another kind.
LEMMA LinePosted ==
    ASSUME LineInv, QueueOK, NEW e \in Events \ LineEvents, queue' = Append(queue, e),
           UNCHANGED <<dropped, hatError, hatDown, lampOn, offSince>>
    PROVE  LineInv'
<1>1. Verdict' = Verdict
  BY DEF Verdict
<1>2. /\ \A f : LastIn(queue, LineEvents, f) => LastIn(queue', LineEvents, f)
      /\ NoneIn(queue, LineEvents) => NoneIn(queue', LineEvents)
  BY LastOfAppend DEF QueueOK
<1> QED
  BY <1>1, <1>2 DEF LineInv

LEMMA LineStep ==
    ASSUME FailureLevel \in min_level..max_level, Flags \subseteq BOOLEAN,
           QueueOK, LineInv, [Next]_vars
    PROVE  LineInv'
<1> USE DEF state, fade, events, history
<1>1. CASE Command
  BY <1>1, LineKept
     DEF Command, MayCall, MayFade, direct_arc_power, command_off, command_up,
         command_down, FadeBy200ms, AtLimit, command_step_up, command_step_down, StepTo
<1>2. CASE CreateTask \/ UpdateLevel \/ write_file
  BY <1>2, LineKept DEF CreateTask, UpdateLevel, write_file
<1>3. CASE PostStart
  BY <1>3, LinePosted DEF PostStart, Events, LineEvents
<1>4. ASSUME NEW t \in TaskIds, fade_task(t) PROVE LineInv'
  <2>1. CASE FadePost(t)
    BY <2>1, LinePosted DEF FadePost, Events, LineEvents
  <2>2. CASE ~FadePost(t)
    BY <1>4, <2>2, LineKept
       DEF fade_task, FadeCheck, FadeBegin, FadeDrive, FadeAdvance, FadeEnd
  <2> QED
    BY <2>1, <2>2
<1>5. CASE EventLoop
  <2>1. /\ queue # <<>> /\ queue' = Tail(queue) /\ queue \in Seq(Events)
        /\ UNCHANGED <<hatError, dropped>> /\ Verdict' = Verdict
    BY <1>5 DEF EventLoop, dimmer_handler, dali_handler, Handle, QueueOK, Verdict
  <2>2. /\ LastIn(queue, LineEvents, Verdict) =>
               \/ LastIn(queue', LineEvents, Verdict)
               \/ Head(queue) = Verdict /\ NoneIn(queue', LineEvents)
        /\ NoneIn(queue, LineEvents) =>
               Head(queue) \notin LineEvents /\ NoneIn(queue', LineEvents)
    BY <2>1, LastOfTail
  <2>3. Head(queue) = Verdict => hatDown' = hatError /\ (hatError => lampOn' = TRUE)
    BY <1>5 DEF EventLoop, dimmer_handler, dali_handler, direct_power, Handle, Verdict, Flags
  <2>4. Head(queue) \notin LineEvents => UNCHANGED <<hatDown, lampOn, offSince>>
    BY <1>5 DEF EventLoop, dimmer_handler, dali_handler, Handle, LineEvents
  <2> QED
    BY <2>1, <2>2, <2>3, <2>4 DEF LineInv
<1>6. CASE LineReport
  <2>1. CASE Len(queue) < QueueLen
    <3>1. queue' = Append(queue, Verdict') /\ Verdict' \in Events
      BY <1>6, <2>1 DEF LineReport, Verdict, Events, Flags
    <3>2. LastIn(queue', LineEvents, Verdict')
      BY <3>1, LastOfAppend DEF QueueOK
    <3> QED
      BY <3>2 DEF LineInv
  <2>2. CASE ~(Len(queue) < QueueLen)
    BY <1>6, <2>2 DEF LineReport, LineInv
  <2> QED
    BY <2>1, <2>2
<1>7. CASE PowerCycle
  <2>1. NoneIn(queue', LineEvents)
    BY <1>7, NoneInEmpty DEF PowerCycle
  <2> QED
    BY <1>7, <2>1 DEF PowerCycle, LineInv
<1>8. CASE UNCHANGED vars
  BY <1>8, LineKept DEF vars
<1> QED
  BY <1>1, <1>2, <1>3, <1>4, <1>5, <1>6, <1>7, <1>8 DEF Next, CommandStep

\* Whatever was called, whichever fade ran, and however often the line went
\* and came before its first event was handled: when all is handled, the line
\* is lost and no report was dropped, main.cpp knows, and the lamp burns
\* unless OFF was carried out after the loss was handled.  Operations are
\* called whatever the line is like.
THEOREM LostLineLightsLamp ==
    ASSUME FailureLevel \in min_level..max_level
    PROVE  Spec => []LitWithoutLine
<1> DEFINE Inv == Flags \subseteq BOOLEAN /\ QueueOK /\ LineInv
<1>1. Init => Inv
  <2>1. ASSUME Init PROVE LineInv
    <3>1. NoneIn(queue, LineEvents)
      BY <2>1, NoneInEmpty DEF Init
    <3> QED
      BY <2>1, <3>1 DEF Init, LineInv
  <2> QED
    BY <2>1, TypeInitially
<1>2. Inv /\ [Next]_vars => Inv'
  BY FlagsStep, QueueStep, LineStep
<1>3. Inv => LitWithoutLine
  <2> SUFFICES ASSUME Inv, queue = <<>>, hatError, ~dropped
               PROVE  hatDown /\ (lampOn \/ offSince)
    BY DEF LitWithoutLine, Quiet
  <2>1. NoneIn(queue, LineEvents) /\ ~LastIn(queue, LineEvents, Verdict)
    BY NoneInEmpty
  <2> QED
    BY <2>1 DEF LineInv
<1> QED
  BY <1>1, <1>2, <1>3, PTL DEF Spec
-----------------------------------------------------------------------------
(* The end of a fade.  OneFadeInv keeps fades apart; a created task comes  *)
(* to its end only if fade_running is not left set by nobody.              *)

FlagInv == fadeRunning => \E t \in TaskIds : Running(t)

\* An operation that finds no fade begins with no task that is or will be one.
LEMMA NoneAlive ==
    ASSUME Prompt = TRUE, OneFadeInv, NEW op, MayFade(op)
    PROVE  \A t \in TaskIds : ~Alive(t)
BY DEF MayFade, MayCall, OneFadeInv, Alive

\* A task that has just been created finds no fade.
LEMMA CreatedIsFree ==
    ASSUME OneFadeInv, FlagInv, NEW t \in TaskIds, task[t].pc = "created"
    PROVE  ~fadeRunning
<1> SUFFICES ASSUME fadeRunning PROVE FALSE
  OBVIOUS
<1>1. PICK u \in TaskIds : Running(u)
  BY DEF FlagInv
<1>2. Alive(u) /\ Alive(t)
  BY <1>1 DEF Alive
<1>3. u = t
  BY <1>2 DEF OneFadeInv
<1> QED
  BY <1>1, <1>3 DEF Running

LEMMA FlagStep ==
    ASSUME TasksOK, OneFadeInv, FlagInv, [Next]_vars
    PROVE  FlagInv'
<1> USE DEF state, fade, events, history
<1>1. ASSUME UNCHANGED fadeRunning, \A t \in TaskIds : Running(t) => Running(t)'
      PROVE  FlagInv'
  BY <1>1 DEF FlagInv
<1>2. CASE CreateTask
  <2>1. \A t \in TaskIds : Running(t) => Running(t)'
    BY <1>2 DEF CreateTask, Running, TasksOK
  <2> QED
    BY <1>1, <1>2, <2>1 DEF CreateTask
<1>3. ASSUME NEW t \in TaskIds, fade_task(t) PROVE FlagInv'
  <2>1. \A u \in TaskIds \ {t} : Running(u) => Running(u)'
    BY <1>3 DEF fade_task, FadeCheck, FadeBegin, FadeDrive, FadeAdvance, FadeEnd,
                FadePost, Running, TasksOK
  <2>2. CASE FadeCheck(t) \/ FadePost(t)
    BY <1>1, <2>1, <2>2 DEF FadeCheck, FadePost, Running
  <2>3. CASE FadeBegin(t) \/ FadeDrive(t) \/ FadeAdvance(t)
    <3>1. Running(t)'
      BY <2>3 DEF FadeBegin, FadeDrive, FadeAdvance, Running, TasksOK
    <3> QED
      BY <3>1 DEF FlagInv
  <2>4. CASE FadeEnd(t)
    BY <2>4 DEF FadeEnd, FlagInv
  <2> QED
    BY <1>3, <2>2, <2>3, <2>4 DEF fade_task
<1>4. CASE PowerCycle
  BY <1>4 DEF PowerCycle, FlagInv
<1>5. CASE UNCHANGED <<fadeRunning, task>>
  BY <1>1, <1>5 DEF Running
<1> QED
  BY <1>2, <1>3, <1>4, <1>5
     DEF Next, Command, direct_arc_power, command_off, command_up, command_down,
         FadeBy200ms, AtLimit, command_step_up, command_step_down, StepTo,
         CommandStep, PostStart, UpdateLevel, write_file, EventLoop,
         dimmer_handler, dali_handler, LineReport, vars

\* What the invariants of fades below rest on.
FadesInv == TasksOK /\ CmdOK /\ QueueOK /\ OneFadeInv /\ FlagInv /\ PlanOK /\ DriveInRange

LEMMA FadesCorrect == ASSUME Prompt = TRUE PROVE Spec => []FadesInv
<1> DEFINE Inv == CmdOK /\ QueueOK /\ OneFadeInv /\ FlagInv
<1>1. Init => Inv
  <2>1. ASSUME Init PROVE \A t \in TaskIds : ~Alive(t) /\ ~Running(t)
    BY <2>1 DEF Init, NoTask, Alive, Running
  <2>2. ASSUME Init PROVE FlagInv
    BY <2>2 DEF Init, FlagInv
  <2> QED
    BY <2>1, <2>2, TypeInitially DEF OneFadeInv
<1>2. Inv /\ DelayInv /\ [Next]_vars => Inv'
  BY CmdStep, QueueStep, OneFadeStep, FlagStep DEF DelayInv
<1>3. Inv /\ DelayInv => FadesInv
  BY DEF DelayInv, FadesInv
<1> QED
  BY <1>1, <1>2, <1>3, DelayCorrect, PTL DEF Spec

-----------------------------------------------------------------------------
(* busy.                                                                   *)

FadeEvents == {"DIMMER_BUSY_START", "DIMMER_BUSY_END"}

\* The last word about a fade is that it has ended.
EndIsLast == \/ LastIn(queue, FadeEvents, "DIMMER_BUSY_END")
             \/ NoneIn(queue, FadeEvents) /\ ~busy

\* Once a fade has been planned, some task is still to say that it has ended,
\* or has said so, and no START will come after it.
BusyInv ==
    ~overtaken /\ param # NoFade =>
        \/ Creating
        \/ \E t \in TaskIds : task[t].pc # "none"
        \/ cmd # <<"post", "write">> /\ EndIsLast

\* Steps that touch none of this.
LEMMA BusyKept ==
    ASSUME BusyInv, UNCHANGED <<overtaken, param, task, cmd, queue, busy>>
    PROVE  BusyInv'
BY DEF BusyInv, Creating, EndIsLast

\* Where a plan stands when it is not going to create a task any more.
LEMMA PostIsLate ==
    ASSUME CmdOK, ~Creating, cmd # <<>>, Head(cmd) = "post"
    PROVE  cmd = <<"post", "write">>
<1>1. Head(<<"write">>) # "post"
  OBVIOUS
<1>2. Head(<<"update", "write">>) # "post"
  OBVIOUS
<1> QED
  BY <1>1, <1>2 DEF CmdOK, Plans, Creating

\* What a plan has left when it creates nothing: no START.
LEMMA NoPostLeft ==
    ASSUME CmdOK, ~Creating, cmd # <<>>
    PROVE  /\ Tail(cmd) # <<"post", "write">>
           /\ Tail(cmd) = <<>> \/ Tail(cmd) = <<"write">>
<1>1. Tail(<<"post", "write">>) = <<"write">> /\ Tail(<<"update", "write">>) = <<"write">>
  OBVIOUS
<1>2. Tail(<<"write">>) = <<>> /\ <<"write">> # <<"post", "write">> /\ <<>> # <<"post", "write">>
  OBVIOUS
<1>3. cmd \in {<<"write">>, <<"post", "write">>, <<"update", "write">>}
  BY DEF CmdOK, Plans, Creating
<1> QED
  BY <1>1, <1>2, <1>3

\* Posts and reports of another kind leave the last word.
LEMMA OtherPost ==
    ASSUME QueueOK, EndIsLast, NEW e \in Events \ FadeEvents, queue' = Append(queue, e),
           UNCHANGED busy
    PROVE  EndIsLast'
<1>1. /\ \A f : LastIn(queue, FadeEvents, f) => LastIn(queue', FadeEvents, f)
      /\ NoneIn(queue, FadeEvents) => NoneIn(queue', FadeEvents)
  BY LastOfAppend DEF QueueOK
<1> QED
  BY <1>1 DEF EndIsLast

\* Whatever is handled: if the last word was an END, it stays one.
LEMMA HandledEnd ==
    ASSUME QueueOK, EndIsLast, EventLoop
    PROVE  EndIsLast'
<1> USE DEF state, fade, events, history
<1>1. queue # <<>> /\ queue' = Tail(queue) /\ queue \in Seq(Events)
  BY DEF EventLoop, dimmer_handler, dali_handler, Handle, QueueOK
<1>2. /\ LastIn(queue, FadeEvents, "DIMMER_BUSY_END") =>
             \/ LastIn(queue', FadeEvents, "DIMMER_BUSY_END")
             \/ Head(queue) = "DIMMER_BUSY_END" /\ NoneIn(queue', FadeEvents)
      /\ NoneIn(queue, FadeEvents) =>
             Head(queue) \notin FadeEvents /\ NoneIn(queue', FadeEvents)
  BY <1>1, LastOfTail
<1>3. Head(queue) = "DIMMER_BUSY_END" => busy' = FALSE
  BY DEF EventLoop, dimmer_handler, dali_handler, Handle
<1>4. Head(queue) \notin FadeEvents => busy' = busy
  BY DEF EventLoop, dimmer_handler, dali_handler, Handle, FadeEvents
<1> QED
  BY <1>2, <1>3, <1>4 DEF EndIsLast

LEMMA BusyStep ==
    ASSUME Prompt = TRUE, CreateMayFail = FALSE, FadesInv, BusyInv, [Next]_vars
    PROVE  BusyInv'
<1> USE DEF state, fade, events, history
<1>1. CASE Command
  <2>1. CASE \/ cmd' = <<"create", "post", "write">>
             \/ cmd' = <<"post", "create", "update", "write">>
    BY <2>1 DEF BusyInv, Creating
  <2>2. CASE cmd = <<>> /\ cmd' = <<"write">> /\ UNCHANGED <<overtaken, param, task, queue, busy>>
    <3>1. ~Creating /\ cmd' # <<"post", "write">>
      BY <2>2 DEF Creating
    <3> QED
      BY <2>2, <3>1 DEF BusyInv, EndIsLast
  <2>3. CASE AtLimit("up") \/ AtLimit("down") \/ AtLimit("step_up")
    BY <2>3, BusyKept DEF AtLimit
  <2> QED
    BY <1>1, <2>1, <2>2, <2>3
       DEF Command, direct_arc_power, command_off, command_up, command_down,
           FadeBy200ms, MayFade, MayCall, command_step_up, command_step_down, StepTo, Idle
<1>2. CASE CreateTask
  <2>1. PICK t \in TaskIds : task' = [task EXCEPT ![t] = [pc |-> "created", tmp |-> 0]]
    BY <1>2 DEF CreateTask
  <2>2. task'[t].pc # "none"
    BY <2>1 DEF FadesInv, TasksOK
  <2> QED
    BY <2>2 DEF BusyInv
<1>3. CASE PostStart
  <2>1. /\ cmd # <<>> /\ Head(cmd) = "post" /\ cmd' = Tail(cmd)
        /\ UNCHANGED <<overtaken, param, task>>
    BY <1>3 DEF PostStart, Left, Idle
  <2>2. CASE Creating
    <3>1. Creating'
      <4>1. Head(<<"create", "post", "write">>) # "post"
            /\ Head(<<"create", "update", "write">>) # "post"
        OBVIOUS
      <4>2. Tail(<<"post", "create", "update", "write">>) = <<"create", "update", "write">>
        OBVIOUS
      <4> QED
        BY <2>1, <2>2, <4>1, <4>2 DEF Creating
    <3> QED
      BY <3>1 DEF BusyInv
  <2>3. CASE ~Creating
    <3>1. cmd = <<"post", "write">>
      BY <2>1, <2>3, PostIsLate DEF FadesInv
    <3>2. ~overtaken /\ param # NoFade => \E t \in TaskIds : task[t].pc # "none"
      BY <2>3, <3>1 DEF BusyInv
    <3> QED
      BY <2>1, <3>2 DEF BusyInv
  <2> QED
    BY <2>2, <2>3
<1>4. CASE UpdateLevel \/ write_file
  <2>1. /\ cmd # <<>> /\ cmd' = Tail(cmd) /\ ~(Head(cmd) \in {"post", "create"})
        /\ UNCHANGED <<overtaken, param, task, queue, busy>>
    BY <1>4 DEF UpdateLevel, write_file, Left, Idle
  <2>2. ~Creating
    <3>1. /\ Head(<<"create", "post", "write">>) = "create"
          /\ Head(<<"create", "update", "write">>) = "create"
          /\ Head(<<"post", "create", "update", "write">>) = "post"
      OBVIOUS
    <3> QED
      BY <2>1, <3>1 DEF Creating
  <2>3. cmd' # <<"post", "write">>
    BY <2>1, <2>2, NoPostLeft DEF FadesInv
  <2> QED
    BY <2>1, <2>2, <2>3 DEF BusyInv, EndIsLast
<1>5. ASSUME NEW t \in TaskIds, fade_task(t) PROVE BusyInv'
  <2>1. UNCHANGED <<cmd, param>> /\ (Creating' <=> Creating)
    BY <1>5 DEF fade_task, FadeCheck, FadeBegin, FadeDrive, FadeAdvance, FadeEnd,
                FadePost, Creating
  <2>2. CASE FadePost(t)
    <3>1. queue \in Seq(Events) /\ queue' = Append(queue, "DIMMER_BUSY_END")
      BY <2>2 DEF FadePost, FadesInv, QueueOK
    <3>2. LastIn(queue', FadeEvents, "DIMMER_BUSY_END")
      BY <3>1, LastOfAppend DEF Events
    <3>3. EndIsLast'
      BY <3>2 DEF EndIsLast
    <3>4. cmd = <<"post", "write">> => overtaken'
      <4>1. Head(<<"post", "write">>) = "post" /\ <<"post", "write">> # <<>>
        OBVIOUS
      <4> QED
        BY <2>2, <4>1 DEF FadePost, Idle
    <3> QED
      BY <2>1, <3>3, <3>4 DEF BusyInv
  <2>3. CASE ~FadePost(t)
    <3>1. task'[t].pc # "none"
      <4>1. CASE FadeCheck(t)
        <5>1. ~fadeRunning
          BY <4>1, CreatedIsFree DEF FadeCheck, FadesInv
        <5> QED
          BY <4>1, <5>1 DEF FadeCheck, FadesInv, TasksOK
      <4>2. CASE ~FadeCheck(t)
        BY <1>5, <2>3, <4>2
           DEF fade_task, FadeBegin, FadeDrive, FadeAdvance, FadeEnd, FadesInv, TasksOK
      <4> QED
        BY <4>1, <4>2
    <3> QED
      BY <3>1 DEF BusyInv
  <2> QED
    BY <2>2, <2>3
<1>6. CASE EventLoop
  <2>1. UNCHANGED <<overtaken, param, task, cmd>>
    BY <1>6 DEF EventLoop, dimmer_handler, dali_handler
  <2>2. EndIsLast => EndIsLast'
    BY <1>6, HandledEnd DEF FadesInv
  <2> QED
    BY <2>1, <2>2 DEF BusyInv, Creating
<1>7. CASE LineReport
  <2>1. UNCHANGED <<overtaken, param, task, cmd, busy>>
    BY <1>7 DEF LineReport
  <2>2. EndIsLast => EndIsLast'
    <3>1. CASE UNCHANGED queue
      BY <2>1, <3>1 DEF EndIsLast
    <3>2. CASE queue' = Append(queue, "DALI_HAT_NORMAL") \/ queue' = Append(queue, "DALI_HAT_ERROR")
      BY <2>1, <3>2, OtherPost DEF FadesInv, Events, FadeEvents
    <3> QED
      BY <1>7, <3>1, <3>2 DEF LineReport
  <2> QED
    BY <2>1, <2>2 DEF BusyInv, Creating
<1>8. CASE PowerCycle
  BY <1>8 DEF PowerCycle, BusyInv
<1>9. CASE UNCHANGED vars
  BY <1>9, BusyKept DEF vars
<1> QED
  BY <1>1, <1>2, <1>3, <1>4, <1>5, <1>6, <1>7, <1>8, <1>9 DEF Next, CommandStep

\* For every set of operations and any number of tasks, losses and mains
\* failures: busy of main.cpp does not stay set when all is done, unless an END
\* has overtaken its START.  It takes that xTaskCreate succeeds, and that a
\* task has begun when the next operation is called.
THEOREM BusyEnds ==
    ASSUME Prompt = TRUE, CreateMayFail = FALSE
    PROVE  Spec => []BusyFollowsFade
<1>1. Init => BusyInv
  BY DEF Init, BusyInv
<1>2. BusyInv /\ FadesInv /\ [Next]_vars => BusyInv'
  BY BusyStep
<1>3. BusyInv => BusyFollowsFade
  <2> SUFFICES ASSUME BusyInv, Quiet, ~overtaken, param # NoFade PROVE ~busy
    BY DEF BusyFollowsFade
  <2>1. ~Creating /\ queue = <<>>
    BY DEF Quiet, Creating, Idle
  <2>2. EndIsLast
    BY <2>1 DEF Quiet, BusyInv
  <2> QED
    BY <2>1, <2>2, NoneInEmpty DEF EndIsLast
<1> QED
  BY <1>1, <1>2, <1>3, FadesCorrect, PTL DEF Spec
-----------------------------------------------------------------------------
(* What the lamp shines at, for the two operations dali_callback calls.    *)
(* direct_arc_power sets the level before the fade begins, so until it     *)
(* ends the lamp is elsewhere: the plan, and then the task that follows    *)
(* it, must be on the way to the delay of the level reported.              *)

\* The operation at hand is to create a task, or a task is or will be at it.
FadeAhead == Creating \/ \E t \in TaskIds : Alive(t)

\* A task is on its way, and the lamp is where it is, unless direct_power has
\* set it; at its end the lamp is within one step of the stop.
TaskAim(t) ==
    /\ task[t].pc \in {"drive", "delay"} => OnWay(task[t].tmp, param)
    /\ task[t].pc = "delay" /\ ~override => raw = task[t].tmp
    /\ task[t].pc = "end" /\ ~override => Distance(raw, param.step_stop) <= 36

LevelAim ==
    lampOn /\ ~override =>
        IF FadeAhead THEN param.step_stop = RawLevel(actual)
        ELSE Distance(raw, RawLevel(actual)) <= 36

AimInv == /\ NoUpdate
          /\ OnWay(param.step_start, param)
          /\ \A t \in TaskIds : TaskAim(t)
          /\ LevelAim

\* A level is nowhere off its own delay.
LEMMA AtLevel == \A l \in Level : Distance(RawLevel(l), RawLevel(l)) <= 36
<1> SUFFICES ASSUME NEW l \in Level PROVE Distance(RawLevel(l), RawLevel(l)) <= 36
  OBVIOUS
<1>1. RawLevel(l) \in Int
  BY RawLevelIsInt
<1> QED
  BY <1>1 DEF Distance

\* At power on the lamp is at its level.
LEMMA AimAtPowerOn ==
    ASSUME cmd = Idle, param = NoFade, task = [t \in TaskIds |-> NoTask],
           actual \in Level, raw = RawLevel(actual)
    PROVE  AimInv
<1>1. NoUpdate /\ ~Creating
  BY DEF NoUpdate, Creating, Idle
<1>2. OnWay(param.step_start, param)
  <2>1. 0 \in Level /\ RawLevel(0) \in Int
    BY RawLevelIsInt DEF Level
  <2> QED
    BY <2>1 DEF NoFade, fade_calc, OnWay
<1>3. \A t \in TaskIds : TaskAim(t) /\ ~Alive(t)
  BY DEF TaskAim, Alive, Running, NoTask
<1>4. LevelAim
  BY <1>1, <1>3, AtLevel DEF LevelAim, FadeAhead
<1> QED
  BY <1>1, <1>2, <1>3, <1>4 DEF AimInv

\* Steps that leave the fades, the level and the lamp.
LEMMA AimKept ==
    ASSUME AimInv, NoUpdate', Creating' <=> Creating, lampOn' => lampOn,
           UNCHANGED <<param, task, raw, actual, override>>
    PROVE  AimInv'
<1>1. (FadeAhead' <=> FadeAhead) /\ OnWay(param.step_start, param)'
  BY DEF FadeAhead, Alive, Running, AimInv, OnWay
<1>2. \A t \in TaskIds : TaskAim(t)'
  BY DEF AimInv, TaskAim, OnWay
<1>3. LevelAim'
  BY <1>1 DEF AimInv, LevelAim
<1> QED
  BY <1>1, <1>2, <1>3 DEF AimInv

\* A new plan finds no task, and leads to the level it sets.
LEMMA AimOfArc ==
    ASSUME Prompt = TRUE, FadesInv, AimInv, direct_arc_power
    PROVE  AimInv'
<1> USE DEF state, fade, events, history
<1>1. PICK level \in {Clamp(l) : l \in ArcLevels} :
         /\ param' = fade_calc(actual, level,
                               IF actual > level THEN "DIR_DOWN" ELSE "DIR_UP")
         /\ actual' = level
  BY DEF direct_arc_power
<1>2. actual \in Level /\ level \in Level
  BY LevelsAreLevels DEF FadesInv, PlanOK
<1>3. \A t \in TaskIds : ~Alive(t)
  BY NoneAlive DEF direct_arc_power, FadesInv
<1>4. cmd' = <<"create", "post", "write">> /\ UNCHANGED task
  BY DEF direct_arc_power
<1>5. OnWay(param.step_start, param)'
  BY <1>1, <1>2, PlanStartsOnWay DEF OnWay
<1>6. \A t \in TaskIds : TaskAim(t)'
  BY <1>3, <1>4 DEF TaskAim, Alive, Running
<1>7. param'.step_stop = RawLevel(actual')
  BY <1>1 DEF fade_calc
<1>8. LevelAim'
  BY <1>4, <1>7 DEF LevelAim, FadeAhead, Creating
<1> QED
  BY <1>4, <1>5, <1>6, <1>8 DEF AimInv, NoUpdate

\* A fade task is on its way from its first step to its last.
LEMMA AimOfTask ==
    ASSUME FadesInv, AimInv, NEW t \in TaskIds, fade_task(t)
    PROVE  AimInv'
<1> USE DEF state, fade, events, history
<1>1. /\ UNCHANGED <<cmd, param, actual, lampOn, override>>
      /\ \A u \in TaskIds \ {t} : task'[u] = task[u]
  BY DEF fade_task, FadeCheck, FadeBegin, FadeDrive, FadeAdvance, FadeEnd, FadePost,
         FadesInv, TasksOK
<1>2. /\ NoUpdate' /\ (Creating' <=> Creating) /\ OnWay(param.step_start, param)'
      /\ \A u \in TaskIds \ {t} : Alive(u)' <=> Alive(u)
  BY <1>1 DEF AimInv, NoUpdate, Creating, OnWay, Alive, Running
<1>3. CASE UNCHANGED raw /\ TaskAim(t)' /\ (Alive(t)' <=> Alive(t))
  <2>1. \A u \in TaskIds : TaskAim(u)'
    BY <1>1, <1>3 DEF AimInv, TaskAim, OnWay
  <2>2. FadeAhead' <=> FadeAhead
    BY <1>2, <1>3 DEF FadeAhead
  <2>3. LevelAim'
    BY <1>1, <1>3, <2>2 DEF AimInv, LevelAim
  <2> QED
    BY <1>2, <2>1, <2>3 DEF AimInv
<1>4. CASE FadeCheck(t)
  <2>1. ~fadeRunning
    BY <1>4, CreatedIsFree DEF FadeCheck, FadesInv
  <2>2. task'[t].pc = "entered" /\ UNCHANGED raw
    BY <1>4, <2>1 DEF FadeCheck, FadesInv, TasksOK
  <2> QED
    BY <1>3, <1>4, <2>2 DEF FadeCheck, TaskAim, Alive
<1>5. CASE FadeBegin(t)
  <2>1. task'[t] = [pc |-> "drive", tmp |-> param.step_start] /\ UNCHANGED raw
    BY <1>5 DEF FadeBegin, FadesInv, TasksOK
  <2>2. TaskAim(t)'
    BY <1>1, <2>1 DEF TaskAim, AimInv, OnWay
  <2> QED
    BY <1>3, <1>5, <2>1, <2>2 DEF FadeBegin, Alive, Running
<1>6. CASE FadeDrive(t)
  <2>1. /\ task[t].pc = "drive" /\ task'[t].pc = "delay"
        /\ task'[t].tmp = task[t].tmp /\ raw' = task[t].tmp
    BY <1>6 DEF FadeDrive, FadesInv, TasksOK
  <2>2. Alive(t) /\ Alive(t)'
    BY <2>1 DEF Alive, Running
  <2>3. \A u \in TaskIds \ {t} : task[u].pc \notin {"delay", "end"}
    BY <2>2 DEF FadesInv, OneFadeInv, Alive, Running
  <2>4. \A u \in TaskIds : TaskAim(u)'
    BY <1>1, <2>1, <2>3 DEF AimInv, TaskAim, OnWay
  <2>5. LevelAim'
    BY <1>1, <2>2 DEF AimInv, LevelAim, FadeAhead
  <2> QED
    BY <1>2, <2>4, <2>5 DEF AimInv
<1>7. CASE FadeAdvance(t)
  <2> DEFINE tmp == NextRaw(task[t].tmp, param)
  <2>1. /\ task[t].pc = "delay" /\ UNCHANGED raw
        /\ task'[t] = [pc |-> IF GoesOn(tmp, param) THEN "drive" ELSE "end", tmp |-> tmp]
    BY <1>7 DEF FadeAdvance, FadesInv, TasksOK
  <2>2. task[t].tmp \in RawDelay /\ param \in FadeParam /\ OnWay(task[t].tmp, param)
    BY <2>1 DEF FadesInv, DriveInRange, PlanOK, AimInv, TaskAim
  <2>3. /\ GoesOn(tmp, param) => OnWay(tmp, param)
        /\ ~GoesOn(tmp, param) => Distance(task[t].tmp, param.step_stop) <= 36
    BY <2>2, FadeNearsItsStop
  <2>4. ~override => raw = task[t].tmp
    BY <2>1 DEF AimInv, TaskAim
  <2> HIDE DEF tmp
  <2>5. TaskAim(t)'
    <3>1. CASE GoesOn(tmp, param)
      BY <1>1, <2>1, <2>3, <3>1 DEF TaskAim, OnWay
    <3>2. CASE ~GoesOn(tmp, param)
      BY <1>1, <2>1, <2>3, <2>4, <3>2 DEF TaskAim
    <3> QED
      BY <3>1, <3>2
  <2>6. Alive(t) /\ Alive(t)'
    BY <2>1 DEF Alive, Running
  <2> QED
    BY <1>3, <2>1, <2>5, <2>6
<1>8. CASE FadeEnd(t)
  <2>1. task[t].pc = "end" /\ task'[t].pc = "post" /\ UNCHANGED raw
    BY <1>8 DEF FadeEnd, FadesInv, TasksOK
  <2>2. Alive(t) /\ ~Alive(t)'
    BY <2>1 DEF Alive, Running
  <2>3. ~FadeAhead' /\ FadeAhead
    BY <1>2, <2>2 DEF FadeAhead, FadesInv, OneFadeInv
  <2>4. \A u \in TaskIds : TaskAim(u)'
    BY <1>1, <2>1 DEF AimInv, TaskAim, OnWay
  <2>5. LevelAim'
    BY <1>1, <2>1, <2>3 DEF AimInv, TaskAim, LevelAim
  <2> QED
    BY <1>2, <2>4, <2>5 DEF AimInv
<1>9. CASE FadePost(t)
  <2>1. task[t].pc = "post" /\ task'[t].pc = "none" /\ UNCHANGED raw
    BY <1>9 DEF FadePost, FadesInv, TasksOK, NoTask
  <2> QED
    BY <1>3, <2>1 DEF TaskAim, Alive, Running
<1> QED
  BY <1>4, <1>5, <1>6, <1>7, <1>8, <1>9 DEF fade_task

LEMMA AimStep ==
    ASSUME Prompt = TRUE, CreateMayFail = FALSE, Ops \subseteq {"arc", "off"},
           FadesInv, FadesInv', AimInv, [Next]_vars
    PROVE  AimInv'
<1> USE DEF state, fade, events, history
<1>1. \A op \in {"up", "down", "step_up", "step_down"} : ~MayCall(op)
  BY DEF MayCall
<1>2. CASE Command
  <2>1. CASE direct_arc_power
    BY <2>1, AimOfArc
  <2>2. CASE command_off
    <3>1. NoUpdate' /\ OnWay(param.step_start, param)' /\ ~lampOn'
      BY <2>2 DEF command_off, NoUpdate, AimInv, OnWay
    <3>2. \A t \in TaskIds : TaskAim(t)'
      BY <2>2 DEF command_off, AimInv, TaskAim, OnWay
    <3> QED
      BY <3>1, <3>2 DEF AimInv, LevelAim
  <2> QED
    BY <1>1, <1>2, <2>1, <2>2
       DEF Command, command_up, command_down, FadeBy200ms, AtLimit, MayFade,
           command_step_up, command_step_down, StepTo
<1>3. CASE CommandStep
  <2>1. cmd # <<>> /\ cmd' = Tail(cmd)
    BY <1>3 DEF CommandStep, CreateTask, PostStart, UpdateLevel, write_file, Left, Idle
  <2>2. NoUpdate' /\ ~UpdateLevel
    BY <2>1, NoUpdateTail, NoUpdateFirst DEF UpdateLevel, AimInv
  <2>3. CASE CreateTask
    <3>1. PICK t \in TaskIds :
             task[t].pc = "none" /\ task' = [task EXCEPT ![t] = [pc |-> "created", tmp |-> 0]]
      BY <2>3 DEF CreateTask
    <3>2. Creating /\ UNCHANGED <<actual, lampOn, param, raw, override>>
      BY <2>3, CreateOnce DEF CreateTask, FadesInv
    <3>3. /\ task'[t] = [pc |-> "created", tmp |-> 0]
          /\ \A u \in TaskIds \ {t} : task'[u] = task[u]
      BY <3>1 DEF FadesInv, TasksOK
    <3>4. FadeAhead /\ FadeAhead'
      BY <3>2, <3>3 DEF FadeAhead, Alive
    <3>5. \A u \in TaskIds : TaskAim(u)'
      BY <3>2, <3>3 DEF AimInv, TaskAim, OnWay
    <3>6. OnWay(param.step_start, param)' /\ LevelAim'
      BY <3>2, <3>4 DEF AimInv, LevelAim, OnWay
    <3> QED
      BY <2>2, <3>5, <3>6 DEF AimInv
  <2>4. CASE PostStart \/ write_file
    <3>1. Creating' <=> Creating
      <4>1. cmd \in {<<"write">>, <<"post", "write">>}
        <5>1. Head(<<"create", "post", "write">>) = "create"
          OBVIOUS
        <5> QED
          BY <2>1, <2>4, <5>1 DEF PostStart, write_file, Left, AimInv, NoUpdate
      <4>2. Tail(<<"write">>) = <<>> /\ Tail(<<"post", "write">>) = <<"write">>
        OBVIOUS
      <4>3. cmd' \in {<<>>, <<"write">>}
        BY <2>1, <4>1, <4>2
      <4>4. ~Creating
        BY <4>1 DEF Creating
      <4> QED
        BY <4>3, <4>4 DEF Creating
    <3> QED
      BY <2>2, <2>4, <3>1, AimKept DEF PostStart, write_file
  <2> QED
    BY <1>3, <2>2, <2>3, <2>4 DEF CommandStep
<1>4. ASSUME NEW t \in TaskIds, fade_task(t) PROVE AimInv'
  BY <1>4, AimOfTask
<1>5. CASE EventLoop
  <2>1. UNCHANGED <<cmd, param, task, actual>>
    BY <1>5 DEF EventLoop, dimmer_handler, dali_handler
  <2>2. CASE UNCHANGED <<raw, lampOn, override>>
    BY <2>1, <2>2, AimKept DEF AimInv, NoUpdate, Creating
  <2>3. CASE override' = TRUE
    <3>1. \A t \in TaskIds : TaskAim(t)'
      BY <2>1, <2>3 DEF AimInv, TaskAim, OnWay
    <3> QED
      BY <2>1, <2>3, <3>1 DEF AimInv, LevelAim, NoUpdate, OnWay
  <2> QED
    BY <1>5, <2>2, <2>3 DEF EventLoop, dimmer_handler, dali_handler, direct_power
<1>6. CASE LineReport \/ UNCHANGED vars
  BY <1>6, AimKept DEF LineReport, vars, AimInv, NoUpdate, Creating
<1>7. CASE PowerCycle
  <2>1. /\ cmd' = Idle /\ param' = NoFade /\ task' = [t \in TaskIds |-> NoTask]
        /\ actual' \in Level /\ raw' = RawLevel(actual')
    BY <1>7 DEF PowerCycle, FadesInv, PlanOK
  <2>2. NoUpdate' /\ ~Creating' /\ \A t \in TaskIds : ~Alive(t)'
    BY <2>1 DEF NoUpdate, Creating, Alive, Running, NoTask, Idle
  <2>3. \A t \in TaskIds : TaskAim(t)'
    BY <2>1 DEF TaskAim, NoTask
  <2>4. OnWay(param.step_start, param)'
    <3>1. 0 \in Level /\ RawLevel(0) \in Int
      BY RawLevelIsInt DEF Level
    <3> QED
      BY <2>1, <3>1 DEF NoFade, fade_calc, OnWay
  <2>5. LevelAim'
    BY <2>1, <2>2, AtLevel DEF LevelAim, FadeAhead
  <2> QED
    BY <2>2, <2>3, <2>4, <2>5 DEF AimInv
<1> QED
  BY <1>2, <1>3, <1>4, <1>5, <1>6, <1>7 DEF Next

\* However commands, fades, losses of the line and mains failures fall
\* together: when all is over the lamp shines within one step of a fade of the
\* level reported, unless direct_power has driven it since.  It is of the
\* operations dali_callback calls (command_up may plan a fade the wrong way
\* round), takes that xTaskCreate succeeds, and that a task has begun when the
\* next operation is called.
THEOREM LampSettles ==
    ASSUME Prompt = TRUE, CreateMayFail = FALSE, Ops \subseteq {"arc", "off"}
    PROVE  Spec => []Settled
<1>1. Init => AimInv
  <2>1. Init => actual \in Level
    BY DelayInitially DEF DelayInv, PlanOK
  <2> QED
    BY <2>1, AimAtPowerOn DEF Init
<1>2. AimInv /\ FadesInv /\ FadesInv' /\ [Next]_vars => AimInv'
  BY AimStep
<1>3. AimInv => Settled
  <2> SUFFICES ASSUME AimInv, Quiet, lampOn, ~override
               PROVE  Distance(raw, RawLevel(actual)) <= 36
    BY DEF Settled
  <2>1. ~FadeAhead
    BY DEF Quiet, FadeAhead, Creating, Alive, Running, Idle
  <2> QED
    BY <2>1 DEF AimInv, LevelAim
<1> QED
  BY <1>1, <1>2, <1>3, FadesCorrect, PTL DEF Spec
=============================================================================

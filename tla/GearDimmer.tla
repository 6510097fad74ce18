----------------------------- MODULE GearDimmer -----------------------------
(***************************************************************************)
(* The dimmer of main/dimmer.cpp, which main/comp/triac_dim.cpp has        *)
(* replaced: the operations on the lamp, the fade tasks, the commands that *)
(* configure it, and what of all this survives a mains failure.            *)
(*                                                                         *)
(* One command is carried out at a time; the fade tasks run beside.        *)
(* Unlike TriacDimmer it sets the level, and writes it to flash, when a    *)
(* fade ends, from the plan all fades share.  A value is set in memory in  *)
(* one step and committed to flash in a later one, name by name, and the   *)
(* mains may fail between any two.                                         *)
(*                                                                         *)
(* The durations of fades and the parameters of the time are kept and not  *)
(* used: a fade may take as long as it likes between two steps.            *)
(* first_special and special_timer, which dimmer.h does not declare, are   *)
(* left out: command_config carries a command out whatever they say.  So   *)
(* is what nothing but a query reads (reset_state, operating_mode, DTR1).  *)
(*                                                                         *)
(* A definition named X_y is X with a seeded fault: no specification uses  *)
(* it; it is put in the place of X to see that a property notices.         *)
(***************************************************************************)
EXTENDS GearMemory

CONSTANTS
    Stored,       \* what flash holds at the first power on, by name
    ArcLevels,    \* the levels of direct_arc_power
    Bytes,        \* the data bytes of special commands
    Randoms,      \* the four bytes of a RANDOMISE
    Leftovers,    \* what memory may hold at power on
    GroupNumbers, \* the groups that are set
    TaskIds,      \* bound: fade tasks that may exist at a time
    MaxCommands   \* bound: commands, but for the loading of DTR0

\* Flash is empty or has been written by the same code, which keeps the two
\* halves of the extended fade to four bits each.
ASSUME StoredAssumption ==
    /\ DOMAIN Stored \subseteq Key /\ \A k \in DOMAIN Stored : Stored[k] \in Level
    /\ \A k \in DOMAIN Stored : k[1] \in {"time_base", "time_multip"} => Stored[k] \in 0..15
ASSUME InputAssumption ==
    /\ ArcLevels \subseteq Level /\ Bytes \subseteq Level /\ Leftovers \subseteq Level
    /\ Randoms \subseteq [1..4 -> Level]
    /\ GroupNumbers \subseteq 0..15 /\ MaxCommands \in Nat

VARIABLES
    mem,          \* the values with a name in flash
    nvs,          \* flash
    todo,         \* what the command at hand has left to write
    after,        \* and to do behind that
    last,         \* last_actual_level
    dtr0,         \* DTR0
    lamp_on, limit_error, fade_running,
    param,        \* fade_param
    task,         \* the fade tasks: where each is, and its local tmp
    raw,          \* raw_pwm_time
    commands,     \* bound: how many commands have been given
    said,         \* history: what the bus said DTR0 is to hold
    told,         \* history: what the unit may answer to each fact, after what
                  \*   it was told
    order,        \* history: what the command at hand tells it
    upset         \* history: RESET during a fade, a level set at once during a
                  \*   fade, a level wrapped round, a plan replaced before its
                  \*   task began

level    == <<mem, nvs, last>>
work     == <<todo, after>>
register == <<dtr0, said>>
lamp     == <<lamp_on, limit_error>>
fade     == <<fade_running, param, task>>
history  == <<told, order, upset>>
vars     == <<level, work, register, lamp, fade, raw, commands, history>>

Setting(name) == mem[One(name)]
actual_level  == Setting("actual")
min_level     == Setting("min_level")
max_level     == Setting("max_level")

NoTask == [pc |-> "none", tmp |-> 0]

-----------------------------------------------------------------------------
(* default_fade_param.  CALC_FADE_TIME and CALC_FADE_RATE differ in the    *)
(* times only.                                                             *)

\* The levels in 200 ms; rates the switch does not know give 0.
Steps200ms == IF Setting("fade_rate") \in 1..15
              THEN StepsIn200ms(Setting("fade_rate")) ELSE 0

\* The sum and the difference are kept in a uint8_t.
Up200ms   == LET des == UInt8(actual_level + Steps200ms)
             IN  IF des >= max_level THEN max_level ELSE des
Down200ms == LET des == UInt8(actual_level - Steps200ms)
             IN  IF des <= min_level THEN min_level ELSE des

default_fade_param(destination, dir) == fade_calc(actual_level, destination, dir)

-----------------------------------------------------------------------------
(* Power on.                                                               *)

\* Initialize and start, over what the memory held and what flash holds.
Boot(memory, flash) ==
    LET init == MemoryInit(memory, flash)
        lev  == IF init[One("power_on_level")] = 255 THEN init[One("actual")]
                                                    ELSE init[One("power_on_level")]
    IN  [mem |-> [init EXCEPT ![One("actual")] = lev], nvs |-> FlashInit(flash),
         raw |-> RawLevel(lev), lamp_on |-> RawLevel(lev) <= 10000]

\* Scene 9 is never loaded: it holds what the memory held.
Memories == {[k \in Key |-> byte] : byte \in Leftovers}

\* The facts that a unit is told and asked: the values of the names, and which
\* groups it is in.  The level it makes itself; the addresses for the search
\* are written by WRITE MEMORY only, and scenes 8 and 9 share a place.
Lasting == {k \in Key : k[1] \notin {"actual", "search", "random"}} \ {Scene(8), Scene(9)}
Asked   == {k \in Lasting : k[1] # "gear"}
Group(g) == <<"group", g>>
Facts   == Asked \cup {Group(g) : g \in 0..15}

\* The name a fact is kept under, and its part of that byte.
Home(k) == IF k[1] = "group" THEN GearOf(k[2]) ELSE k
Part(byte, k) == IF k[1] # "group" THEN byte ELSE IF Bit(byte, BitOf(k[2])) THEN 1 ELSE 0

Nothing == [k \in {} |-> 0]

Init ==
    /\ \E memory \in Memories :
          LET boot == Boot(memory, Stored) IN
          mem = boot.mem /\ nvs = boot.nvs /\ raw = boot.raw /\ lamp_on = boot.lamp_on
    /\ todo = {Committing(One("actual"))} /\ after = "nothing"
    /\ last = 0 /\ dtr0 = 0 /\ said = 0
    /\ limit_error = FALSE /\ fade_running = FALSE /\ param = fade_calc(0, 0, "DIR_UP")
    /\ task = [t \in TaskIds |-> NoTask]
    /\ commands = 0 /\ upset = {} /\ order = Nothing
    /\ told = [k \in Facts |-> {Part(mem[Home(k)], k)}]

\* The chip starts again: only flash survives.  Its last step, the write of
\* the level by start, is still to do.  A command that is cut off may have
\* been carried out or not, for each fact it tells.
Restart ==
    /\ \E memory \in Memories :
          LET boot == Boot(memory, nvs) IN
          mem' = boot.mem /\ nvs' = boot.nvs /\ raw' = boot.raw /\ lamp_on' = boot.lamp_on
    /\ todo' = {Committing(One("actual"))} /\ after' = "nothing"
    /\ last' = 0 /\ dtr0' = 0 /\ said' = 0
    /\ limit_error' = FALSE /\ fade_running' = FALSE /\ param' = fade_calc(0, 0, "DIR_UP")
    /\ task' = [t \in TaskIds |-> NoTask]
    /\ upset' = {} /\ order' = Nothing
    /\ told' = [k \in Facts |-> told[k] \cup {order[j] : j \in DOMAIN order \cap {k}}]

PowerCycle == Restart /\ UNCHANGED commands

-----------------------------------------------------------------------------
(* What operations are made of.                                            *)

\* A command is taken when the one before is over.
Idle == todo = {} /\ after = "nothing"
Call == Idle /\ commands < MaxCommands /\ commands' = commands + 1

\* (Seeded: the level is not stored.)
change_actual_level_unsaved(to) ==
    /\ last' = actual_level /\ mem' = [mem EXCEPT ![One("actual")] = to]
    /\ UNCHANGED <<nvs, todo>>

\* The level is set; the command has it still to store.
change_actual_level(to) ==
    /\ last' = actual_level /\ mem' = [mem EXCEPT ![One("actual")] = to]
    /\ todo' = {Committing(One("actual"))}
    /\ UNCHANGED nvs

Waiting(t) == task[t].pc \in {"created", "entered"}

\* A plan, which replaces that of a task that has not begun.
Plan(to, dir) ==
    /\ param' = default_fade_param(to, dir)
    /\ upset' = upset \cup {what \in {"hasty", "wrap"} :
                    \/ what = "hasty" /\ \E t \in TaskIds : Waiting(t)
                    \/ what = "wrap"  /\ IF dir = "DIR_UP" THEN to < actual_level
                                                           ELSE to > actual_level}
    /\ UNCHANGED <<told, order>>

\* A plan and a task for it.
Fade(to, dir) ==
    /\ Plan(to, dir)
    /\ \E t \in TaskIds : task[t].pc = "none" /\ task' = [task EXCEPT ![t].pc = "created"]
    /\ UNCHANGED fade_running

Direction(to) == IF actual_level > to THEN "DIR_DOWN" ELSE "DIR_UP"

\* The lamp goes to a level at once, whatever a fade does.
Running(t) == task[t].pc \in {"run", "end", "save"}

Jump(to) == /\ raw' = RawLevel(to)
            /\ change_actual_level(to)
            /\ upset' = upset \cup {what \in {"jump"} : \E t \in TaskIds : Running(t)}
            /\ UNCHANGED <<fade, register, told, order>>

Refused == UNCHANGED <<level, work, lamp_on, fade, raw, register, history>>

-----------------------------------------------------------------------------
(* The operations on the lamp.  With run FALSE (a 0 in action) an operation *)
(* only says what it would do.                                             *)

direct_arc_power(to) ==
    /\ Call /\ ~fade_running
    /\ IF to \in min_level..max_level
       THEN /\ lamp_on' = TRUE
            /\ Fade(to, Direction(to))
            /\ UNCHANGED <<level, work, limit_error, raw, register>>
       ELSE limit_error' = TRUE /\ Refused

command_off ==
    /\ Call /\ lamp_on
    /\ lamp_on' = FALSE /\ last' = actual_level
    /\ UNCHANGED <<mem, nvs, work, limit_error, fade, raw, register, history>>

\* The plan is made even if it is not run; without a whole level in 200 ms it
\* divides by zero, and the chip starts again.
FadeBy200ms(to, dir, run) ==
    /\ Call /\ lamp_on /\ ~fade_running
    /\ IF to = actual_level THEN Restart
       ELSE /\ limit_error' = FALSE
            /\ IF run THEN Fade(to, dir)
               ELSE Plan(to, dir) /\ UNCHANGED <<fade_running, task>>
            /\ UNCHANGED <<level, work, lamp_on, raw, register>>

command_up(run)   == actual_level < max_level /\ FadeBy200ms(Up200ms, "DIR_UP", run)
command_down(run) == actual_level > min_level /\ FadeBy200ms(Down200ms, "DIR_DOWN", run)

command_step_up(run) ==
    /\ Call
    /\ IF actual_level + 1 > max_level THEN limit_error' = TRUE /\ Refused
       ELSE IF lamp_on /\ run
       THEN limit_error' = FALSE /\ Jump(actual_level + 1) /\ UNCHANGED <<lamp_on, after>>
       ELSE UNCHANGED limit_error /\ Refused

command_step_down(run) ==
    /\ Call
    /\ IF actual_level - 1 < min_level THEN limit_error' = TRUE /\ Refused
       ELSE IF lamp_on /\ run
       THEN limit_error' = FALSE /\ Jump(actual_level - 1) /\ UNCHANGED <<lamp_on, after>>
       ELSE UNCHANGED limit_error /\ Refused

\* command_recall_max_level and command_recall_min_level.
command_recall(to) ==
    /\ Call
    /\ limit_error' = FALSE /\ lamp_on' = TRUE
    /\ Jump(to) /\ UNCHANGED after

\* It is the minimum itself that puts the lamp out, when the level has been
\* stored, and the lamp need not burn.
command_step_down_and_off(run) ==
    /\ Call
    /\ limit_error' = (actual_level - 1 < min_level)
    /\ IF actual_level - 1 >= min_level /\ run
       THEN Jump(actual_level - 1) /\ after' = "off" /\ UNCHANGED lamp_on
       ELSE Refused

command_on_and_step_up(run) ==
    /\ Call
    /\ limit_error' = (actual_level + 1 \notin min_level..max_level)
    /\ IF actual_level + 1 \in min_level..max_level /\ run
       THEN Jump(actual_level + 1) /\ after' = "on" /\ UNCHANGED lamp_on
       ELSE Refused

\* (Without run nothing changes.)
command_goto_last_active_level ==
    /\ Call /\ ~fade_running /\ last > 0
    /\ lamp_on' = TRUE
    /\ Fade(last, Direction(last))
    /\ UNCHANGED <<level, work, limit_error, raw, register>>

\* command_continuous_up and _down: with a rate that is not known the number
\* of levels is divided by zero.
Continuous(to, dir, run) ==
    /\ Call /\ ~fade_running /\ lamp_on
    /\ IF IF dir = "DIR_UP" THEN actual_level >= to ELSE actual_level <= to
       THEN limit_error' = TRUE /\ Refused
       ELSE IF ~run THEN limit_error' = FALSE /\ Refused
       ELSE IF Setting("fade_rate") \notin 1..15 THEN Restart
       ELSE limit_error' = FALSE /\ Fade(to, dir) /\ UNCHANGED <<level, work, lamp_on, raw, register>>

command_goto_scene(i, run) ==
    LET scene == mem[Scene(i)]
        to    == IF scene > max_level \/ (scene < min_level /\ min_level > max_level)
                 THEN max_level ELSE IF scene < min_level THEN min_level ELSE scene
    IN  /\ Call /\ ~fade_running /\ scene < 255
        /\ limit_error' = (scene \notin min_level..max_level)
        /\ IF run
           THEN /\ lamp_on' = TRUE /\ Fade(to, Direction(to))
                /\ UNCHANGED <<level, work, raw, register>>
           ELSE Refused

Operation ==
    \/ \E to \in ArcLevels : direct_arc_power(to)
    \/ command_off
    \/ \E run \in BOOLEAN :
          \/ command_up(run) \/ command_down(run)
          \/ command_step_up(run) \/ command_step_down(run)
          \/ command_step_down_and_off(run) \/ command_on_and_step_up(run)
          \/ Continuous(max_level, "DIR_UP", run) \/ Continuous(min_level, "DIR_DOWN", run)
          \/ \E i \in Scenes : command_goto_scene(i, run)
    \/ command_recall(max_level) \/ command_recall(min_level)
    \/ command_goto_last_active_level

-----------------------------------------------------------------------------
(* fade_task.  It checks fade_running and sets it afterwards, and reads the *)
(* plan as it goes.                                                         *)

FadeCheck(t) ==
    /\ task[t].pc = "created"
    /\ task' = [task EXCEPT ![t] = IF fade_running THEN NoTask
                                   ELSE [pc |-> "entered", tmp |-> 0]]
    /\ UNCHANGED <<level, work, lamp, fade_running, param, raw, register, commands, history>>

\* (Seeded: the flag is not set.)
FadeBegin_unset(t) ==
    /\ task[t].pc = "entered"
    /\ task' = [task EXCEPT ![t] = [pc |-> "run", tmp |-> param.step_start]]
    /\ raw' = param.step_start
    /\ UNCHANGED <<fade_running, level, work, lamp, param, register, commands, history>>

FadeBegin(t) ==
    /\ task[t].pc = "entered"
    /\ fade_running' = TRUE
    /\ task' = [task EXCEPT ![t] = [pc |-> "run", tmp |-> param.step_start]]
    /\ raw' = param.step_start
    /\ UNCHANGED <<level, work, lamp, param, register, commands, history>>

\* After the delay; the loop goes on, with the next delay, or ends.
FadeOn(t) ==
    LET tmp == NextRaw(task[t].tmp, param) IN
    /\ task[t].pc = "run"
    /\ IF GoesOn(tmp, param)
       THEN raw' = tmp /\ task' = [task EXCEPT ![t].tmp = tmp]
       ELSE task' = [task EXCEPT ![t].pc = "end"] /\ UNCHANGED raw
    /\ UNCHANGED <<level, work, lamp, fade_running, param, register, commands, history>>

\* (Seeded: the level is not set.)
FadeEnd_level(t) ==
    /\ task[t].pc = "end"
    /\ task' = [task EXCEPT ![t].pc = "save"]
    /\ UNCHANGED <<level, work, fade_running, lamp, param, raw, register, commands, history>>

\* change_actual_level, its first half ...
FadeEnd(t) ==
    /\ task[t].pc = "end"
    /\ last' = actual_level
    /\ mem' = [mem EXCEPT ![One("actual")] = param.destination]
    /\ task' = [task EXCEPT ![t].pc = "save"]
    /\ UNCHANGED <<nvs, work, fade_running, lamp, param, raw, register, commands, history>>

\* (Seeded: the flag is kept.)
FadeSave_stuck(t) ==
    /\ task[t].pc = "save"
    /\ nvs' = [nvs EXCEPT ![One("actual")] = actual_level]
    /\ task' = [task EXCEPT ![t] = NoTask]
    /\ UNCHANGED <<mem, last, work, fade_running, lamp, param, raw, register, commands, history>>

\* ... and its second, which stores what the level is by then.
FadeSave(t) ==
    /\ task[t].pc = "save"
    /\ nvs' = [nvs EXCEPT ![One("actual")] = actual_level]
    /\ fade_running' = FALSE
    /\ task' = [task EXCEPT ![t] = NoTask]
    /\ UNCHANGED <<mem, last, work, lamp, param, raw, register, commands, history>>

fade_task(t) == FadeCheck(t) \/ FadeBegin(t) \/ FadeOn(t) \/ FadeEnd(t) \/ FadeSave(t)

-----------------------------------------------------------------------------
(* command_config and special_command.                                     *)

\* What the command tells: a value for each fact.
Says(values) ==
    /\ order' = [k \in DOMAIN values \cap Facts |-> values[k]]
    /\ UNCHANGED <<told, upset>>

\* DTR0 is not what the bus said (RANDOMISE): it does not know what it tells.
Garbled(names) ==
    /\ told' = [k \in Facts |-> IF k \in names THEN Level ELSE told[k]]
    /\ UNCHANGED <<order, upset>>

Writing(writes) ==
    /\ Call
    /\ todo' = writes
    /\ UNCHANGED <<level, after, lamp, fade, raw, register>>

SetTo(k, value) == Writing({Assigning(k, value)}) /\ Says([j \in {k} |-> value])

\* What DTR0 holds is set.
SetByDTR0(k) ==
    /\ Writing({Assigning(k, dtr0)})
    /\ IF dtr0 = said THEN Says([j \in {k} |-> said]) ELSE Garbled({k})

SetVariable == \E name \in {"max_level", "min_level", "system_failure", "power_on_level",
                            "fade_time", "fade_rate", "short_address"} : SetByDTR0(One(name))

\* Two values, one after the other.
Halves(byte) == [k \in {One("time_base"), One("time_multip")} |->
                    IF k = One("time_base") THEN byte % 16 ELSE byte \div 16]

SetExtendedFade ==
    /\ Writing({Assigning(k, Halves(dtr0)[k]) : k \in DOMAIN Halves(dtr0)})
    /\ IF dtr0 = said THEN Says(Halves(said)) ELSE Garbled(DOMAIN Halves(dtr0))

SetScene == \E i \in Scenes : SetByDTR0(Scene(i))
RemoveScene == \E i \in Scenes : SetTo(Scene(i), 255)

InGroup(g, byte, bit) ==
    Writing({Assigning(GearOf(g), byte)}) /\ Says([k \in {Group(g)} |-> bit])

AddGroup == \E g \in GroupNumbers : InGroup(g, WithBit(mem[GearOf(g)], BitOf(g)), 1)
RemoveGroup == \E g \in GroupNumbers : InGroup(g, WithoutBit(mem[GearOf(g)], BitOf(g)), 0)

\* What RESET tells: no groups, and the defaults but for the short address.
Defaults == [k \in Facts \ {One("short_address")} |-> IF k[1] = "group" THEN 0 ELSE Default(k)]

\* The fade is declared over, and its task goes on.
Reset ==
    /\ Call
    /\ mem' = [mem EXCEPT ![One("actual")] = 254] /\ last' = 0
    /\ lamp_on' = FALSE /\ limit_error' = FALSE /\ fade_running' = FALSE
    /\ todo' = ResetProcess
    /\ order' = Defaults
    /\ upset' = upset \cup {what \in {"reset"} : \E t \in TaskIds : Running(t)}
    /\ UNCHANGED <<nvs, after, param, task, raw, register, told>>

StoreActual ==
    /\ Call /\ dtr0' = actual_level /\ said' = actual_level
    /\ UNCHANGED <<level, work, lamp, fade, raw, history>>

WriteAll == Writing(WriteProcess) /\ UNCHANGED history

command_config == \/ Reset \/ StoreActual \/ WriteAll
                  \/ SetVariable \/ SetExtendedFade \/ SetScene \/ RemoveScene
                  \/ AddGroup \/ RemoveGroup

\* Four bytes are asked for, into three: the last one goes to DTR0.
Randomise ==
    /\ Call
    /\ \E bytes \in Randoms :
          /\ mem' = [k \in Key |-> IF k[1] = "random" THEN bytes[k[2] + 1] ELSE mem[k]]
          /\ dtr0' = bytes[4]
    /\ UNCHANGED <<nvs, said, last, work, lamp, fade, raw, history>>

\* (Not counted: DTR0 is loaded before most commands of configuration.)
LoadDTR0 ==
    /\ Idle
    /\ \E byte \in Bytes : dtr0' = byte /\ said' = byte
    /\ UNCHANGED <<level, work, lamp, fade, raw, commands, history>>

SearchAddress ==
    /\ Call
    /\ \E i \in 0..2, byte \in Bytes : mem' = [mem EXCEPT ![<<"search", i>>] = byte]
    /\ UNCHANGED <<nvs, last, work, lamp, fade, raw, register, history>>

Program == \E byte \in Bytes, rest \in BOOLEAN :
    is_equal(mem, rest) /\ SetTo(One("short_address"), (byte \div 2) % 64)

special_command == LoadDTR0 \/ Randomise \/ SearchAddress \/ Program

\* What command_query answers to the queries for the values above (and
\* special_command to QUERY SHORT ADDRESS), by the name of the query.
command_query(comm) ==
    CASE comm = "max_level"      -> max_level
      [] comm = "min_level"      -> min_level
      [] comm = "power_on_level" -> Setting("power_on_level")
      [] comm = "system_failure" -> Setting("system_failure")
      [] comm = "fade"           -> UInt8(Setting("fade_time") * 16) + Setting("fade_rate")
      [] comm = "extended_fade"  -> UInt8(Setting("time_multip") * 16) + Setting("time_base")
      [] comm = "short_address"  -> Setting("short_address")

\* The value of a name, out of the answer that holds it, and whether it has
\* its half of the answer for itself.
Answer(k) ==
    CASE k[1] = "fade_time"   -> command_query("fade") \div 16
      [] k[1] = "fade_rate"   -> command_query("fade") % 16
      [] k[1] = "time_multip" -> command_query("extended_fade") \div 16
      [] k[1] = "time_base"   -> command_query("extended_fade") % 16
      [] k[1] = "scene"       -> mem[k]   \* QUERY SCENE LEVEL
      [] OTHER                -> command_query(k[1])

Answered == {k \in Asked : k[1] \in {"fade_time", "fade_rate"} =>
                               Setting("fade_time") < 16 /\ Setting("fade_rate") < 16}

-----------------------------------------------------------------------------
(* What the command at hand has left to do: nvm, step by step and name by  *)
(* name, and what comes behind.                                            *)

AtHand(w) == w \in todo /\ \A v \in todo : Rank(w.name) <= Rank(v.name)

\* A write is through.  With the last one so is what the command tells.
Through(w) ==
    /\ todo' = todo \ {w}
    /\ IF todo' = {}
       THEN /\ told' = [k \in Facts |-> IF k \in DOMAIN order THEN {order[k]} ELSE told[k]]
            /\ order' = Nothing
       ELSE UNCHANGED <<told, order>>
    /\ UNCHANGED upset

Assign(w) ==
    /\ AtHand(w) /\ w.do = "assign"
    /\ mem' = [mem EXCEPT ![w.at] = w.value]
    /\ todo' = (todo \ {w}) \cup {[w EXCEPT !.do = "commit"]}
    /\ UNCHANGED <<nvs, last, after, lamp, fade, raw, register, commands, history>>

\* (Seeded: the commit is forgotten where another one follows.)
Commit_last(w) ==
    /\ AtHand(w) /\ w.do = "commit"
    /\ nvs' = IF todo = {w} THEN [nvs EXCEPT ![w.name] = mem[w.at]] ELSE nvs
    /\ IF w.back
       THEN todo' = (todo \ {w}) \cup {[w EXCEPT !.do = "read"]} /\ UNCHANGED history
       ELSE Through(w)
    /\ UNCHANGED <<mem, last, after, lamp, fade, raw, register, commands>>

Commit(w) ==
    /\ AtHand(w) /\ w.do = "commit"
    /\ nvs' = [nvs EXCEPT ![w.name] = mem[w.at]]
    /\ IF w.back
       THEN todo' = (todo \ {w}) \cup {[w EXCEPT !.do = "read"]} /\ UNCHANGED history
       ELSE Through(w)
    /\ UNCHANGED <<mem, last, after, lamp, fade, raw, register, commands>>

ReadBack(w) ==
    /\ AtHand(w) /\ w.do = "read"
    /\ mem' = [mem EXCEPT ![w.at] = nvs[w.name]]
    /\ Through(w)
    /\ UNCHANGED <<nvs, last, after, lamp, fade, raw, register, commands>>

\* STEP DOWN AND OFF asks the level again, which a fade may have set meanwhile.
Finish ==
    /\ todo = {} /\ after # "nothing" /\ after' = "nothing"
    /\ lamp_on' = IF after = "on" THEN TRUE ELSE lamp_on /\ actual_level # min_level
    /\ UNCHANGED <<level, todo, limit_error, fade, raw, register, commands, history>>

CommandStep == Finish \/ \E w \in todo : Assign(w) \/ Commit(w) \/ ReadBack(w)

-----------------------------------------------------------------------------
(* The specification.                                                      *)

Next == \/ Operation \/ command_config \/ special_command \/ CommandStep
        \/ \E t \in TaskIds : fade_task(t)
        \/ PowerCycle

Spec == Init /\ [][Next]_vars

\* A task that is ready runs; nobody has to give a command, or cut the mains.
FairSpec == Spec /\ \A t \in TaskIds : WF_vars(fade_task(t))

-----------------------------------------------------------------------------
(* Properties.                                                             *)

\* The variables hold values of their types: the flash of nvm, the plan, and
\* the delays, which raw_level must be able to give whatever fade_task makes
\* of a plan that is replaced under it.
TypeOK ==
    /\ mem \in [Key -> Level] /\ nvs \in [Key -> Level]
    /\ todo \subseteq Writes /\ after \in {"nothing", "on", "off"}
    /\ last \in Level /\ dtr0 \in Level /\ said \in Level
    /\ lamp_on \in BOOLEAN /\ limit_error \in BOOLEAN /\ fade_running \in BOOLEAN
    /\ param \in FadeParam
    /\ task \in [TaskIds -> [pc : {"none", "created", "entered", "run", "end", "save"},
                             tmp : {0} \cup RawDelay]]
    /\ raw \in RawDelay
    /\ commands \in 0..MaxCommands
    /\ told \in [Facts -> SUBSET Level]
    /\ DOMAIN order \subseteq Facts /\ \A k \in DOMAIN order : order[k] \in Level
    /\ upset \subseteq {"hasty", "jump", "reset", "wrap"}

Quiet == Idle /\ \A t \in TaskIds : task[t].pc = "none"

\* With every fade and command over, the lamp burns as actual_level says, give
\* or take a step of the plan, if no level wrapped round in default_fade_param,
\* no plan was replaced before its task began, and no RESET and no level set
\* at once (STEP UP, RECALL MAX LEVEL) fell into a fade.
LampShowsLevel ==
    Quiet /\ lamp_on /\ upset = {} => Distance(raw, RawLevel(actual_level)) <= 36

\* fade_running is what fade_task and the operations lock the plan with: it
\* says whether a fade runs, and only one does, but for RESET, which takes the
\* flag back, and for a plan replaced before its task began.
OneFade ==
    upset \subseteq {"jump", "wrap"} =>
        /\ fade_running <=> \E t \in TaskIds : Running(t)
        /\ \A t, u \in TaskIds : Running(t) /\ Running(u) => t = u

\* What command_config and special_command were told last is what a query
\* answers, whatever was commanded and however often the mains failed since,
\* between any two steps.  Of a command that they cut off (RESET has some
\* thirty values to write) each value was told or was not: the unit answers
\* either the old one or the new.  It may answer anything where RANDOMISE had
\* overwritten the byte of DTR0 the command was to set.  (Asked leaves scenes
\* 8 and 9 out, which share a place; Answered says when a half of the answer
\* for the fades has room.)
AnswersAsTold ==
    \A k \in Asked \ DOMAIN order : k \in Answered => Answer(k) \in told[k]

\* The unit is reached by the groups it was told to be in, and by no other,
\* with the same words about a command that was cut off.  is_group_address
\* leaves group 8 out, and a unit that is in every group.
GroupsAsTold ==
    \A g \in 0..15 \ {8} : Group(g) \notin DOMAIN order =>
        /\ told[Group(g)] = {0} => ~is_group_address(mem, g)
        /\ /\ told[Group(g)] = {1}
           /\ \E h \in 0..15 : told[Group(h)] = {0} /\ Group(h) \notin DOMAIN order
           => is_group_address(mem, g)

\* The names that have a new value in memory which flash may not hold yet: the
\* one a command is at, and the level while a fade task stores it.
Open == {w.name : w \in {v \in todo : AtHand(v)}}
        \cup {k \in {One("actual")} : \E t \in TaskIds : task[t].pc = "save"}

\* After a mains failure at any moment every value but those of Open is what it
\* was, save the search and random addresses and scenes 8 and 9, which Lasting
\* leaves out (AnswersAsTold says what a value of Open may be); and the lamp
\* comes up at power_on_level or, with 255, at the level it had.
StartRestores ==
    [][PowerCycle =>
        /\ \A k \in Lasting \ Open : mem'[k] = mem[k]
        /\ mem'[One("power_on_level")] # 255 => actual_level' = mem'[One("power_on_level")]
        /\ mem'[One("power_on_level")] = 255 /\ One("actual") \notin Open
              => actual_level' = actual_level]_vars

\* Every fade ends: fade_running, without which no further one begins, does
\* not stay.
FadeEnds == fade_running ~> ~fade_running
=============================================================================

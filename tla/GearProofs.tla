----------------------------- MODULE GearProofs -----------------------------
(***************************************************************************)
(* What is proved of GearDimmer for all stored values, inputs and bounds:  *)
(* its types, that one fade runs at a time and leaves the lamp at its       *)
(* level, that the groups and the values are those it was told, and that a *)
(* start finds what was left.                                              *)
(***************************************************************************)
EXTENDS GearDimmer, TriacLevelsProofs

-----------------------------------------------------------------------------
(* Bits.                                                                   *)

\* The eight weights of a byte.
LEMMA Powers ==
    /\ Power(0) = 1 /\ Power(1) = 2 /\ Power(2) = 4 /\ Power(3) = 8
    /\ Power(4) = 16 /\ Power(5) = 32 /\ Power(6) = 64 /\ Power(7) = 128
BY DEF Power

\* A byte with a bit more, or a bit less, is a byte.
LEMMA BitLevel ==
    ASSUME NEW b \in Level, NEW i \in 0..7
    PROVE  WithBit(b, i) \in Level /\ WithoutBit(b, i) \in Level
<1>1. \/ i = 0 \/ i = 1 \/ i = 2 \/ i = 3 \/ i = 4 \/ i = 5 \/ i = 6 \/ i = 7
  OBVIOUS
<1>2. CASE i = 0
  BY <1>2, Powers DEF WithBit, WithoutBit, Bit, Level
<1>3. CASE i = 1
  BY <1>3, Powers DEF WithBit, WithoutBit, Bit, Level
<1>4. CASE i = 2
  BY <1>4, Powers DEF WithBit, WithoutBit, Bit, Level
<1>5. CASE i = 3
  BY <1>5, Powers DEF WithBit, WithoutBit, Bit, Level
<1>6. CASE i = 4
  BY <1>6, Powers DEF WithBit, WithoutBit, Bit, Level
<1>7. CASE i = 5
  BY <1>7, Powers DEF WithBit, WithoutBit, Bit, Level
<1>8. CASE i = 6
  BY <1>8, Powers DEF WithBit, WithoutBit, Bit, Level
<1>9. CASE i = 7
  BY <1>9, Powers DEF WithBit, WithoutBit, Bit, Level
<1> QED
  BY <1>1, <1>2, <1>3, <1>4, <1>5, <1>6, <1>7, <1>8, <1>9

\* A bit put in is there, and no other bit is touched.
LEMMA BitSet ==
    ASSUME NEW b \in Level, NEW i \in 0..7, NEW j \in 0..7
    PROVE  Bit(WithBit(b, i), j) <=> (j = i \/ Bit(b, j))
<1> USE Powers DEF WithBit, Bit, Level
<1>0. CASE i = 0
  <2>0. CASE j = 0 \/ j = 1 \/ j = 2
    BY <1>0, <2>0, SMTT(60)
  <2>3. CASE j = 3
    BY <1>0, <2>3, SMTT(60)
  <2>4. CASE j = 4
    BY <1>0, <2>4, SMTT(60)
  <2>5. CASE j = 5
    BY <1>0, <2>5, SMTT(60)
  <2>6. CASE j = 6
    BY <1>0, <2>6, SMTT(60)
  <2>7. CASE j = 7
    BY <1>0, <2>7, SMTT(60)
  <2> QED
    BY <2>0, <2>3, <2>4, <2>5, <2>6, <2>7
<1>1. CASE i = 1
  <2>1. CASE j = 0 \/ j = 1 \/ j = 2
    BY <1>1, <2>1, SMTT(60)
  <2>2. CASE j = 3 \/ j = 4 \/ j = 5
    BY <1>1, <2>2, SMTT(60)
  <2>3. CASE j = 6 \/ j = 7
    BY <1>1, <2>3, SMTT(60)
  <2> QED
    BY <2>1, <2>2, <2>3
<1>2. CASE i = 2
  <2>1. CASE j = 0 \/ j = 1 \/ j = 2
    BY <1>2, <2>1, SMTT(60)
  <2>2. CASE j = 3 \/ j = 4 \/ j = 5
    BY <1>2, <2>2, SMTT(60)
  <2>3. CASE j = 6 \/ j = 7
    BY <1>2, <2>3, SMTT(60)
  <2> QED
    BY <2>1, <2>2, <2>3
<1>3. CASE i = 3
  <2>1. CASE j = 0 \/ j = 1 \/ j = 2
    BY <1>3, <2>1, SMTT(60)
  <2>2. CASE j = 3 \/ j = 4 \/ j = 5
    BY <1>3, <2>2, SMTT(60)
  <2>3. CASE j = 6 \/ j = 7
    BY <1>3, <2>3, SMTT(60)
  <2> QED
    BY <2>1, <2>2, <2>3
<1>4. CASE i = 4
  <2>1. CASE j = 0 \/ j = 1 \/ j = 2
    BY <1>4, <2>1, SMTT(60)
  <2>2. CASE j = 3 \/ j = 4 \/ j = 5
    BY <1>4, <2>2, SMTT(60)
  <2>3. CASE j = 6 \/ j = 7
    BY <1>4, <2>3, SMTT(60)
  <2> QED
    BY <2>1, <2>2, <2>3
<1>5. CASE i = 5
  <2>1. CASE j = 0 \/ j = 1 \/ j = 2
    BY <1>5, <2>1, SMTT(60)
  <2>2. CASE j = 3 \/ j = 4 \/ j = 5
    BY <1>5, <2>2, SMTT(60)
  <2>3. CASE j = 6 \/ j = 7
    BY <1>5, <2>3, SMTT(60)
  <2> QED
    BY <2>1, <2>2, <2>3
<1>6. CASE i = 6
  <2>1. CASE j = 0 \/ j = 1 \/ j = 2
    BY <1>6, <2>1, SMTT(60)
  <2>2. CASE j = 3 \/ j = 4 \/ j = 5
    BY <1>6, <2>2, SMTT(60)
  <2>3. CASE j = 6 \/ j = 7
    BY <1>6, <2>3, SMTT(60)
  <2> QED
    BY <2>1, <2>2, <2>3
<1>7. CASE i = 7
  <2>1. CASE j = 0 \/ j = 1 \/ j = 2
    BY <1>7, <2>1, SMTT(60)
  <2>2. CASE j = 3 \/ j = 4 \/ j = 5
    BY <1>7, <2>2, SMTT(60)
  <2>3. CASE j = 6 \/ j = 7
    BY <1>7, <2>3, SMTT(60)
  <2> QED
    BY <2>1, <2>2, <2>3
<1> QED
  BY <1>0, <1>1, <1>2, <1>3, <1>4, <1>5, <1>6, <1>7

\* A bit that is there can be taken out and put in again.
LEMMA BitBack ==
    ASSUME NEW b \in Level, NEW i \in 0..7
    PROVE  /\ ~Bit(WithoutBit(b, i), i)
           /\ Bit(b, i) => WithBit(WithoutBit(b, i), i) = b
<1>0. CASE i = 0
  BY <1>0, Powers DEF WithoutBit, WithBit, Bit, Level
<1>1. CASE i = 1
  BY <1>1, Powers DEF WithoutBit, WithBit, Bit, Level
<1>2. CASE i = 2
  BY <1>2, Powers DEF WithoutBit, WithBit, Bit, Level
<1>3. CASE i = 3
  BY <1>3, Powers DEF WithoutBit, WithBit, Bit, Level
<1>4. CASE i = 4
  BY <1>4, Powers DEF WithoutBit, WithBit, Bit, Level
<1>5. CASE i = 5
  BY <1>5, Powers DEF WithoutBit, WithBit, Bit, Level
<1>6. CASE i = 6
  BY <1>6, Powers DEF WithoutBit, WithBit, Bit, Level
<1>7. CASE i = 7
  BY <1>7, Powers DEF WithoutBit, WithBit, Bit, Level
<1> QED
  BY <1>0, <1>1, <1>2, <1>3, <1>4, <1>5, <1>6, <1>7

\* A bit taken out is gone, and no other bit is touched.
LEMMA BitReset ==
    ASSUME NEW b \in Level, NEW i \in 0..7, NEW j \in 0..7
    PROVE  Bit(WithoutBit(b, i), j) <=> (j # i /\ Bit(b, j))
<1> DEFINE c == WithoutBit(b, i)
<1>1. c \in Level /\ ~Bit(c, i) /\ (Bit(b, i) => WithBit(c, i) = b)
  BY BitLevel, BitBack
<1>2. ~Bit(b, i) => c = b
  BY DEF WithoutBit
<1> HIDE DEF c
<1>3. Bit(WithBit(c, i), j) <=> (j = i \/ Bit(c, j))
  BY <1>1, BitSet
<1> QED
  BY <1>1, <1>2, <1>3, Zenon DEF c

-----------------------------------------------------------------------------
(* Names, and what start makes of memory and flash.                        *)

\* Every name a command sets is in flash.
LEMMA NamesAreKeys ==
    /\ \A name \in Given \cup {"actual"} : One(name) \in Key
    /\ \A i \in Scenes : Scene(i) \in Key
    /\ \A i \in 0..1 : Gear(i) \in Key
    /\ \A i \in 0..2 : <<"search", i>> \in Key
BY DEF Key, One, Scene, Gear

\* A place is a name, and scene 9 is the only one without a place of its own.
LEMMA PlacesAreKeys ==
    /\ \A k \in Key : Place(k) \in Key
    /\ \A k \in Key : Place(k) = k \/ (k = Scene(9) /\ Place(k) = Scene(8))
<1>1. Scene(9) \in Key => Scene(8) \in Key
  BY ScenesAssumption DEF Key, Scene, Given
<1> QED
  BY <1>1 DEF Place

\* Every default is a level.
LEMMA DefaultIsLevel == \A k \in Key : Default(k) \in Level
<1>1. 254 \in Level /\ physical_min_level \in Level /\ 7 \in Level /\ 0 \in Level
      /\ 1 \in Level /\ 255 \in Level
  BY DEF Level, physical_min_level
<1> QED
  BY <1>1 DEF Default, Key, Given

Contents == [Key -> Level]

\* A start makes bytes, and a delay, of whatever memory and flash hold.
LEMMA BootTypes ==
    ASSUME NEW memory \in Contents, NEW flash, DOMAIN flash \subseteq Key,
           \A k \in DOMAIN flash : flash[k] \in Level
    PROVE  /\ Boot(memory, flash).mem \in Contents
           /\ Boot(memory, flash).nvs \in Contents
           /\ Boot(memory, flash).raw \in RawDelay
           /\ Boot(memory, flash).lamp_on \in BOOLEAN
<1> DEFINE written == FlashInit(flash)
           init    == MemoryInit(memory, flash)
           lev     == IF init[One("power_on_level")] = 255 THEN init[One("actual")]
                                                           ELSE init[One("power_on_level")]
<1>1. written \in Contents
  BY DefaultIsLevel DEF FlashInit, Contents
<1>2. One("actual") \in Key /\ One("power_on_level") \in Key
  BY NamesAreKeys DEF Given
<1>3. init \in Contents
  <2>1. \A k \in Key : memory[k] \in Level /\ written[k] \in Level
    BY <1>1 DEF Contents
  <2>2. Scene(8) \in Key => Scene(9) \in Key
    BY ScenesAssumption DEF Key, Scene, Given
  <2> QED
    BY <2>1, <2>2 DEF MemoryInit, Contents
<1>4. lev \in Level
  BY <1>2, <1>3 DEF Contents
<1>5. RawLevel(lev) \in RawDelay
  BY <1>4, RawLevelRange
<1>6. /\ Boot(memory, flash).mem = [init EXCEPT ![One("actual")] = lev]
      /\ Boot(memory, flash).nvs = written
      /\ Boot(memory, flash).raw = RawLevel(lev)
      /\ Boot(memory, flash).lamp_on = (RawLevel(lev) <= 10000)
  BY DEF Boot
<1> HIDE DEF written, init, lev
<1> QED
  BY <1>1, <1>2, <1>3, <1>4, <1>5, <1>6 DEF Contents

-----------------------------------------------------------------------------
(* Facts, and the names they are kept under.                               *)

\* The bytes of the groups are kept.
LEMMA GroupBytes ==
    \A g \in 0..15 : /\ g \div 8 \in 0..1 /\ BitOf(g) \in 0..7
                     /\ GearOf(g) \in Key /\ GearOf(g) \in {Gear(0), Gear(1)}
                     /\ GearOf(g)[1] = "gear"
<1> SUFFICES ASSUME NEW g \in 0..15
             PROVE  /\ g \div 8 \in 0..1 /\ BitOf(g) \in 0..7
                    /\ GearOf(g) \in Key /\ GearOf(g) \in {Gear(0), Gear(1)}
                    /\ GearOf(g)[1] = "gear"
  OBVIOUS
<1>1. g \div 8 \in 0..1 /\ BitOf(g) \in 0..7
  BY DEF BitOf
<1>2. GearOf(g) \in Key /\ GearOf(g) \in {Gear(0), Gear(1)}
  BY <1>1, NamesAreKeys DEF GearOf
<1>3. GearOf(g)[1] = "gear"
  BY DEF GearOf, Gear
<1> QED
  BY <1>1, <1>2, <1>3

\* What is asked for is one value or a scene.
LEMMA AskedNames ==
    /\ Asked \subseteq Lasting /\ Asked \subseteq Key
    /\ \A k \in Asked : (\E name \in Given : k = One(name)) \/ (\E i \in Scenes : k = Scene(i))
    /\ \A k \in Asked : /\ k # One("actual") /\ k # Scene(8) /\ k # Scene(9)
                        /\ k[1] \notin {"search", "random", "gear", "group"}
<1>1. Asked \subseteq Lasting /\ Asked \subseteq Key
  BY DEF Asked, Lasting
<1>2. \A k \in Asked : (\E name \in Given : k = One(name)) \/ (\E i \in Scenes : k = Scene(i))
  <2> SUFFICES ASSUME NEW k \in Asked
               PROVE  (\E name \in Given : k = One(name)) \/ (\E i \in Scenes : k = Scene(i))
    OBVIOUS
  <2>1. k \in Key /\ k[1] \notin {"actual", "search", "random", "gear"}
    BY DEF Asked, Lasting
  <2>2. k \in (Given \X {0}) \/ k \in ({"scene"} \X Scenes)
    BY <2>1 DEF Key
  <2> QED
    BY <2>2 DEF One, Scene
<1>3. \A k \in Asked : k # One("actual") /\ k # Scene(8) /\ k # Scene(9)
                       /\ k[1] \notin {"search", "random", "gear"}
  BY DEF Asked, Lasting, One
<1>4. \A k \in Asked : k[1] # "group"
  BY <1>2 DEF One, Scene, Given
<1> QED
  BY <1>1, <1>2, <1>3, <1>4

\* A fact that is asked for is kept under its own name, a group in a bit.
LEMMA HomeOfAsked ==
    \A k \in Asked : k \in Facts /\ Home(k) = k /\ \A byte : Part(byte, k) = byte
BY AskedNames DEF Facts, Home, Part

LEMMA HomeOfGroup ==
    \A g \in 0..15 : /\ Group(g) \in Facts /\ Home(Group(g)) = GearOf(g)
                     /\ \A byte : Part(byte, Group(g)) = IF Bit(byte, BitOf(g)) THEN 1 ELSE 0
BY DEF Facts, Home, Part, Group

\* The names of facts are kept, and are none of those that a fade or a search
\* writes; and the parts of a byte are bytes.
LEMMA Homes ==
    /\ \A k \in Facts : k \in Asked \/ \E g \in 0..15 : k = Group(g)
    /\ \A k \in Facts : /\ Home(k) \in Key /\ Home(k) # One("actual")
                        /\ Home(k) # Scene(8) /\ Home(k) # Scene(9)
                        /\ Home(k)[1] \notin {"search", "random"}
    /\ \A k \in Facts : \A byte \in Level : Part(byte, k) \in Level
<1>1. \A k \in Facts : k \in Asked \/ \E g \in 0..15 : k = Group(g)
  BY DEF Facts
<1>2. \A k \in Asked : /\ Home(k) \in Key /\ Home(k) # One("actual")
                       /\ Home(k) # Scene(8) /\ Home(k) # Scene(9)
                       /\ Home(k)[1] \notin {"search", "random"}
  BY HomeOfAsked, AskedNames
<1>3. \A g \in 0..15 : /\ GearOf(g) \in Key /\ GearOf(g) # One("actual")
                       /\ GearOf(g) # Scene(8) /\ GearOf(g) # Scene(9)
                       /\ GearOf(g)[1] \notin {"search", "random"}
  BY GroupBytes DEF One, Scene, Gear
<1>4. 0 \in Level /\ 1 \in Level
  BY DEF Level
<1> QED
  BY <1>1, <1>2, <1>3, <1>4, HomeOfAsked, HomeOfGroup

-----------------------------------------------------------------------------
(* The types, and what an operation on the lamp may do.                    *)

TaskState == [pc : {"none", "created", "entered", "run", "end", "save"}, tmp : {0} \cup RawDelay]

StoreOK == /\ mem \in Contents /\ nvs \in Contents
           /\ last \in Level /\ dtr0 \in Level /\ said \in Level

WorkOK == todo \subseteq Writes /\ after \in {"nothing", "on", "off"}

LampOK == lamp_on \in BOOLEAN /\ limit_error \in BOOLEAN /\ fade_running \in BOOLEAN

\* A task that runs has a delay of its own.
FadeOK == /\ param \in FadeParam /\ task \in [TaskIds -> TaskState] /\ raw \in RawDelay
          /\ \A t \in TaskIds : task[t].pc = "run" => task[t].tmp \in RawDelay

HistoryOK == /\ told \in [Facts -> SUBSET Level]
             /\ DOMAIN order \subseteq Facts /\ \A k \in DOMAIN order : order[k] \in Level
             /\ upset \subseteq {"hasty", "jump", "reset", "wrap"}

CountOK == commands \in 0..MaxCommands

Types == StoreOK /\ WorkOK /\ LampOK /\ FadeOK /\ HistoryOK /\ CountOK

LEMMA TypesAreTypeOK == Types => TypeOK
BY DEF Types, TypeOK, StoreOK, WorkOK, LampOK, FadeOK, HistoryOK, CountOK, TaskState, Contents

\* What is set from memory is a level.
LEMMA SettingsAreLevels ==
    ASSUME StoreOK
    PROVE  /\ \A name \in Given \cup {"actual"} : Setting(name) \in Level
           /\ actual_level \in Level /\ min_level \in Level /\ max_level \in Level
           /\ \A i \in Scenes : mem[Scene(i)] \in Level
           /\ \A i \in 0..1 : mem[Gear(i)] \in Level
<1>1. \A k \in Key : mem[k] \in Level
  BY DEF StoreOK, Contents
<1>2. \A name \in Given \cup {"actual"} : Setting(name) \in Level
  BY <1>1, NamesAreKeys DEF Setting
<1>3. actual_level \in Level /\ min_level \in Level /\ max_level \in Level
  BY <1>2 DEF actual_level, min_level, max_level, Given
<1> QED
  BY <1>1, <1>2, <1>3, NamesAreKeys

\* The levels that UP and DOWN aim at are levels.
LEMMA AimsAreLevels == ASSUME StoreOK PROVE Up200ms \in Level /\ Down200ms \in Level
<1>1. actual_level \in Int /\ min_level \in Level /\ max_level \in Level
  BY SettingsAreLevels DEF Level
<1>2. Steps200ms \in Nat
  BY StepsAreNat DEF Steps200ms
<1>3. UInt8(actual_level + Steps200ms) \in Level /\ UInt8(actual_level - Steps200ms) \in Level
  BY <1>1, <1>2, UInt8IsLevel
<1> QED
  BY <1>1, <1>3 DEF Up200ms, Down200ms

Directions == {"DIR_UP", "DIR_DOWN"}

\* The level is kept or remembered, or changed and still to be stored.
LevelEffect == \/ UNCHANGED <<level, todo>>
               \/ last' = actual_level /\ UNCHANGED <<mem, nvs, todo>>
               \/ \E to \in Level : change_actual_level(to)

\* A plan is made only if no fade runs.
PlanEffect ==
    /\ ~fade_running /\ fade_running' = fade_running
    /\ \E to \in Level, dir \in Directions : Plan(to, dir)
    /\ \/ task' = task
       \/ \E t \in TaskIds : task[t].pc = "none" /\ task' = [task EXCEPT ![t].pc = "created"]

FadeEffect == PlanEffect \/ (UNCHANGED fade /\ (upset' = upset \/ upset' = upset \cup {"jump"}))

OpEffect == /\ Call /\ LevelEffect /\ FadeEffect
            /\ lamp_on' \in BOOLEAN /\ limit_error' \in BOOLEAN /\ raw' \in RawDelay
            /\ after' \in {"nothing", "on", "off"}
            /\ UNCHANGED <<register, told, order>>

\* A plan with its task is the effect of a plan.
LEMMA FadeIsPlan ==
    ASSUME NEW to \in Level, NEW dir \in Directions, ~fade_running, Fade(to, dir)
    PROVE  PlanEffect /\ UNCHANGED <<told, order>>
BY DEF Fade, Plan, PlanEffect

\* A jump changes the level and leaves the plan.
LEMMA JumpEffect ==
    ASSUME NEW to \in Level, Jump(to)
    PROVE  /\ LevelEffect /\ FadeEffect /\ raw' \in RawDelay
           /\ UNCHANGED <<register, told, order>>
<1>1. raw' \in RawDelay
  BY RawLevelRange DEF Jump
<1>2. upset' = upset \/ upset' = upset \cup {"jump"}
  <2>1. CASE \E t \in TaskIds : Running(t)
    <3>1. {what \in {"jump"} : \E t \in TaskIds : Running(t)} = {"jump"}
      BY <2>1
    <3> QED
      BY <3>1 DEF Jump
  <2>2. CASE ~\E t \in TaskIds : Running(t)
    <3>1. {what \in {"jump"} : \E t \in TaskIds : Running(t)} = {}
      BY <2>2
    <3> QED
      BY <3>1 DEF Jump
  <2> QED
    BY <2>1, <2>2
<1> QED
  BY <1>1, <1>2 DEF Jump, LevelEffect, FadeEffect

\* What is refused touches nothing but limit_error.
LEMMA RefusedEffect ==
    ASSUME Types, Call, Refused, limit_error' \in BOOLEAN
    PROVE  OpEffect
BY DEF Refused, OpEffect, LevelEffect, FadeEffect, level, work, fade, history,
       Types, WorkOK, LampOK, FadeOK

\* Single steps stay levels.
LEMMA StepIsLevel ==
    ASSUME StoreOK
    PROVE  /\ actual_level + 1 <= max_level => actual_level + 1 \in Level
           /\ actual_level - 1 >= min_level => actual_level - 1 \in Level
BY SettingsAreLevels DEF Level

\* Every operation has this effect, or divides by zero and starts again.
LEMMA OperationEffect == ASSUME Types, Operation PROVE OpEffect \/ (Call /\ Restart)
<1> USE DEF Types
<1>1. ASSUME NEW to \in ArcLevels, direct_arc_power(to) PROVE OpEffect
  <2>1. to \in Level /\ Direction(to) \in Directions
    BY InputAssumption DEF Direction, Directions
  <2>2. CASE to \in min_level..max_level
    <3>1. PlanEffect /\ UNCHANGED <<told, order>>
      BY <1>1, <2>1, <2>2, FadeIsPlan DEF direct_arc_power
    <3> QED
      BY <1>1, <2>2, <3>1 DEF direct_arc_power, OpEffect, LevelEffect, FadeEffect, work, WorkOK, LampOK, FadeOK
  <2>3. CASE to \notin min_level..max_level
    BY <1>1, <2>3, RefusedEffect DEF direct_arc_power
  <2> QED
    BY <2>2, <2>3
<1>2. ASSUME command_off PROVE OpEffect
  BY <1>2 DEF command_off, OpEffect, LevelEffect, FadeEffect, work, WorkOK, history, LampOK, FadeOK
<1>3. ASSUME NEW run \in BOOLEAN, NEW to \in Level, NEW dir \in Directions, FadeBy200ms(to, dir, run)
      PROVE  OpEffect \/ (Call /\ Restart)
  <2>1. CASE to = actual_level
    BY <1>3, <2>1 DEF FadeBy200ms
  <2>2. CASE to # actual_level
    <3>1. PlanEffect /\ UNCHANGED <<told, order>>
      <4>1. CASE run
        BY <1>3, <2>2, <4>1, FadeIsPlan DEF FadeBy200ms
      <4>2. CASE ~run
        BY <1>3, <2>2, <4>2 DEF FadeBy200ms, PlanEffect, Plan
      <4> QED
        BY <4>1, <4>2
    <3> QED
      BY <1>3, <2>2, <3>1 DEF FadeBy200ms, OpEffect, LevelEffect, FadeEffect, work, WorkOK, LampOK, FadeOK
  <2> QED
    BY <2>1, <2>2
<1>4. ASSUME NEW run \in BOOLEAN, command_up(run) \/ command_down(run)
      PROVE  OpEffect \/ (Call /\ Restart)
  <2>1. Up200ms \in Level /\ Down200ms \in Level /\ "DIR_UP" \in Directions /\ "DIR_DOWN" \in Directions
    BY AimsAreLevels DEF Directions
  <2> QED
    BY <1>3, <1>4, <2>1 DEF command_up, command_down
<1>5. ASSUME NEW run \in BOOLEAN, command_step_up(run) \/ command_step_down(run)
      PROVE  OpEffect
  <2> DEFINE Takes(to) == Call /\ limit_error' = FALSE /\ Jump(to) /\ UNCHANGED <<lamp_on, after>>
             Leaves    == Call /\ limit_error' \in BOOLEAN /\ Refused
  <2>0. actual_level \in Int /\ min_level \in Int /\ max_level \in Int
    BY SettingsAreLevels DEF Level
  <2>1. ASSUME NEW to \in Level, Takes(to) PROVE OpEffect
    BY <2>1, JumpEffect DEF OpEffect, LampOK, WorkOK
  <2>2. CASE Leaves
    BY <2>2, RefusedEffect
  <2>3. CASE command_step_up(run)
    <3>1. actual_level + 1 <= max_level => actual_level + 1 \in Level
      BY StepIsLevel
    <3>2. Leaves \/ (~(actual_level + 1 > max_level) /\ Takes(actual_level + 1))
      BY <2>3 DEF command_step_up, LampOK
    <3>3. ~(actual_level + 1 > max_level) => actual_level + 1 <= max_level
      BY <2>0
    <3> QED
      BY <2>1, <2>2, <3>1, <3>2, <3>3
  <2>4. CASE command_step_down(run)
    <3>1. actual_level - 1 >= min_level => actual_level - 1 \in Level
      BY StepIsLevel
    <3>2. Leaves \/ (~(actual_level - 1 < min_level) /\ Takes(actual_level - 1))
      BY <2>4 DEF command_step_down, LampOK
    <3>3. ~(actual_level - 1 < min_level) => actual_level - 1 >= min_level
      BY <2>0
    <3> QED
      BY <2>1, <2>2, <3>1, <3>2, <3>3
  <2> QED
    BY <1>5, <2>3, <2>4
<1>6. ASSUME NEW to \in Level, command_recall(to) PROVE OpEffect
  BY <1>6, JumpEffect DEF command_recall, OpEffect, WorkOK
<1>7. ASSUME NEW run \in BOOLEAN, command_step_down_and_off(run) PROVE OpEffect
  <2>1. limit_error' \in BOOLEAN /\ Call
    BY <1>7 DEF command_step_down_and_off
  <2>2. CASE actual_level - 1 >= min_level /\ run
    <3>1. actual_level - 1 \in Level /\ Jump(actual_level - 1)
          /\ lamp_on' \in BOOLEAN /\ after' = "off"
      BY <1>7, <2>2, StepIsLevel DEF command_step_down_and_off, LampOK
    <3> QED
      BY <2>1, <3>1, JumpEffect DEF OpEffect
  <2>3. CASE ~(actual_level - 1 >= min_level /\ run)
    BY <1>7, <2>1, <2>3, RefusedEffect DEF command_step_down_and_off
  <2> QED
    BY <2>2, <2>3
<1>8. ASSUME NEW run \in BOOLEAN, command_on_and_step_up(run) PROVE OpEffect
  <2>1. limit_error' \in BOOLEAN /\ Call
    BY <1>8 DEF command_on_and_step_up
  <2>2. CASE actual_level + 1 \in min_level..max_level /\ run
    <3>1. actual_level + 1 \in Level
      BY <2>2, StepIsLevel, SettingsAreLevels DEF Level
    <3>2. Jump(actual_level + 1) /\ lamp_on' \in BOOLEAN /\ after' = "on"
      BY <1>8, <2>2 DEF command_on_and_step_up, LampOK
    <3> QED
      BY <2>1, <3>1, <3>2, JumpEffect DEF OpEffect
  <2>3. CASE ~(actual_level + 1 \in min_level..max_level /\ run)
    BY <1>8, <2>1, <2>3, RefusedEffect DEF command_on_and_step_up
  <2> QED
    BY <2>2, <2>3
<1>9. ASSUME command_goto_last_active_level PROVE OpEffect
  <2>1. last \in Level /\ Direction(last) \in Directions
    BY DEF StoreOK, Direction, Directions
  <2>2. PlanEffect /\ UNCHANGED <<told, order>>
    BY <1>9, <2>1, FadeIsPlan DEF command_goto_last_active_level
  <2> QED
    BY <1>9, <2>2 DEF command_goto_last_active_level, OpEffect, LevelEffect, FadeEffect, work, WorkOK,
                      LampOK, FadeOK
<1>10. ASSUME NEW run \in BOOLEAN, NEW to \in Level, NEW dir \in Directions, Continuous(to, dir, run)
       PROVE  OpEffect \/ (Call /\ Restart)
  <2>1. CASE Call /\ limit_error' \in BOOLEAN /\ Refused
    BY <2>1, RefusedEffect
  <2>2. CASE Call /\ Restart
    BY <2>2
  <2>3. CASE Call /\ ~fade_running /\ limit_error' = FALSE /\ Fade(to, dir)
             /\ UNCHANGED <<level, work, lamp_on, raw, register>>
    <3>1. PlanEffect /\ UNCHANGED <<told, order>>
      BY <2>3, FadeIsPlan
    <3> QED
      BY <2>3, <3>1 DEF OpEffect, LevelEffect, FadeEffect, work, WorkOK, LampOK, FadeOK
  <2> QED
    BY <1>10, <2>1, <2>2, <2>3 DEF Continuous
<1>11. ASSUME NEW run \in BOOLEAN, NEW i \in Scenes, command_goto_scene(i, run) PROVE OpEffect
  <2> DEFINE scene == mem[Scene(i)]
             to    == IF scene > max_level \/ (scene < min_level /\ min_level > max_level)
                      THEN max_level ELSE IF scene < min_level THEN min_level ELSE scene
  <2>1. to \in Level /\ Direction(to) \in Directions
    BY SettingsAreLevels DEF Direction, Directions
  <2>2. Call /\ ~fade_running /\ limit_error' \in BOOLEAN
    BY <1>11 DEF command_goto_scene
  <2>3. CASE run
    <3>1. lamp_on' = TRUE /\ Fade(to, Direction(to)) /\ UNCHANGED <<level, work, raw, register>>
      BY <1>11, <2>3 DEF command_goto_scene
    <3> HIDE DEF to
    <3>2. PlanEffect /\ UNCHANGED <<told, order>>
      BY <2>1, <2>2, <3>1, FadeIsPlan
    <3> QED
      BY <2>2, <3>1, <3>2 DEF OpEffect, LevelEffect, FadeEffect, work, WorkOK, FadeOK
  <2>4. CASE ~run
    BY <1>11, <2>2, <2>4, RefusedEffect DEF command_goto_scene
  <2> QED
    BY <2>3, <2>4
<1>12. max_level \in Level /\ min_level \in Level /\ "DIR_UP" \in Directions /\ "DIR_DOWN" \in Directions
  BY SettingsAreLevels DEF Directions
<1> QED
  BY <1>1, <1>2, <1>4, <1>5, <1>6, <1>7, <1>8, <1>9, <1>10, <1>11, <1>12 DEF Operation

-----------------------------------------------------------------------------
(* What the other commands do: each of command_config and special_command  *)
(* that sets a value has some writes to do, and tells something with it.   *)

Pair == {One("time_base"), One("time_multip")}

\* A write goes to the place of its name.
OwnPlace(w) == w.at = w.name \/ (w.name = Scene(9) /\ w.at = Scene(8))

\* A write to a half of the extended fade has a half, and one that leaves the
\* level alone does not assign it.
HalfByte(w)   == w.name \in Pair \/ w.at \in Pair => w.value \in 0..15
LevelStays(w) == w.at = One("actual") => w.do = "commit" /\ ~w.back

Proper(w) == w \in Writes /\ OwnPlace(w) /\ HalfByte(w)

\* The writes of a command but for RESET.
ConfigEffect == /\ \E writes \in SUBSET {w \in Writes : Proper(w) /\ LevelStays(w)} : Writing(writes)
                /\ HistoryOK' /\ upset' = upset

\* The level is stored so.
LEMMA StoresActual ==
    LET w == Committing(One("actual")) IN
        Proper(w) /\ LevelStays(w) /\ w.name = One("actual") /\ w.do = "commit"
<1>1. One("actual") \in Key /\ One("actual") # Scene(9) /\ One("actual") \notin Pair /\ 0 \in Level
  BY NamesAreKeys DEF One, Scene, Pair, Level
<1> QED
  BY <1>1 DEF Committing, Place, Proper, OwnPlace, HalfByte, LevelStays, Writes

\* A value is assigned so.
LEMMA AssigningIsProper ==
    ASSUME NEW k \in Key \ {One("actual")}, NEW value \in Level, k \in Pair => value \in 0..15
    PROVE  Proper(Assigning(k, value)) /\ LevelStays(Assigning(k, value))
BY DEF Assigning, Proper, OwnPlace, HalfByte, LevelStays, Writes

\* And all values are written so.
LEMMA WriteProcessIsProper == \A w \in WriteProcess : Proper(w) /\ LevelStays(w) /\ w.do = "commit"
<1> SUFFICES ASSUME NEW k \in Key
             PROVE  LET w == Committing(k) IN Proper(w) /\ LevelStays(w) /\ w.do = "commit"
  BY DEF WriteProcess
<1>1. Place(k) \in Key /\ (Place(k) = k \/ (k = Scene(9) /\ Place(k) = Scene(8)))
  BY PlacesAreKeys
<1>2. 0 \in Level /\ 0 \in 0..15
  BY DEF Level
<1> QED
  BY <1>1, <1>2 DEF Committing, Proper, OwnPlace, HalfByte, LevelStays, Writes

\* What RESET writes.
LEMMA ResetIsProper ==
    \A w \in ResetProcess : /\ Proper(w) /\ w.do = "assign" /\ w.value = Default(w.name)
                            /\ w.name # One("short_address") /\ w.back
<1> SUFFICES ASSUME NEW k \in Key \ {One("short_address")}
             PROVE  LET w == [name |-> k, at |-> Place(k), value |-> Default(k),
                              do |-> "assign", back |-> TRUE]
                    IN  Proper(w) /\ w.do = "assign" /\ w.value = Default(w.name)
                        /\ w.name # One("short_address") /\ w.back
  BY DEF ResetProcess
<1>1. Place(k) \in Key /\ (Place(k) = k \/ (k = Scene(9) /\ Place(k) = Scene(8)))
  BY PlacesAreKeys
<1>2. Default(k) \in Level
  BY DefaultIsLevel
<1>3. k \in Pair => Default(k) \in 0..15
  BY DEF Pair, One, Default
<1>4. Place(k) \in Pair => k \in Pair
  BY <1>1 DEF Pair, One, Scene
<1> QED
  BY <1>1, <1>2, <1>3, <1>4 DEF Proper, OwnPlace, HalfByte, Writes

\* What is told are values of facts.
LEMMA SaysIsHistory ==
    ASSUME HistoryOK, NEW values, \A k \in DOMAIN values : values[k] \in Level, Says(values)
    PROVE  HistoryOK' /\ upset' = upset
BY DEF Says, HistoryOK

LEMMA GarbledIsHistory ==
    ASSUME HistoryOK, NEW names, Garbled(names)
    PROVE  HistoryOK' /\ upset' = upset
BY DEF Garbled, HistoryOK

\* The names that a command sets one by one.
Settable == Key \ {Gear(0), Gear(1), One("time_base"), One("time_multip"), One("actual")}

SetsOne == \E k \in Settable, value \in Level :
              /\ Writing({Assigning(k, value)})
              /\ Says([j \in {k} |-> value]) \/ Garbled({k})

\* What DTR0 holds is set, told or not.
LEMMA ByDTR0SetsOne == ASSUME StoreOK, NEW k \in Settable, SetByDTR0(k) PROVE SetsOne
<1>1. dtr0 \in Level
  BY DEF StoreOK
<1>2. CASE dtr0 = said
  BY <1>1, <1>2 DEF SetByDTR0, SetsOne
<1>3. CASE dtr0 # said
  BY <1>1, <1>3 DEF SetByDTR0, SetsOne
<1> QED
  BY <1>2, <1>3

\* What command_config sets is a level under a name in flash.
LEMMA ConfigSetsOne ==
    ASSUME StoreOK, SetVariable \/ SetScene \/ RemoveScene \/ Program
    PROVE  SetsOne
<1>1. 255 \in Level
  BY DEF Level
<1>2. CASE SetVariable
  <2>1. PICK name \in {"max_level", "min_level", "system_failure", "power_on_level",
                          "fade_time", "fade_rate", "short_address"} : SetByDTR0(One(name))
    BY <1>2 DEF SetVariable
  <2>2. One(name) \in Settable
    BY <2>1, NamesAreKeys DEF Given, One, Gear, Settable
  <2> QED
    BY <2>1, <2>2, ByDTR0SetsOne
<1>3. CASE SetScene
  <2>1. PICK i \in Scenes : SetByDTR0(Scene(i))
    BY <1>3 DEF SetScene
  <2>2. Scene(i) \in Settable
    BY <2>1, NamesAreKeys DEF Scene, Gear, One, Settable
  <2> QED
    BY <2>1, <2>2, ByDTR0SetsOne
<1>4. CASE RemoveScene
  <2>1. PICK i \in Scenes : SetTo(Scene(i), 255)
    BY <1>4 DEF RemoveScene
  <2>2. Scene(i) \in Settable
    BY <2>1, NamesAreKeys DEF Scene, Gear, One, Settable
  <2> QED
    BY <1>1, <2>1, <2>2 DEF SetTo, SetsOne
<1>5. CASE Program
  <2>1. PICK byte \in Bytes : SetTo(One("short_address"), (byte \div 2) % 64)
    BY <1>5 DEF Program
  <2>2. byte \in 0..255
    BY InputAssumption DEF Level
  <2>3. (byte \div 2) % 64 \in Level
    BY <2>2 DEF Level
  <2>4. One("short_address") \in Settable
    BY NamesAreKeys DEF Given, One, Gear, Settable
  <2> QED
    BY <2>1, <2>3, <2>4 DEF SetTo, SetsOne
<1> QED
  BY <1>2, <1>3, <1>4, <1>5

LEMMA SetsOneIsConfig == ASSUME HistoryOK, SetsOne PROVE ConfigEffect
<1>1. PICK k \in Settable, value \in Level :
        /\ Writing({Assigning(k, value)})
        /\ Says([j \in {k} |-> value]) \/ Garbled({k})
  BY DEF SetsOne
<1>2. k \in Key \ {One("actual")} /\ k \notin Pair
  BY DEF Settable, Pair
<1>3. Proper(Assigning(k, value)) /\ LevelStays(Assigning(k, value))
  BY <1>2, AssigningIsProper
<1>4. HistoryOK' /\ upset' = upset
  BY <1>1, SaysIsHistory, GarbledIsHistory
<1> QED
  BY <1>1, <1>3, <1>4 DEF ConfigEffect, Proper

\* The two halves of a byte are halves of a byte.
LEMMA HalvesAreHalves ==
    ASSUME NEW byte \in Level
    PROVE  /\ DOMAIN Halves(byte) = Pair
           /\ \A k \in Pair : Halves(byte)[k] \in 0..15 /\ Halves(byte)[k] \in Level
<1>1. byte \in 0..255
  BY DEF Level
<1>2. byte % 16 \in 0..15 /\ byte \div 16 \in 0..15
  BY <1>1
<1>3. \A n \in 0..15 : n \in Level
  BY DEF Level
<1> QED
  BY <1>2, <1>3 DEF Halves, Pair

LEMMA PairNames == Pair \subseteq Asked /\ Pair \subseteq Key \ {One("actual")}
BY NamesAreKeys DEF Pair, Asked, Lasting, Given, One, Scene

LEMMA ExtendedFadeIsConfig == ASSUME StoreOK, HistoryOK, SetExtendedFade PROVE ConfigEffect
<1> DEFINE writes == {Assigning(k, Halves(dtr0)[k]) : k \in Pair}
<1>1. /\ DOMAIN Halves(dtr0) = Pair /\ DOMAIN Halves(said) = Pair
      /\ \A k \in Pair : Halves(dtr0)[k] \in 0..15 /\ Halves(dtr0)[k] \in Level
      /\ \A k \in Pair : Halves(said)[k] \in Level
  BY HalvesAreHalves DEF StoreOK
<1>2. Writing(writes)
  BY <1>1 DEF SetExtendedFade
<1>3. writes \in SUBSET {w \in Writes : Proper(w) /\ LevelStays(w)}
  <2>1. ASSUME NEW k \in Pair
        PROVE  Proper(Assigning(k, Halves(dtr0)[k])) /\ LevelStays(Assigning(k, Halves(dtr0)[k]))
    BY <1>1, <2>1, PairNames, AssigningIsProper
  <2> QED
    BY <2>1 DEF Proper
<1>4. HistoryOK' /\ upset' = upset
  <2>1. Says(Halves(said)) \/ Garbled(Pair)
    BY <1>1 DEF SetExtendedFade
  <2> QED
    BY <1>1, <2>1, SaysIsHistory, GarbledIsHistory
<1> HIDE DEF writes
<1> QED
  BY <1>2, <1>3, <1>4 DEF ConfigEffect

\* The byte of a group, with or without the group.
LEMMA GroupByte ==
    ASSUME StoreOK, NEW g \in 0..15
    PROVE  /\ BitOf(g) \in 0..7 /\ GearOf(g) \in Key \ {One("actual")} /\ GearOf(g) \notin Pair
           /\ mem[GearOf(g)] \in Level
           /\ WithBit(mem[GearOf(g)], BitOf(g)) \in Level
           /\ WithoutBit(mem[GearOf(g)], BitOf(g)) \in Level
<1>1. GearOf(g) \in Key /\ mem[GearOf(g)] \in Level /\ BitOf(g) \in 0..7
  BY GroupBytes DEF StoreOK, Contents
<1>2. GearOf(g) # One("actual") /\ GearOf(g) \notin Pair
  BY GroupBytes DEF One, Pair
<1> QED
  BY <1>1, <1>2, BitLevel

LEMMA GroupIsConfig == ASSUME StoreOK, HistoryOK, AddGroup \/ RemoveGroup PROVE ConfigEffect
<1>1. PICK g \in 0..15, byte \in Level, bit \in {0, 1} : InGroup(g, byte, bit)
  BY GroupByte, InputAssumption DEF AddGroup, RemoveGroup
<1>2. Proper(Assigning(GearOf(g), byte)) /\ LevelStays(Assigning(GearOf(g), byte))
  BY GroupByte, AssigningIsProper
<1>3. Writing({Assigning(GearOf(g), byte)}) /\ Says([k \in {Group(g)} |-> bit])
  BY <1>1 DEF InGroup
<1>4. 0 \in Level /\ 1 \in Level
  BY DEF Level
<1>5. HistoryOK' /\ upset' = upset
  BY <1>3, <1>4, SaysIsHistory
<1> QED
  BY <1>2, <1>3, <1>5 DEF ConfigEffect, Proper

LEMMA WriteAllIsConfig == ASSUME HistoryOK, WriteAll PROVE ConfigEffect
<1>1. WriteProcess \in SUBSET {w \in Writes : Proper(w) /\ LevelStays(w)}
  BY WriteProcessIsProper DEF Proper
<1> QED
  BY <1>1 DEF WriteAll, ConfigEffect, history, HistoryOK

-----------------------------------------------------------------------------
(* The types are kept.                                                     *)

\* A start keeps them, whatever memory holds.
LEMMA RestartTypes ==
    ASSUME Types, Restart, CountOK'
    PROVE  Types'
<1>1. PICK memory \in Memories :
        /\ mem' = Boot(memory, nvs).mem /\ nvs' = Boot(memory, nvs).nvs
        /\ raw' = Boot(memory, nvs).raw /\ lamp_on' = Boot(memory, nvs).lamp_on
  BY DEF Restart
<1>2. memory \in Contents
  BY InputAssumption DEF Memories, Contents
<1>3. DOMAIN nvs \subseteq Key /\ \A k \in DOMAIN nvs : nvs[k] \in Level
  BY DEF Types, StoreOK, Contents
<1>4. mem' \in Contents /\ nvs' \in Contents /\ raw' \in RawDelay /\ lamp_on' \in BOOLEAN
  BY <1>1, <1>2, <1>3, BootTypes
<1>5. 0 \in Level
  BY DEF Level
<1>6. fade_calc(0, 0, "DIR_UP") \in FadeParam
  BY <1>5, FadeCalcInRange
<1>7. NoTask \in TaskState /\ NoTask.pc # "run"
  BY DEF NoTask, TaskState
<1>8. WorkOK'
  BY StoresActual DEF Restart, WorkOK, Proper
<1>9. HistoryOK'
  <2>1. \A k \in Facts : told[k] \cup {order[j] : j \in DOMAIN order \cap {k}} \in SUBSET Level
    BY DEF Types, HistoryOK
  <2> QED
    BY <2>1 DEF Restart, HistoryOK, Nothing
<1> QED
  BY <1>4, <1>5, <1>6, <1>7, <1>8, <1>9
     DEF Restart, Types, StoreOK, LampOK, FadeOK

\* And before the first start they hold.
LEMMA InitTypes == ASSUME Init PROVE Types
<1>1. PICK memory \in Memories :
        /\ mem = Boot(memory, Stored).mem /\ nvs = Boot(memory, Stored).nvs
        /\ raw = Boot(memory, Stored).raw /\ lamp_on = Boot(memory, Stored).lamp_on
  BY DEF Init
<1>2. memory \in Contents
  BY InputAssumption DEF Memories, Contents
<1>4. mem \in Contents /\ nvs \in Contents /\ raw \in RawDelay /\ lamp_on \in BOOLEAN
  BY <1>1, <1>2, BootTypes, StoredAssumption
<1>5. 0 \in Level
  BY DEF Level
<1>6. fade_calc(0, 0, "DIR_UP") \in FadeParam
  BY <1>5, FadeCalcInRange
<1>7. NoTask \in TaskState /\ NoTask.pc # "run"
  BY DEF NoTask, TaskState
<1>8. WorkOK
  BY StoresActual DEF Init, WorkOK, Proper
<1>9. HistoryOK
  <2>1. ASSUME NEW k \in Facts PROVE {Part(mem[Home(k)], k)} \in SUBSET Level
    BY <1>4, <2>1, Homes DEF Contents
  <2> QED
    BY <2>1 DEF Init, HistoryOK, Nothing
<1>10. CountOK
  BY InputAssumption DEF Init, CountOK
<1> QED
  BY <1>4, <1>5, <1>6, <1>7, <1>8, <1>9, <1>10
     DEF Init, Types, StoreOK, LampOK, FadeOK

\* A call is counted.
LEMMA CallCounts == ASSUME CountOK, Call PROVE CountOK'
BY InputAssumption DEF CountOK, Call

\* An operation keeps them.
LEMMA OpEffectTypes == ASSUME Types, OpEffect PROVE Types'
<1> USE DEF Types
<1>1. CountOK'
  BY CallCounts DEF OpEffect
<1>2. StoreOK' /\ WorkOK'
  <2>1. CASE UNCHANGED <<level, todo>>
    BY <2>1 DEF OpEffect, StoreOK, WorkOK, level, register
  <2>2. CASE last' = actual_level /\ UNCHANGED <<mem, nvs, todo>>
    BY <2>2, SettingsAreLevels DEF OpEffect, StoreOK, WorkOK, register
  <2>3. CASE \E to \in Level : change_actual_level(to)
    BY <2>3, SettingsAreLevels, StoresActual
       DEF OpEffect, StoreOK, WorkOK, change_actual_level, Contents, register, Proper
  <2> QED
    BY <2>1, <2>2, <2>3 DEF OpEffect, LevelEffect
<1>3. CASE PlanEffect
  <2>1. PICK to \in Level, dir \in Directions : Plan(to, dir)
    BY <1>3 DEF PlanEffect
  <2>2. param' \in FadeParam
    BY <2>1, SettingsAreLevels, FadeCalcInRange DEF Plan, default_fade_param, Directions
  <2>3. upset' \subseteq {"hasty", "jump", "reset", "wrap"}
    <3>1. {what \in {"hasty", "wrap"} :
                    \/ what = "hasty" /\ \E t \in TaskIds : Waiting(t)
                    \/ what = "wrap"  /\ IF dir = "DIR_UP" THEN to < actual_level
                                                           ELSE to > actual_level}
          \subseteq {"hasty", "wrap"}
      OBVIOUS
    <3> QED
      BY <2>1, <3>1 DEF Plan, HistoryOK
  <2>4. /\ task' \in [TaskIds -> TaskState]
        /\ \A u \in TaskIds : task'[u].pc = "run" => task'[u].tmp \in RawDelay
    BY <1>3 DEF PlanEffect, FadeOK, TaskState
  <2> QED
    BY <1>1, <1>2, <1>3, <2>2, <2>3, <2>4
       DEF OpEffect, PlanEffect, LampOK, FadeOK, HistoryOK
<1>4. CASE UNCHANGED fade /\ (upset' = upset \/ upset' = upset \cup {"jump"})
  BY <1>1, <1>2, <1>4 DEF OpEffect, fade, LampOK, FadeOK, HistoryOK
<1> QED
  BY <1>3, <1>4 DEF OpEffect, FadeEffect

\* A step of a fade task keeps them.
LEMMA TaskTypes == ASSUME Types, NEW t \in TaskIds, fade_task(t) PROVE Types'
<1> USE DEF Types
<1>0. NoTask \in TaskState /\ NoTask.pc # "run" /\ param \in FadeParam
      /\ task[t] \in TaskState /\ task \in [TaskIds -> TaskState]
  BY DEF NoTask, TaskState, FadeOK
<1>1. WorkOK' /\ HistoryOK' /\ CountOK'
  BY DEF fade_task, FadeCheck, FadeBegin, FadeOn, FadeEnd, FadeSave, work, history,
         WorkOK, HistoryOK, CountOK
<1>2. StoreOK'
  <2>1. param.destination \in Level /\ actual_level \in Level /\ One("actual") \in Key
    BY <1>0, SettingsAreLevels, NamesAreKeys DEF FadeParam
  <2>2. CASE UNCHANGED <<level, register>>
    BY <2>2 DEF level, register, StoreOK
  <2>3. CASE FadeEnd(t)
    BY <2>1, <2>3 DEF FadeEnd, register, StoreOK, Contents
  <2>4. CASE FadeSave(t)
    BY <2>1, <2>4 DEF FadeSave, register, StoreOK, Contents
  <2> QED
    BY <2>2, <2>3, <2>4 DEF fade_task, FadeCheck, FadeBegin, FadeOn
<1>3. LampOK' /\ param' \in FadeParam
  BY <1>0 DEF fade_task, FadeCheck, FadeBegin, FadeOn, FadeEnd, FadeSave, lamp, LampOK
<1>4. /\ task' \in [TaskIds -> TaskState] /\ raw' \in RawDelay
      /\ \A u \in TaskIds : task'[u].pc = "run" => task'[u].tmp \in RawDelay
  <2>1. CASE FadeCheck(t)
    <3>1. [pc |-> "entered", tmp |-> 0] \in TaskState
      BY DEF TaskState
    <3> QED
      BY <1>0, <2>1, <3>1 DEF FadeCheck, FadeOK
  <2>2. CASE FadeBegin(t)
    <3>1. param.step_start \in RawDelay /\ [pc |-> "run", tmp |-> param.step_start] \in TaskState
      BY <1>0 DEF FadeParam, TaskState
    <3> QED
      BY <1>0, <2>2, <3>1 DEF FadeBegin, FadeOK
  <2>3. CASE FadeOn(t)
    <3> DEFINE tmp == NextRaw(task[t].tmp, param)
    <3>1. CASE GoesOn(tmp, param)
      <4>1. task[t].tmp \in RawDelay
        BY <2>3 DEF FadeOn, FadeOK
      <4>2. tmp \in RawDelay
        BY <1>0, <3>1, <4>1, NextRawInRange
      <4> HIDE DEF tmp
      <4>3. task' = [task EXCEPT ![t].tmp = tmp] /\ raw' = tmp
        BY <2>3, <3>1 DEF FadeOn, tmp
      <4> QED
        BY <1>0, <4>2, <4>3 DEF TaskState, FadeOK
    <3>2. CASE ~GoesOn(tmp, param)
      BY <1>0, <2>3, <3>2 DEF FadeOn, TaskState, FadeOK
    <3> QED
      BY <3>1, <3>2
  <2>4. CASE FadeEnd(t)
    BY <1>0, <2>4 DEF FadeEnd, TaskState, FadeOK
  <2>5. CASE FadeSave(t)
    BY <1>0, <2>5 DEF FadeSave, FadeOK
  <2> QED
    BY <2>1, <2>2, <2>3, <2>4, <2>5 DEF fade_task
<1> QED
  BY <1>1, <1>2, <1>3, <1>4 DEF FadeOK

\* A command that has something to write keeps them.
LEMMA ConfigTypes == ASSUME Types, ConfigEffect PROVE Types'
<1> USE DEF Types
<1>1. PICK writes \in SUBSET {w \in Writes : Proper(w) /\ LevelStays(w)} : Writing(writes)
  BY DEF ConfigEffect
<1>2. CountOK'
  BY <1>1, CallCounts DEF Writing
<1> QED
  BY <1>1, <1>2
     DEF ConfigEffect, Writing, level, lamp, fade, register, StoreOK, WorkOK, LampOK, FadeOK

\* RESET leaves a level, and something to write.
LEMMA ResetTypes == ASSUME Types, Reset PROVE Types'
<1> USE DEF Types
<1>1. CountOK'
  BY CallCounts DEF Reset
<1>2. StoreOK'
  <2>1. 254 \in Level /\ 0 \in Level
    BY DEF Level
  <2> QED
    BY <2>1 DEF Reset, register, StoreOK, Contents
<1>3. WorkOK'
  BY ResetIsProper DEF Reset, WorkOK, Proper
<1>4. HistoryOK'
  <2>1. DOMAIN Defaults \subseteq Facts /\ 0 \in Level
    BY DEF Defaults, Level
  <2>2. ASSUME NEW k \in DOMAIN Defaults PROVE Defaults[k] \in Level
    <3>1. k \in Facts /\ Defaults[k] = IF k[1] = "group" THEN 0 ELSE Default(k)
      BY DEF Defaults
    <3>2. k[1] # "group" => k \in Key
      BY <3>1, Homes, AskedNames DEF Group
    <3> QED
      BY <2>1, <3>1, <3>2, DefaultIsLevel
  <2> QED
    BY <2>1, <2>2 DEF Reset, HistoryOK
<1> QED
  BY <1>1, <1>2, <1>3, <1>4 DEF Reset, LampOK, FadeOK

\* The commands with nothing to write keep them.
LEMMA PlainTypes ==
    ASSUME Types, StoreActual \/ Randomise \/ LoadDTR0 \/ SearchAddress
    PROVE  Types'
<1> USE DEF Types
<1>1. UNCHANGED <<work, lamp, fade, raw, history>>
  BY DEF StoreActual, Randomise, LoadDTR0, SearchAddress
<1>2. CountOK'
  BY CallCounts DEF StoreActual, Randomise, LoadDTR0, SearchAddress, CountOK
<1>3. StoreOK'
  <2>1. CASE StoreActual
    BY <2>1, SettingsAreLevels DEF StoreActual, level, StoreOK
  <2>2. CASE Randomise
    <3>1. PICK bytes \in Randoms :
            /\ mem' = [k \in Key |-> IF k[1] = "random" THEN bytes[k[2] + 1] ELSE mem[k]]
            /\ dtr0' = bytes[4]
      BY <2>2 DEF Randomise
    <3>2. bytes \in [1..4 -> Level]
      BY InputAssumption
    <3>3. ASSUME NEW k \in Key, k[1] = "random" PROVE k[2] + 1 \in 1..4
      <4>1. k \in {"search", "random"} \X (0..2)
        BY <3>3 DEF Key, Given
      <4>2. k[2] \in 0..2
        BY <4>1
      <4> QED
        BY <4>2
    <3>4. mem' \in Contents /\ dtr0' \in Level
      BY <3>1, <3>2, <3>3 DEF StoreOK, Contents
    <3> QED
      BY <2>2, <3>4 DEF Randomise, StoreOK
  <2>3. CASE LoadDTR0
    BY <2>3, InputAssumption DEF LoadDTR0, level, StoreOK
  <2>4. CASE SearchAddress
    <3>1. mem' \in Contents
      BY <2>4, InputAssumption DEF SearchAddress, StoreOK, Contents
    <3> QED
      BY <2>4, <3>1 DEF SearchAddress, register, StoreOK
  <2> QED
    BY <2>1, <2>2, <2>3, <2>4
<1> QED
  BY <1>1, <1>2, <1>3 DEF work, lamp, fade, history, WorkOK, LampOK, FadeOK, HistoryOK

\* A write that is through takes its values from what was told.
LEMMA ThroughTypes ==
    ASSUME HistoryOK, NEW w, Through(w)
    PROVE  HistoryOK'
<1>1. CASE todo' = {}
  <2>1. \A k \in Facts : (IF k \in DOMAIN order THEN {order[k]} ELSE told[k]) \in SUBSET Level
    BY DEF HistoryOK
  <2> QED
    BY <1>1, <2>1 DEF Through, HistoryOK, Nothing
<1>2. CASE todo' # {}
  BY <1>2 DEF Through, HistoryOK
<1> QED
  BY <1>1, <1>2

\* The next step of a write is a write.
LEMMA StagesAreWrites ==
    ASSUME NEW w \in Writes
    PROVE  [w EXCEPT !.do = "commit"] \in Writes /\ [w EXCEPT !.do = "read"] \in Writes
BY DEF Writes

\* A step of the command at hand keeps them.
LEMMA CommandTypes == ASSUME Types, CommandStep PROVE Types'
<1> USE DEF Types
<1>1. CASE Finish
  BY <1>1 DEF Finish, level, register, fade, history, StoreOK, WorkOK, LampOK, FadeOK,
              HistoryOK, CountOK
<1>2. ASSUME NEW w \in todo, Assign(w) \/ Commit(w) \/ ReadBack(w) PROVE Types'
  <2>0. w \in Writes /\ w.at \in Key /\ w.name \in Key /\ w.value \in Level
        /\ mem[w.at] \in Level /\ nvs[w.name] \in Level
    BY <1>2 DEF WorkOK, Writes, StoreOK, Contents
  <2>1. LampOK' /\ FadeOK' /\ CountOK'
    BY <1>2 DEF Assign, Commit, ReadBack, lamp, fade, LampOK, FadeOK, CountOK
  <2>2. StoreOK'
    BY <1>2, <2>0 DEF Assign, Commit, ReadBack, register, StoreOK, Contents
  <2>3. WorkOK'
    <3>1. [w EXCEPT !.do = "commit"] \in Writes /\ [w EXCEPT !.do = "read"] \in Writes
      BY <2>0, StagesAreWrites
    <3> QED
      BY <1>2, <3>1 DEF Assign, Commit, ReadBack, Through, WorkOK
  <2>4. HistoryOK'
    <3>1. CASE UNCHANGED history
      BY <3>1 DEF history, HistoryOK
    <3> QED
      BY <1>2, <3>1, ThroughTypes DEF Assign, Commit, ReadBack
  <2> QED
    BY <2>1, <2>2, <2>3, <2>4
<1> QED
  BY <1>1, <1>2 DEF CommandStep

\* The steps there are.
LEMMA Steps ==
    ASSUME Types, [Next]_vars
    PROVE  \/ OpEffect
           \/ Restart /\ CountOK'
           \/ \E t \in TaskIds : fade_task(t)
           \/ SetsOne \/ SetExtendedFade \/ AddGroup \/ RemoveGroup \/ WriteAll
           \/ Reset
           \/ StoreActual \/ Randomise \/ LoadDTR0 \/ SearchAddress
           \/ CommandStep
           \/ UNCHANGED vars
<1>1. ASSUME Operation PROVE OpEffect \/ (Restart /\ CountOK')
  BY <1>1, OperationEffect, CallCounts DEF Types
<1>2. ASSUME PowerCycle PROVE Restart /\ CountOK'
  BY <1>2 DEF PowerCycle, Types, CountOK
<1>3. ASSUME SetVariable \/ SetScene \/ RemoveScene \/ Program PROVE SetsOne
  BY <1>3, ConfigSetsOne DEF Types
<1> QED
  BY <1>1, <1>2, <1>3 DEF Next, command_config, special_command

\* The same, with the commands that write taken together.
LEMMA StepEffects ==
    ASSUME Types, [Next]_vars
    PROVE  \/ OpEffect
           \/ Restart /\ CountOK'
           \/ \E t \in TaskIds : fade_task(t)
           \/ ConfigEffect
           \/ Reset
           \/ StoreActual \/ Randomise \/ LoadDTR0 \/ SearchAddress
           \/ CommandStep
           \/ UNCHANGED vars
BY Steps, SetsOneIsConfig, ExtendedFadeIsConfig, GroupIsConfig, WriteAllIsConfig DEF Types

\* Every step keeps the types.
LEMMA StepTypes == ASSUME Types, [Next]_vars PROVE Types'
<1>1. CASE UNCHANGED vars
  BY <1>1 DEF vars, level, work, register, lamp, fade, history, Types, StoreOK, WorkOK,
              LampOK, FadeOK, HistoryOK, CountOK
<1> QED
  BY <1>1, StepEffects, OpEffectTypes, RestartTypes, TaskTypes, ConfigTypes, ResetTypes,
     PlainTypes, CommandTypes

\* For all stored values, inputs and bounds: memory, flash and the plan hold
\* bytes, and no fade leaves the delays that raw_level can give.
THEOREM TypeCorrect == Spec => []TypeOK
<1>1. Init => Types
  BY InitTypes
<1>2. Types /\ [Next]_vars => Types'
  BY StepTypes
<1>3. Types => TypeOK
  BY TypesAreTypeOK
<1> QED
  BY <1>1, <1>2, <1>3, PTL DEF Spec

-----------------------------------------------------------------------------
(* One fade at a time.  OneFade itself is not inductive: a second task     *)
(* that has not begun yet would begin.                                     *)

Calm == upset \subseteq {"jump", "wrap"}

OneTask == \A t, u \in TaskIds : task[t].pc # "none" /\ task[u].pc # "none" => t = u

FlagSays == fade_running <=> \E t \in TaskIds : Running(t)

OneInv == Calm => OneTask /\ FlagSays

\* A plan is made when no task is left, unless one waits: which upset says.
LEMMA OpKeepsOne == ASSUME Types, OneInv, OpEffect PROVE OneInv'
<1> USE DEF Types, FadeOK
<1>1. CASE UNCHANGED fade /\ (upset' = upset \/ upset' = upset \cup {"jump"})
  <2>1. Calm' => Calm
    BY <1>1 DEF Calm
  <2> QED
    BY <1>1, <2>1 DEF OneInv, OneTask, FlagSays, Running, fade
<1>2. CASE PlanEffect
  <2> SUFFICES ASSUME Calm' PROVE OneTask' /\ FlagSays'
    BY DEF OneInv
  <2>1. PICK to \in Level, dir \in Directions : Plan(to, dir)
    BY <1>2 DEF PlanEffect
  <2>2. Calm
    BY <2>1 DEF Calm, Plan
  <2>3. ~\E t \in TaskIds : Waiting(t)
    <3>1. ASSUME \E t \in TaskIds : Waiting(t) PROVE "hasty" \in upset'
      BY <2>1, <3>1 DEF Plan
    <3> QED
      BY <3>1 DEF Calm
  <2>4. ~\E t \in TaskIds : Running(t)
    BY <1>2, <2>2 DEF PlanEffect, OneInv, FlagSays
  <2>5. \A t \in TaskIds : task[t].pc = "none"
    BY <2>3, <2>4 DEF Waiting, Running, TaskState
  <2>6. CASE task' = task
    BY <1>2, <2>5, <2>6 DEF PlanEffect, OneTask, FlagSays, Running
  <2>7. CASE \E t \in TaskIds : task[t].pc = "none" /\ task' = [task EXCEPT ![t].pc = "created"]
    <3>1. PICK t \in TaskIds : task' = [task EXCEPT ![t].pc = "created"]
      BY <2>7
    <3>2. task'[t].pc = "created" /\ \A u \in TaskIds \ {t} : task'[u].pc = "none"
      BY <2>5, <3>1 DEF TaskState
    <3>3. ~\E u \in TaskIds : task'[u].pc \in {"run", "end", "save"}
      BY <3>2
    <3>4. ~fade_running'
      BY <1>2 DEF PlanEffect
    <3> QED
      BY <3>2, <3>3, <3>4 DEF OneTask, FlagSays, Running
  <2> QED
    BY <1>2, <2>6, <2>7 DEF PlanEffect
<1> QED
  BY <1>1, <1>2 DEF OpEffect, FadeEffect

\* The one task begins and ends the fade.
LEMMA TaskKeepsOne == ASSUME Types, OneInv, NEW t \in TaskIds, fade_task(t) PROVE OneInv'
<1> USE DEF Types, FadeOK
<1>0. /\ upset' = upset /\ \A u \in TaskIds \ {t} : task'[u] = task[u]
      /\ task[t].pc # "none"
  BY DEF fade_task, FadeCheck, FadeBegin, FadeOn, FadeEnd, FadeSave, history
<1> SUFFICES ASSUME Calm PROVE OneTask' /\ FlagSays'
  BY <1>0 DEF OneInv, Calm
<1>2. OneTask /\ FlagSays
  BY DEF OneInv
<1>3. \A u \in TaskIds \ {t} : task[u].pc = "none" /\ task'[u].pc = "none"
  BY <1>0, <1>2 DEF OneTask
<1>4. OneTask'
  BY <1>3 DEF OneTask
<1>5. FlagSays' <=> (fade_running' <=> task'[t].pc \in {"run", "end", "save"})
  BY <1>3 DEF FlagSays, Running
<1>6. fade_running <=> task[t].pc \in {"run", "end", "save"}
  BY <1>2, <1>3 DEF FlagSays, Running
<1>7. fade_running' <=> task'[t].pc \in {"run", "end", "save"}
  <2>1. CASE FadeCheck(t)
    BY <2>1, <1>6 DEF FadeCheck, NoTask
  <2>2. CASE FadeBegin(t)
    BY <2>2 DEF FadeBegin
  <2>3. CASE FadeOn(t)
    <3>1. task'[t].pc \in {"run", "end"}
      BY <2>3 DEF FadeOn, TaskState
    <3> QED
      BY <2>3, <3>1, <1>6 DEF FadeOn
  <2>4. CASE FadeEnd(t)
    <3>1. task'[t].pc = "save"
      BY <2>4 DEF FadeEnd, TaskState
    <3> QED
      BY <2>4, <3>1, <1>6 DEF FadeEnd
  <2>5. CASE FadeSave(t)
    BY <2>5 DEF FadeSave, NoTask
  <2> QED
    BY <2>1, <2>2, <2>3, <2>4, <2>5 DEF fade_task
<1> QED
  BY <1>4, <1>5, <1>7

\* No step makes a second task, unless upset tells of it.
LEMMA StepKeepsOne == ASSUME Types, OneInv, [Next]_vars PROVE OneInv'
<1> USE DEF Types, FadeOK
<1>1. ASSUME Restart PROVE OneInv'
  BY <1>1 DEF Restart, OneInv, OneTask, FlagSays, Running, NoTask
<1>2. ASSUME Reset PROVE OneInv'
  <2> SUFFICES ASSUME Calm' PROVE OneTask' /\ FlagSays'
    BY DEF OneInv
  <2>1. Calm /\ ~\E t \in TaskIds : Running(t)
    <3>1. ASSUME \E t \in TaskIds : Running(t) PROVE "reset" \in upset'
      BY <1>2, <3>1 DEF Reset
    <3>2. upset \subseteq upset'
      BY <1>2 DEF Reset
    <3> QED
      BY <3>1, <3>2 DEF Calm
  <2> QED
    BY <1>2, <2>1 DEF Reset, OneInv, OneTask, FlagSays, Running
<1>3. ASSUME UNCHANGED <<fade, upset>> PROVE OneInv'
  BY <1>3 DEF fade, OneInv, Calm, OneTask, FlagSays, Running
<1>4. ASSUME ConfigEffect PROVE OneInv'
  BY <1>3, <1>4 DEF ConfigEffect, Writing
<1>5. ASSUME CommandStep PROVE OneInv'
  <2>1. upset' = upset /\ UNCHANGED fade
    BY <1>5 DEF CommandStep, Finish, Assign, Commit, ReadBack, Through, history
  <2> QED
    BY <1>3, <2>1
<1>6. ASSUME StoreActual \/ Randomise \/ LoadDTR0 \/ SearchAddress \/ UNCHANGED vars
      PROVE  OneInv'
  BY <1>3, <1>6 DEF StoreActual, Randomise, LoadDTR0, SearchAddress, history, vars
<1> QED
  BY <1>1, <1>2, <1>4, <1>5, <1>6, StepEffects, OpKeepsOne, TaskKeepsOne

\* Before the first command there is no task.
LEMMA InitOne == ASSUME Init PROVE OneInv
<1>1. fade_running = FALSE /\ task = [t \in TaskIds |-> NoTask]
  BY DEF Init
<1>2. \A t \in TaskIds : task[t].pc = "none"
  BY <1>1 DEF NoTask
<1> QED
  BY <1>1, <1>2 DEF OneInv, OneTask, FlagSays, Running

\* fade_running says whether a fade runs, and only one does, whatever is
\* commanded, but for RESET and for a plan made before a task has begun.
THEOREM OneFadeAtATime == Spec => []OneFade
<1>1. Init => Types /\ OneInv
  BY InitTypes, InitOne
<1>2. Types /\ OneInv /\ [Next]_vars => (Types /\ OneInv)'
  BY StepTypes, StepKeepsOne
<1>3. OneInv => OneFade
  BY DEF OneInv, OneFade, Calm, OneTask, FlagSays, Running
<1> QED
  BY <1>1, <1>2, <1>3, PTL DEF Spec

-----------------------------------------------------------------------------
(* What a start finds.  Flash and memory agree, but for the addresses of   *)
(* the search, the scenes that share a place, and the name that is being    *)
(* written.                                                                 *)

Kept == Lasting \cup {One("actual")}

KeepInv == \A k \in Kept : nvs[k] = mem[k] \/ k \in Open

\* What the writes are like while a command is at hand.
TodoInv == \A w \in todo : Proper(w)

\* What is kept has a place of its own.
LEMMA KeptNames ==
    /\ Kept \subseteq Key /\ Lasting \subseteq Kept
    /\ One("actual") \in Kept /\ One("power_on_level") \in Lasting /\ One("actual") \notin Lasting
    /\ Scene(8) \notin Kept /\ Scene(9) \notin Kept
    /\ \A k \in Kept : k[1] \notin {"search", "random"}
<1>1. Kept \subseteq Key /\ \A k \in Kept : k[1] \notin {"search", "random"}
  BY NamesAreKeys DEF Kept, Lasting, Given, One
<1>2. Scene(8) \notin Kept /\ Scene(9) \notin Kept
  BY DEF Kept, Lasting, Scene, One
<1>3. /\ Lasting \subseteq Kept /\ One("actual") \in Kept /\ One("power_on_level") \in Lasting
      /\ One("actual") \notin Lasting
  BY NamesAreKeys DEF Kept, Lasting, Given, One, Scene
<1> QED
  BY <1>1, <1>2, <1>3

\* A name is a word and a number.
LEMMA KeyParts ==
    \A k \in Key : /\ k[1] \in Given \cup {"actual", "search", "random", "gear", "scene"}
                   /\ k[2] \in Nat
<1>1. \A i \in Scenes : i \in Nat
  BY ScenesAssumption
<1>2. 0 \in Nat /\ \A i \in 0..2 : i \in Nat
  OBVIOUS
<1> QED
  BY <1>1, <1>2 DEF Key

\* The level is the first name of all.
LEMMA LevelIsFirst == \A k \in Key : Rank(One("actual")) <= Rank(k)
<1>1. \A name \in Given \cup {"actual", "search", "random", "gear", "scene"} : Position[name] \in 1..14
  BY DEF Given, Position
<1>2. Rank(One("actual")) = 16
  BY DEF Rank, One, Position
<1>3. ASSUME NEW k \in Key PROVE 16 <= Rank(k)
  <2>1. Position[k[1]] \in 1..14 /\ k[2] \in Nat
    BY <1>1, KeyParts
  <2> QED
    BY <2>1 DEF Rank
<1> QED
  BY <1>2, <1>3

\* What a single write is for is open.
LEMMA OneWriteIsOpen ==
    ASSUME NEW k \in Key, todo' = {Committing(k)}
    PROVE  k \in Open'
<1>1. Rank(k) <= Rank(k)
  <2>1. k[1] \in Given \cup {"actual", "search", "random", "gear", "scene"} /\ k[2] \in Int
    BY KeyParts
  <2>2. Position[k[1]] \in Int
    BY <2>1 DEF Given, Position
  <2> QED
    BY <2>1, <2>2 DEF Rank
<1>2. Committing(k).name = k
  BY DEF Committing
<1>3. AtHand(Committing(k))'
  BY <1>1, <1>2 DEF AtHand
<1> QED
  BY <1>2, <1>3 DEF Open

\* A name stays open while it has a write, and no name comes before it.
LEMMA StaysOpen ==
    ASSUME NEW k \in Open, task' = task,
           \A x \in todo' : \E v \in todo : v.name = x.name,
           (\E v \in todo : v.name = k) => \E x \in todo' : x.name = k
    PROVE  k \in Open'
<1>1. CASE k \in {j \in {One("actual")} : \E t \in TaskIds : task[t].pc = "save"}
  BY <1>1 DEF Open
<1>2. CASE k \in {w.name : w \in {v \in todo : AtHand(v)}}
  <2>1. PICK v \in todo : AtHand(v) /\ v.name = k
    BY <1>2
  <2>2. PICK x \in todo' : x.name = k
    BY <2>1
  <2>3. ASSUME NEW y \in todo' PROVE Rank(x.name) <= Rank(y.name)
    <3>1. PICK u \in todo : u.name = y.name
      OBVIOUS
    <3> QED
      BY <2>1, <2>2, <3>1, Zenon DEF AtHand
  <2>4. AtHand(x)'
    BY <2>3 DEF AtHand
  <2> QED
    BY <2>2, <2>4 DEF Open
<1> QED
  BY <1>1, <1>2 DEF Open

\* A start gives memory what flash holds, and sets the level.
LEMMA BootKeeps ==
    ASSUME NEW memory \in Contents, NEW flash, DOMAIN flash \subseteq Key,
           \A k \in DOMAIN flash : flash[k] \in Level
    PROVE  LET b == Boot(memory, flash)
               w == FlashInit(flash) IN
           /\ b.nvs = w
           /\ \A k \in Lasting : b.mem[k] = w[k]
           /\ b.mem[One("actual")] = IF w[One("power_on_level")] = 255
                                     THEN w[One("actual")] ELSE w[One("power_on_level")]
<1> DEFINE w    == FlashInit(flash)
           init == MemoryInit(memory, flash)
           lev  == IF init[One("power_on_level")] = 255 THEN init[One("actual")]
                                                        ELSE init[One("power_on_level")]
<1>1. init = [k \in Key |-> init[k]]
  BY DEF MemoryInit
<1>2. \A k \in Kept : init[k] = w[k]
  BY KeptNames DEF MemoryInit
<1>3. /\ Boot(memory, flash).mem = [init EXCEPT ![One("actual")] = lev]
      /\ Boot(memory, flash).nvs = w
  BY DEF Boot
<1>4. lev = IF w[One("power_on_level")] = 255 THEN w[One("actual")] ELSE w[One("power_on_level")]
  BY <1>2, KeptNames
<1> HIDE DEF w, init, lev
<1>5. \A k \in Key : [init EXCEPT ![One("actual")] = lev][k] = IF k = One("actual") THEN lev ELSE init[k]
  BY <1>1
<1> QED
  BY <1>2, <1>3, <1>4, <1>5, KeptNames DEF w

\* Flash that is whole is left as it is.
LEMMA WholeFlash == ASSUME StoreOK PROVE FlashInit(nvs) = nvs
BY DEF FlashInit, StoreOK, Contents

\* What a start makes of flash and memory.
LEMMA RestartReads ==
    ASSUME Types, Restart
    PROVE  /\ nvs' = nvs
           /\ \A k \in Lasting : mem'[k] = nvs[k]
           /\ actual_level' = IF nvs[One("power_on_level")] = 255 THEN nvs[One("actual")]
                                                                  ELSE nvs[One("power_on_level")]
<1>1. PICK memory \in Memories : mem' = Boot(memory, nvs).mem /\ nvs' = Boot(memory, nvs).nvs
  BY DEF Restart
<1>2. memory \in Contents
  BY InputAssumption DEF Memories, Contents
<1>3. DOMAIN nvs \subseteq Key /\ \A k \in DOMAIN nvs : nvs[k] \in Level
  BY DEF Types, StoreOK, Contents
<1>4. FlashInit(nvs) = nvs
  BY WholeFlash DEF Types
<1> QED
  BY <1>1, <1>2, <1>3, <1>4, BootKeeps DEF actual_level, Setting

LEMMA RestartKeeps == ASSUME Types, Restart PROVE KeepInv' /\ TodoInv'
<1>1. todo' = {Committing(One("actual"))} /\ One("actual") \in Key
  BY NamesAreKeys DEF Restart
<1>2. One("actual") \in Open'
  BY <1>1, OneWriteIsOpen
<1>3. \A k \in Lasting : mem'[k] = nvs'[k]
  BY RestartReads
<1> QED
  BY <1>1, <1>2, <1>3, StoresActual DEF KeepInv, TodoInv, Kept

\* Memory and flash stay as they are, and what is written is still open.
LEMMA SameKeeps ==
    ASSUME KeepInv, \A k \in Kept : mem'[k] = mem[k] /\ nvs'[k] = nvs[k],
           task' = task, todo' = todo \/ todo = {}
    PROVE  KeepInv'
<1>1. ASSUME NEW k \in Open PROVE k \in Open'
  <2>1. CASE todo' = todo
    BY <1>1, <2>1, StaysOpen
  <2>2. CASE todo = {}
    BY <1>1, <2>2 DEF Open
  <2> QED
    BY <2>1, <2>2
<1> QED
  BY <1>1 DEF KeepInv

\* A fade sets the level and stores it.
LEMMA TaskKeeps ==
    ASSUME Types, KeepInv, TodoInv, NEW t \in TaskIds, fade_task(t)
    PROVE  KeepInv' /\ TodoInv'
<1> USE DEF Types
<1>0. todo' = todo /\ TodoInv' /\ task \in [TaskIds -> TaskState] /\ One("actual") \in Key
      /\ mem \in Contents /\ nvs \in Contents
  BY NamesAreKeys
     DEF fade_task, FadeCheck, FadeBegin, FadeOn, FadeEnd, FadeSave, work, TodoInv, FadeOK, StoreOK
<1>1. {v.name : v \in {v \in todo' : AtHand(v)'}} = {v.name : v \in {v \in todo : AtHand(v)}}
  BY <1>0 DEF AtHand
<1>2. CASE task[t].pc # "save" /\ UNCHANGED level
  <2>1. ASSUME \E u \in TaskIds : task[u].pc = "save" PROVE \E u \in TaskIds : task'[u].pc = "save"
    <3>1. PICK u \in TaskIds : task[u].pc = "save"
      BY <2>1
    <3>2. \A v \in TaskIds \ {t} : task'[v] = task[v]
      BY <1>0 DEF fade_task, FadeCheck, FadeBegin, FadeOn, FadeEnd, FadeSave
    <3> QED
      BY <1>2, <3>1, <3>2
  <2>2. Open \subseteq Open'
    BY <1>1, <2>1 DEF Open
  <2> QED
    BY <1>0, <1>2, <2>2 DEF KeepInv, level
<1>3. CASE FadeEnd(t)
  <2>1. task'[t].pc = "save"
    BY <1>0, <1>3 DEF FadeEnd
  <2>2. Open \subseteq Open' /\ One("actual") \in Open'
    BY <1>1, <2>1 DEF Open
  <2>3. \A k \in Kept \ {One("actual")} : nvs'[k] = nvs[k] /\ mem'[k] = mem[k]
    BY <1>0, <1>3, KeptNames DEF FadeEnd, Contents
  <2> QED
    BY <1>0, <2>2, <2>3 DEF KeepInv
<1>4. CASE FadeSave(t)
  <2>1. \A k \in Open \ {One("actual")} : k \in Open'
    BY <1>1 DEF Open
  <2>2. nvs'[One("actual")] = mem'[One("actual")]
    BY <1>0, <1>4 DEF FadeSave, actual_level, Setting, Contents
  <2>3. \A k \in Kept \ {One("actual")} : nvs'[k] = nvs[k] /\ mem'[k] = mem[k]
    BY <1>0, <1>4, KeptNames DEF FadeSave, Contents
  <2> QED
    BY <1>0, <2>1, <2>2, <2>3 DEF KeepInv
<1> QED
  BY <1>0, <1>2, <1>3, <1>4 DEF fade_task, FadeCheck, FadeBegin, FadeOn

\* The stages of a write keep what it is.
LEMMA StagesAreProper ==
    ASSUME NEW w \in Writes, Proper(w)
    PROVE  /\ Proper([w EXCEPT !.do = "commit"]) /\ Proper([w EXCEPT !.do = "read"])
           /\ [w EXCEPT !.do = "commit"].name = w.name /\ [w EXCEPT !.do = "read"].name = w.name
BY StagesAreWrites DEF Proper, OwnPlace, HalfByte, Writes

\* The name a write is for is the only one it changes.
LEMMA WriteChangesItsName ==
    ASSUME Types, TodoInv, NEW w \in todo, Assign(w) \/ Commit(w) \/ ReadBack(w),
           NEW k \in Key \ {Scene(8), Scene(9)}
    PROVE  /\ k # w.name => mem'[k] = mem[k] /\ nvs'[k] = nvs[k]
           /\ k = w.name => w.at = k
<1>1. OwnPlace(w) /\ mem \in Contents /\ nvs \in Contents
  BY DEF TodoInv, Proper, Types, StoreOK
<1>2. k = w.name => w.at = k
  BY <1>1 DEF OwnPlace
<1>3. k # w.name => k # w.at
  BY <1>1 DEF OwnPlace
<1> QED
  BY <1>1, <1>2, <1>3 DEF Assign, Commit, ReadBack, Contents

\* A name stays open until its write is through.
LEMMA CommandKeeps ==
    ASSUME Types, KeepInv, TodoInv, CommandStep
    PROVE  KeepInv' /\ TodoInv'
<1> USE DEF Types
<1>1. CASE Finish
  <2>1. UNCHANGED <<mem, nvs, todo, task>>
    BY <1>1 DEF Finish, level, fade
  <2> QED
    BY <2>1, SameKeeps DEF TodoInv
<1>2. ASSUME NEW w \in todo, Assign(w) \/ Commit(w) \/ ReadBack(w) PROVE KeepInv' /\ TodoInv'
  <2>0. w \in Writes /\ Proper(w) /\ mem \in Contents /\ nvs \in Contents /\ task' = task
    BY <1>2 DEF WorkOK, TodoInv, StoreOK, Assign, Commit, ReadBack, fade
  <2>1. \/ \E v : todo' = (todo \ {w}) \cup {v} /\ v.name = w.name /\ Proper(v)
        \/ todo' = todo \ {w} /\ ~Assign(w)
    BY <1>2, <2>0, StagesAreProper DEF Assign, Commit, ReadBack, Through
  <2>2. TodoInv'
    BY <2>1 DEF TodoInv
  <2>3. ASSUME NEW k \in Kept, k # w.name PROVE nvs'[k] = mem'[k] \/ k \in Open'
    <3>1. mem'[k] = mem[k] /\ nvs'[k] = nvs[k]
      BY <1>2, <2>3, KeptNames, WriteChangesItsName
    <3>2. ASSUME k \in Open PROVE k \in Open'
      <4>1. \A x \in todo' : \E v \in todo : v.name = x.name
        BY <2>1
      <4>2. \A v \in todo : v.name = k => v \in todo'
        BY <2>1, <2>3
      <4> QED
        BY <2>0, <3>2, <4>1, <4>2, StaysOpen
    <3> QED
      BY <3>1, <3>2 DEF KeepInv
  <2>4. ASSUME w.name \in Kept PROVE nvs'[w.name] = mem'[w.name] \/ w.name \in Open'
    <3>1. w.name \in Key /\ w.at = w.name
      BY <1>2, <2>4, KeptNames, WriteChangesItsName
    <3>2. CASE Assign(w)
      <4>1. PICK v \in todo' : v.name = w.name
        BY <2>1, <3>2 DEF Assign
      <4>2. w.name \in Open
        BY <3>2 DEF Assign, Open
      <4>3. \A x \in todo' : \E u \in todo : u.name = x.name
        BY <2>1
      <4> QED
        BY <2>0, <4>1, <4>2, <4>3, StaysOpen
    <3>3. CASE Commit(w) \/ ReadBack(w)
      BY <2>0, <3>1, <3>3 DEF Commit, ReadBack, Contents
    <3> QED
      BY <1>2, <3>2, <3>3
  <2> QED
    BY <2>2, <2>3, <2>4 DEF KeepInv
<1> QED
  BY <1>1, <1>2 DEF CommandStep

\* RESET has every name to write but the short address.
LEMMA ResetNames ==
    \A k \in Key \ {One("short_address")} : \E w \in ResetProcess : w.name = k
<1> SUFFICES ASSUME NEW k \in Key \ {One("short_address")} PROVE \E w \in ResetProcess : w.name = k
  OBVIOUS
<1> DEFINE w == [name |-> k, at |-> Place(k), value |-> Default(k), do |-> "assign", back |-> TRUE]
<1>1. w \in ResetProcess
  BY DEF ResetProcess
<1>2. w.name = k
  OBVIOUS
<1> HIDE DEF w
<1> QED
  BY <1>1, <1>2

\* RESET begins with the level, which it has set.
LEMMA ResetKeeps == ASSUME Types, KeepInv, TodoInv, Reset PROVE KeepInv' /\ TodoInv'
<1>0. todo = {} /\ mem \in Contents /\ One("actual") \in Key
  BY NamesAreKeys DEF Reset, Call, Idle, Types, StoreOK
<1>1. todo' = ResetProcess /\ TodoInv'
  BY ResetIsProper DEF Reset, TodoInv
<1>2. One("actual") \in Open'
  <2>1. PICK w \in ResetProcess : w.name = One("actual")
    <3>1. One("actual") \in Key \ {One("short_address")}
      BY <1>0 DEF One
    <3> QED
      BY <3>1, ResetNames
  <2>2. \A v \in ResetProcess : v.name \in Key
    BY ResetIsProper DEF Proper, Writes
  <2>3. AtHand(w)'
    BY <1>1, <2>1, <2>2, LevelIsFirst DEF AtHand
  <2> QED
    BY <1>1, <2>1, <2>3 DEF Open
<1>3. \A k \in Kept \ {One("actual")} : nvs[k] = mem[k]
  BY <1>0 DEF KeepInv, Open
<1>4. \A k \in Kept \ {One("actual")} : nvs'[k] = nvs[k] /\ mem'[k] = mem[k]
  BY <1>0, KeptNames DEF Reset, Contents
<1> QED
  BY <1>1, <1>2, <1>3, <1>4 DEF KeepInv

\* So every step leaves them the same, but for the name it writes.
LEMMA StepKeeps ==
    ASSUME Types, KeepInv, TodoInv, [Next]_vars
    PROVE  KeepInv' /\ TodoInv'
<1> USE DEF Types
<1>1. ASSUME OpEffect PROVE KeepInv' /\ TodoInv'
  <2>1. todo = {}
    BY <1>1 DEF OpEffect, Call, Idle
  <2>2. \A t \in TaskIds : task[t].pc = "save" => task'[t].pc = "save"
    BY <1>1 DEF OpEffect, FadeEffect, PlanEffect, fade, FadeOK
  <2>3. ASSUME NEW k \in Open PROVE k \in Open'
    BY <2>1, <2>2 DEF Open
  <2>4. CASE UNCHANGED <<mem, nvs, todo>>
    BY <2>3, <2>4 DEF KeepInv, TodoInv
  <2>5. CASE \E to \in Level : change_actual_level(to)
    <3>1. PICK to \in Level : change_actual_level(to)
      BY <2>5
    <3>2. todo' = {Committing(One("actual"))} /\ One("actual") \in Key
      BY <3>1, NamesAreKeys DEF change_actual_level
    <3>3. One("actual") \in Open'
      BY <3>2, OneWriteIsOpen
    <3>4. \A k \in Kept \ {One("actual")} : nvs'[k] = nvs[k] /\ mem'[k] = mem[k]
      BY <3>1, KeptNames DEF change_actual_level, StoreOK, Contents
    <3> QED
      BY <2>3, <3>2, <3>3, <3>4, StoresActual DEF KeepInv, TodoInv
  <2> QED
    BY <1>1, <2>4, <2>5 DEF OpEffect, LevelEffect, level
<1>2. ASSUME ConfigEffect PROVE KeepInv' /\ TodoInv'
  <2>1. PICK writes \in SUBSET {w \in Writes : Proper(w) /\ LevelStays(w)} : Writing(writes)
    BY <1>2 DEF ConfigEffect
  <2>2. UNCHANGED <<mem, nvs, task>> /\ todo = {} /\ todo' = writes
    BY <2>1 DEF Writing, level, fade, Call, Idle
  <2> QED
    BY <2>2, SameKeeps DEF TodoInv
<1>3. ASSUME Randomise PROVE KeepInv' /\ TodoInv'
  <2>1. PICK bytes \in Randoms :
          mem' = [k \in Key |-> IF k[1] = "random" THEN bytes[k[2] + 1] ELSE mem[k]]
    BY <1>3 DEF Randomise
  <2>2. \A k \in Kept : mem'[k] = mem[k]
    BY <2>1, KeptNames
  <2> QED
    BY <1>3, <2>2, SameKeeps DEF Randomise, TodoInv, work, fade
<1>4. ASSUME SearchAddress PROVE KeepInv' /\ TodoInv'
  <2>1. PICK i \in 0..2, byte \in Bytes : mem' = [mem EXCEPT ![<<"search", i>>] = byte]
    BY <1>4 DEF SearchAddress
  <2>2. \A k \in Kept : k # <<"search", i>> /\ k \in Key
    BY KeptNames
  <2>3. \A k \in Kept : mem'[k] = mem[k]
    BY <2>1, <2>2 DEF StoreOK, Contents
  <2> QED
    BY <1>4, <2>3, SameKeeps DEF SearchAddress, TodoInv, work, fade
<1>5. ASSUME StoreActual \/ LoadDTR0 \/ UNCHANGED vars PROVE KeepInv' /\ TodoInv'
  <2>1. UNCHANGED <<mem, nvs, todo, task>>
    BY <1>5 DEF StoreActual, LoadDTR0, vars, level, work, fade
  <2> QED
    BY <2>1, SameKeeps DEF TodoInv
<1> QED
  BY <1>1, <1>2, <1>3, <1>4, <1>5, StepEffects, TaskKeeps, CommandKeeps, ResetKeeps, RestartKeeps

\* And the first start makes them so.
LEMMA InitKeeps == ASSUME Init PROVE KeepInv /\ TodoInv
<1>1. PICK memory \in Memories : mem = Boot(memory, Stored).mem /\ nvs = Boot(memory, Stored).nvs
  BY DEF Init
<1>2. memory \in Contents
  BY InputAssumption DEF Memories, Contents
<1>3. \A k \in Lasting : mem[k] = nvs[k]
  BY <1>1, <1>2, BootKeeps, StoredAssumption
<1>4. todo = {Committing(One("actual"))} /\ One("actual") \in Key
  BY NamesAreKeys DEF Init
<1>5. One("actual") \in Open
  <2>1. Rank(One("actual")) <= Rank(One("actual"))
    BY <1>4, LevelIsFirst
  <2>2. Committing(One("actual")).name = One("actual")
    BY DEF Committing
  <2>3. AtHand(Committing(One("actual")))
    BY <1>4, <2>1, <2>2 DEF AtHand
  <2> QED
    BY <1>4, <2>2, <2>3 DEF Open
<1> QED
  BY <1>3, <1>4, <1>5, StoresActual DEF KeepInv, TodoInv, Kept

\* A mains failure at any moment, between any two steps of a command or of a
\* fade, loses no value but the one that is being written, the search and
\* random addresses, and scenes 8 and 9; and the lamp comes up as flash says.
THEOREM StartFindsAll == Spec => StartRestores
<1>1. Init => Types /\ KeepInv /\ TodoInv
  BY InitTypes, InitKeeps
<1>2. Types /\ KeepInv /\ TodoInv /\ [Next]_vars => (Types /\ KeepInv /\ TodoInv)'
  BY StepTypes, StepKeeps
<1>3. Types /\ KeepInv /\ [Next]_vars =>
         [PowerCycle =>
            /\ \A k \in Lasting \ Open : mem'[k] = mem[k]
            /\ mem'[One("power_on_level")] # 255 => actual_level' = mem'[One("power_on_level")]
            /\ mem'[One("power_on_level")] = 255 /\ One("actual") \notin Open
                  => actual_level' = actual_level]_vars
  <2> SUFFICES ASSUME Types, KeepInv, PowerCycle
               PROVE  /\ \A k \in Lasting \ Open : mem'[k] = mem[k]
                      /\ mem'[One("power_on_level")] # 255 => actual_level' = mem'[One("power_on_level")]
                      /\ mem'[One("power_on_level")] = 255 /\ One("actual") \notin Open
                            => actual_level' = actual_level
    OBVIOUS
  <2>1. /\ \A k \in Lasting : mem'[k] = nvs[k]
        /\ actual_level' = IF nvs[One("power_on_level")] = 255 THEN nvs[One("actual")]
                                                               ELSE nvs[One("power_on_level")]
    BY RestartReads DEF PowerCycle
  <2>2. \A k \in Kept \ Open : nvs[k] = mem[k]
    BY DEF KeepInv
  <2> QED
    BY <2>1, <2>2, KeptNames DEF actual_level, Setting
<1> QED
  BY <1>1, <1>2, <1>3, PTL DEF Spec, StartRestores

-----------------------------------------------------------------------------
(* What the unit was told.  Memory and flash hold, of each fact, what the  *)
(* unit may answer once the command at hand is through, and of that command *)
(* each write brings what it tells.                                        *)

Allowed(k) == told[k] \cup {order[j] : j \in DOMAIN order \cap {k}}

BytesFit == \A k \in Facts : /\ Part(mem[Home(k)], k) \in Allowed(k)
                             /\ Part(nvs[Home(k)], k) \in Allowed(k)

WritesFit == \A k \in Facts, w \in todo :
                w.name = Home(k) /\ w.do = "assign" => Part(w.value, k) \in Allowed(k)

\* What is told of k is still to be assigned, or committed, or is there.
Heeded(k, what, writes, memory, flash) ==
    /\ \A w \in writes : w.name = Home(k) =>
          /\ w.do = "assign" => Part(w.value, k) = what
          /\ w.do # "assign" => Part(memory[Home(k)], k) = what
          /\ w.do = "read"   => Part(flash[Home(k)], k) = what
    /\ (\A w \in writes : w.name # Home(k)) =>
          Part(memory[Home(k)], k) = what /\ Part(flash[Home(k)], k) = what

OrderHeeded == \A k \in DOMAIN order : Heeded(k, order[k], todo, mem, nvs)

ToldInv == /\ BytesFit /\ WritesFit /\ OrderHeeded
           /\ todo = {} => DOMAIN order = {}

\* A step that leaves the bytes of the facts, and what is told of them.
LEMMA SameFacts ==
    ASSUME ToldInv, HistoryOK, told' = told, order' = order,
           \A k \in Facts : mem'[Home(k)] = mem[Home(k)] /\ nvs'[Home(k)] = nvs[Home(k)],
           todo' = todo \/ (todo = {} /\ \A w \in todo' : w.do = "commit")
    PROVE  ToldInv'
<1>1. \A k \in Facts : Allowed(k)' = Allowed(k)
  BY DEF Allowed
<1>2. BytesFit'
  BY <1>1 DEF ToldInv, BytesFit
<1>3. CASE todo' = todo
  <2>1. WritesFit'
    BY <1>1, <1>3 DEF ToldInv, WritesFit
  <2>2. OrderHeeded'
    BY <1>3 DEF ToldInv, OrderHeeded, Heeded, HistoryOK
  <2> QED
    BY <1>2, <1>3, <2>1, <2>2 DEF ToldInv
<1>4. CASE todo = {} /\ \A w \in todo' : w.do = "commit"
  <2>1. DOMAIN order = {} /\ DOMAIN order' = {}
    BY <1>4 DEF ToldInv
  <2>2. WritesFit'
    BY <1>4 DEF WritesFit
  <2>3. OrderHeeded'
    BY <2>1 DEF OrderHeeded
  <2> QED
    BY <1>2, <2>1, <2>2, <2>3 DEF ToldInv
<1> QED
  BY <1>3, <1>4

\* A command that tells something, with writes that bring it.
LEMMA TellFits ==
    ASSUME ToldInv, todo = {}, NEW writes, todo' = writes, writes # {},
           \A w \in writes : w.do = "assign",
           \A k \in Facts : mem'[Home(k)] = mem[Home(k)] /\ nvs'[Home(k)] = nvs[Home(k)],
           \A k \in Facts : told[k] \subseteq Allowed(k)',
           \A k \in Facts, w \in writes : w.name = Home(k) => Part(w.value, k) \in Allowed(k)',
           \A k \in DOMAIN order' : /\ \E w \in writes : w.name = Home(k)
                                    /\ \A w \in writes : w.name = Home(k) => Part(w.value, k) = order'[k]
    PROVE  ToldInv'
<1>1. \A k \in Facts : Allowed(k) = told[k]
  BY DEF ToldInv, Allowed
<1>2. BytesFit'
  BY <1>1 DEF ToldInv, BytesFit
<1>3. WritesFit'
  BY DEF WritesFit
<1>4. OrderHeeded'
  <2> SUFFICES ASSUME NEW k \in DOMAIN order' PROVE Heeded(k, order'[k], writes, mem', nvs')
    BY DEF OrderHeeded
  <2> QED
    BY DEF Heeded
<1> QED
  BY <1>2, <1>3, <1>4 DEF ToldInv

\* The writes of a start tell nothing.
LEMMA RestartTells == ASSUME Types, ToldInv, Restart PROVE ToldInv'
<1>1. \A k \in Facts : Home(k) \in Lasting
  <2>1. \A k \in Asked : Home(k) \in Lasting
    BY HomeOfAsked, AskedNames
  <2>2. \A g \in 0..15 : GearOf(g) \in Lasting
    BY GroupBytes DEF Lasting, Scene, Gear
  <2> QED
    BY <2>1, <2>2, Homes, HomeOfGroup
<1>2. nvs' = nvs /\ \A k \in Facts : mem'[Home(k)] = nvs[Home(k)]
  BY <1>1, RestartReads
<1>3. /\ todo' = {Committing(One("actual"))} /\ DOMAIN order' = {}
      /\ told' = [k \in Facts |-> told[k] \cup {order[j] : j \in DOMAIN order \cap {k}}]
  BY DEF Restart, Nothing
<1>4. ASSUME NEW k \in Facts PROVE Allowed(k)' = Allowed(k)
  BY <1>3, <1>4 DEF Allowed
<1>5. BytesFit'
  BY <1>2, <1>4 DEF ToldInv, BytesFit
<1>6. WritesFit' /\ OrderHeeded'
  BY <1>3, StoresActual DEF WritesFit, OrderHeeded
<1> QED
  BY <1>3, <1>5, <1>6 DEF ToldInv

\* A name set one by one is the fact of its own, or of none.
LEMMA SettableHome == ASSUME NEW k \in Settable, NEW j \in Facts, Home(j) = k PROVE j = k /\ j \in Asked
<1>1. CASE j \in Asked
  BY <1>1, HomeOfAsked
<1>2. CASE \E g \in 0..15 : j = Group(g)
  <2>1. PICK g \in 0..15 : j = Group(g)
    BY <1>2
  <2>2. k \in {Gear(0), Gear(1)}
    BY <2>1, HomeOfGroup, GroupBytes
  <2> QED
    BY <2>2 DEF Settable
<1> QED
  BY <1>1, <1>2, Homes

\* A value set by itself is what is told, or anything.
LEMMA SetsOneTells == ASSUME Types, ToldInv, SetsOne PROVE ToldInv'
<1> USE DEF Types
<1>1. PICK k \in Settable, value \in Level :
        /\ Writing({Assigning(k, value)})
        /\ Says([j \in {k} |-> value]) \/ Garbled({k})
  BY DEF SetsOne
<1> DEFINE w == Assigning(k, value)
<1>2. w.name = k /\ w.do = "assign" /\ w.value = value
  BY DEF Assigning
<1>3. todo = {} /\ todo' = {w} /\ UNCHANGED <<mem, nvs>> /\ DOMAIN order = {}
  BY <1>1 DEF Writing, Call, Idle, level, ToldInv
<1>4. \A j \in Facts : Home(j) = k => j = k /\ Part(value, j) = value
  BY SettableHome, HomeOfAsked
<1> HIDE DEF w
<1>5. CASE Says([j \in {k} |-> value])
  <2>1. told' = told /\ DOMAIN order' = {k} \cap Facts /\ \A j \in DOMAIN order' : order'[j] = value
    BY <1>5 DEF Says
  <2>2. \A j \in Facts : told[j] \subseteq Allowed(j)'
    BY <2>1 DEF Allowed
  <2>3. \A j \in Facts : Home(j) = k => value \in Allowed(j)'
    BY <1>4, <2>1 DEF Allowed
  <2>4. \A j \in DOMAIN order' : Home(j) = k
    <3>1. ASSUME k \in Facts PROVE Home(k) = k
      <4>1. k \in Key
        BY DEF Settable
      <4>2. k \in Asked
        BY <3>1, <4>1, Homes, KeyParts DEF Group, Given
      <4> QED
        BY <4>2, HomeOfAsked
    <3> QED
      BY <2>1, <3>1
  <2> QED
    BY <1>2, <1>3, <1>4, <2>1, <2>2, <2>3, <2>4, TellFits
<1>6. CASE Garbled({k})
  <2>1. order' = order /\ told' = [j \in Facts |-> IF j \in {k} THEN Level ELSE told[j]]
    BY <1>6 DEF Garbled
  <2>2. \A j \in Facts : told[j] \subseteq Allowed(j)'
    BY <2>1 DEF Allowed, HistoryOK
  <2>3. \A j \in Facts : Home(j) = k => value \in Allowed(j)'
    BY <1>4, <2>1 DEF Allowed
  <2> QED
    BY <1>2, <1>3, <1>4, <2>1, <2>2, <2>3, TellFits
<1> QED
  BY <1>1, <1>5, <1>6

\* The halves of the extended fade are told together, or neither.
LEMMA ExtendedFadeTells == ASSUME Types, ToldInv, SetExtendedFade PROVE ToldInv'
<1> USE DEF Types
<1> DEFINE half   == Halves(dtr0)
           writes == {Assigning(k, half[k]) : k \in Pair}
<1>1. DOMAIN half = Pair /\ DOMAIN Halves(said) = Pair /\ \A k \in Pair : half[k] \in Level
  BY HalvesAreHalves DEF StoreOK
<1>2. todo = {} /\ todo' = writes /\ UNCHANGED <<mem, nvs>> /\ DOMAIN order = {}
  BY <1>1 DEF SetExtendedFade, Writing, Call, Idle, level, ToldInv
<1> HIDE DEF half
<1>3. \A w \in writes : w.do = "assign" /\ w.name \in Pair /\ w.value = half[w.name]
  BY DEF Assigning
<1>4. \A k \in Pair : \E w \in writes : w.name = k
  <2> SUFFICES ASSUME NEW k \in Pair PROVE \E w \in writes : w.name = k
    OBVIOUS
  <2>1. Assigning(k, half[k]) \in writes /\ Assigning(k, half[k]).name = k
    BY DEF Assigning
  <2> QED
    BY <2>1
<1> HIDE DEF writes
<1>5. \A j \in Facts, k \in Pair : Home(j) = k => j = k /\ \A byte : Part(byte, j) = byte
  <2> SUFFICES ASSUME NEW j \in Facts, NEW k \in Pair, Home(j) = k
               PROVE  j = k /\ \A byte : Part(byte, j) = byte
    OBVIOUS
  <2>1. \A g \in 0..15 : GearOf(g) # k
    BY GroupBytes, PairNames, AskedNames
  <2> QED
    BY <2>1, Homes, HomeOfGroup, HomeOfAsked
<1>6. \E k \in Pair : TRUE
  BY DEF Pair
<1>7. writes # {}
  BY <1>4, <1>6
<1>8. \A k \in Pair : k \in Facts /\ Home(k) = k
  BY PairNames, HomeOfAsked
<1>9. CASE dtr0 = said
  <2>1. told' = told /\ DOMAIN order' = Pair /\ \A k \in Pair : order'[k] = half[k]
    <3>1. Says(half)
      BY <1>9 DEF SetExtendedFade, half
    <3>2. Pair \cap Facts = Pair
      BY <1>8
    <3> QED
      BY <1>1, <3>1, <3>2 DEF Says
  <2>2. \A j \in Facts : told[j] \subseteq Allowed(j)'
    BY <2>1 DEF Allowed
  <2>3. \A j \in Pair : half[j] \in Allowed(j)'
    BY <2>1 DEF Allowed
  <2>4. ASSUME NEW k \in Facts, NEW w \in writes, w.name = Home(k)
        PROVE  k = w.name /\ k \in Pair /\ Part(w.value, k) = half[k]
    BY <1>3, <1>5, <2>4
  <2> QED
    BY <1>2, <1>3, <1>4, <1>7, <1>8, <2>1, <2>2, <2>3, <2>4, TellFits
<1>10. CASE dtr0 # said
  <2>1. order' = order /\ told' = [j \in Facts |-> IF j \in Pair THEN Level ELSE told[j]]
    BY <1>1, <1>10 DEF SetExtendedFade, Garbled, half
  <2>2. \A j \in Facts : told[j] \subseteq Allowed(j)'
    BY <2>1 DEF Allowed, HistoryOK
  <2>3. \A j \in Pair : half[j] \in Allowed(j)'
    BY <1>1, <1>8, <2>1 DEF Allowed
  <2>4. ASSUME NEW k \in Facts, NEW w \in writes, w.name = Home(k)
        PROVE  k = w.name /\ k \in Pair /\ Part(w.value, k) = half[k]
    BY <1>3, <1>5, <2>4
  <2> QED
    BY <1>2, <1>3, <1>7, <2>1, <2>2, <2>3, <2>4, TellFits
<1> QED
  BY <1>9, <1>10

\* Two groups with one byte and one bit are one.
LEMMA OneGroup ==
    \A g, h \in 0..15 : GearOf(g) = GearOf(h) /\ BitOf(g) = BitOf(h) => g = h
<1> SUFFICES ASSUME NEW g \in 0..15, NEW h \in 0..15, GearOf(g) = GearOf(h), BitOf(g) = BitOf(h)
             PROVE  g = h
  OBVIOUS
<1>1. g \div 8 = h \div 8
  BY DEF GearOf, Gear
<1>2. g % 8 = h % 8
  BY DEF BitOf
<1> QED
  BY <1>1, <1>2

LEMMA GroupsDiffer == \A g, h \in 0..15 : Group(g) = Group(h) => g = h
BY DEF Group

\* A byte with one bit set or not brings the groups the bits say.
LEMMA InGroupTells ==
    ASSUME Types, ToldInv, NEW g \in 0..15, NEW byte \in Level, NEW bit \in {0, 1},
           InGroup(g, byte, bit),
           Bit(byte, BitOf(g)) <=> bit = 1,
           \A h \in 0..15 : GearOf(h) = GearOf(g) /\ h # g
                               => (Bit(byte, BitOf(h)) <=> Bit(mem[GearOf(g)], BitOf(h)))
    PROVE  ToldInv'
<1> USE DEF Types
<1> DEFINE w == Assigning(GearOf(g), byte)
<1>1. w.name = GearOf(g) /\ w.do = "assign" /\ w.value = byte
  BY DEF Assigning
<1>2. todo = {} /\ todo' = {w} /\ UNCHANGED <<mem, nvs>> /\ DOMAIN order = {}
  BY DEF InGroup, Writing, Call, Idle, level, ToldInv
<1>3. told' = told /\ DOMAIN order' = {Group(g)} /\ order'[Group(g)] = bit
  BY HomeOfGroup DEF InGroup, Says
<1> HIDE DEF w
<1>4. \A j \in Facts : told[j] \subseteq Allowed(j)' /\ Allowed(j) = told[j]
  BY <1>2, <1>3 DEF Allowed
<1>5. Part(byte, Group(g)) = bit /\ bit \in Allowed(Group(g))'
  <2>1. Part(byte, Group(g)) = IF Bit(byte, BitOf(g)) THEN 1 ELSE 0
    BY HomeOfGroup
  <2> QED
    BY <1>3, <2>1 DEF Allowed
<1>6. ASSUME NEW h \in 0..15, GearOf(h) = GearOf(g), h # g
      PROVE  Part(byte, Group(h)) \in Allowed(Group(h))'
  <2>1. Bit(byte, BitOf(h)) <=> Bit(mem[GearOf(g)], BitOf(h))
    BY <1>6
  <2>2. Part(byte, Group(h)) = Part(mem[GearOf(g)], Group(h))
    BY <2>1, HomeOfGroup, Zenon
  <2>3. Home(Group(h)) = GearOf(g) /\ Group(h) \in Facts
    BY <1>6, HomeOfGroup
  <2>4. Part(mem[GearOf(g)], Group(h)) \in Allowed(Group(h))
    BY <2>3 DEF ToldInv, BytesFit
  <2> QED
    BY <1>4, <2>2, <2>3, <2>4
<1>7. ASSUME NEW k \in Facts, Home(k) = GearOf(g)
      PROVE  Part(byte, k) \in Allowed(k)'
  <2>1. k \notin Asked
    BY <1>7, HomeOfAsked, AskedNames, GroupBytes
  <2>2. PICK h \in 0..15 : k = Group(h)
    BY <2>1, Homes
  <2>3. GearOf(h) = GearOf(g)
    BY <1>7, <2>2, HomeOfGroup
  <2> QED
    BY <1>5, <1>6, <2>2, <2>3
<1>8. Home(Group(g)) = GearOf(g)
  BY HomeOfGroup
<1>9. \A k \in Facts, v \in {w} : v.name = Home(k) => Part(v.value, k) \in Allowed(k)'
  BY <1>1, <1>7
<1>10. \A k \in DOMAIN order' : /\ \E v \in {w} : v.name = Home(k)
                               /\ \A v \in {w} : v.name = Home(k) => Part(v.value, k) = order'[k]
  BY <1>1, <1>3, <1>5, <1>8
<1>11. /\ {w} # {} /\ \A v \in {w} : v.do = "assign"
       /\ \A k \in Facts : told[k] \subseteq Allowed(k)'
       /\ \A k \in Facts : mem'[Home(k)] = mem[Home(k)] /\ nvs'[Home(k)] = nvs[Home(k)]
  BY <1>1, <1>2, <1>4
<1> QED
  BY <1>2, <1>9, <1>10, <1>11, TellFits

\* A group taken in or out changes its own bit.
LEMMA GroupTells == ASSUME Types, ToldInv, AddGroup \/ RemoveGroup PROVE ToldInv'
<1>0. StoreOK
  BY DEF Types
<1>1. CASE AddGroup
  <2>1. PICK g \in 0..15 : InGroup(g, WithBit(mem[GearOf(g)], BitOf(g)), 1)
    BY <1>1, InputAssumption DEF AddGroup
  <2>2. mem[GearOf(g)] \in Level /\ BitOf(g) \in 0..7 /\ WithBit(mem[GearOf(g)], BitOf(g)) \in Level
    BY <1>0, GroupByte
  <2>3. Bit(WithBit(mem[GearOf(g)], BitOf(g)), BitOf(g))
    BY <2>2, BitSet
  <2>4. ASSUME NEW h \in 0..15, GearOf(h) = GearOf(g), h # g
        PROVE  Bit(WithBit(mem[GearOf(g)], BitOf(g)), BitOf(h)) <=> Bit(mem[GearOf(g)], BitOf(h))
    <3>1. BitOf(h) \in 0..7 /\ BitOf(h) # BitOf(g)
      BY <2>4, OneGroup, GroupBytes
    <3> QED
      BY <2>2, <3>1, BitSet
  <2> QED
    BY <2>1, <2>2, <2>3, <2>4, InGroupTells
<1>2. CASE RemoveGroup
  <2>1. PICK g \in 0..15 : InGroup(g, WithoutBit(mem[GearOf(g)], BitOf(g)), 0)
    BY <1>2, InputAssumption DEF RemoveGroup
  <2>2. mem[GearOf(g)] \in Level /\ BitOf(g) \in 0..7 /\ WithoutBit(mem[GearOf(g)], BitOf(g)) \in Level
    BY <1>0, GroupByte
  <2>3. ~Bit(WithoutBit(mem[GearOf(g)], BitOf(g)), BitOf(g))
    BY <2>2, BitReset
  <2>4. ASSUME NEW h \in 0..15, GearOf(h) = GearOf(g), h # g
        PROVE  Bit(WithoutBit(mem[GearOf(g)], BitOf(g)), BitOf(h)) <=> Bit(mem[GearOf(g)], BitOf(h))
    <3>1. BitOf(h) \in 0..7 /\ BitOf(h) # BitOf(g)
      BY <2>4, OneGroup, GroupBytes
    <3> QED
      BY <2>2, <3>1, BitReset
  <2> QED
    BY <2>1, <2>2, <2>3, <2>4, InGroupTells
<1> QED
  BY <1>1, <1>2

\* The default of a fact is the fact's part of the default of its byte.
LEMMA DefaultsAreTold ==
    ASSUME NEW k \in Facts
    PROVE  /\ DOMAIN Defaults = Facts \ {One("short_address")}
           /\ k # One("short_address") => /\ Part(Default(Home(k)), k) = Defaults[k]
                                          /\ Home(k) # One("short_address")
           /\ k = One("short_address") => Home(k) = k
<1>1. DOMAIN Defaults = Facts \ {One("short_address")}
  BY DEF Defaults
<1>2. CASE k \in Asked
  BY <1>2, HomeOfAsked, AskedNames DEF Defaults
<1>3. CASE \E g \in 0..15 : k = Group(g)
  <2>1. PICK g \in 0..15 : k = Group(g)
    BY <1>3
  <2>2. Home(k) = GearOf(g) /\ k[1] = "group"
    BY <2>1, HomeOfGroup DEF Group
  <2>3. GearOf(g)[1] = "gear" /\ BitOf(g) \in 0..7
    BY GroupBytes
  <2>4. Default(GearOf(g)) = 0
    BY <2>3 DEF Default
  <2>5. ~Bit(0, BitOf(g))
    BY <2>3, Powers DEF Bit
  <2>6. Part(0, k) = 0
    BY <2>1, <2>5, HomeOfGroup
  <2>7. k # One("short_address") => Defaults[k] = 0
    BY <2>2 DEF Defaults
  <2>8. k # One("short_address") /\ GearOf(g) # One("short_address")
    BY <2>2, <2>3 DEF One
  <2> QED
    BY <1>1, <2>2, <2>4, <2>6, <2>7, <2>8
<1> QED
  BY <1>1, <1>2, <1>3, Homes

\* RESET brings the defaults.
LEMMA ResetTells == ASSUME Types, ToldInv, Reset PROVE ToldInv'
<1>1. /\ todo = {} /\ todo' = ResetProcess /\ told' = told /\ order' = Defaults /\ nvs' = nvs
      /\ mem' = [mem EXCEPT ![One("actual")] = 254] /\ mem \in Contents
  BY DEF Reset, Call, Idle, Types, StoreOK
<1>2. \A k \in Facts : mem'[Home(k)] = mem[Home(k)] /\ nvs'[Home(k)] = nvs[Home(k)]
  BY <1>1, Homes DEF Contents
<1>3. ResetProcess # {}
  <2>1. One("max_level") \in Key \ {One("short_address")}
    BY NamesAreKeys DEF Given, One
  <2> QED
    BY <2>1, ResetNames
<1>4. \A k \in Facts : told[k] \subseteq Allowed(k)'
  BY <1>1 DEF Allowed
<1>5. ASSUME NEW k \in DOMAIN Defaults PROVE Defaults[k] \in Allowed(k)'
  BY <1>1, <1>5 DEF Allowed
<1>6. ASSUME NEW k \in Facts, NEW w \in ResetProcess, w.name = Home(k)
      PROVE  k \in DOMAIN Defaults /\ Part(w.value, k) = Defaults[k]
  <2>1. w.value = Default(Home(k)) /\ Home(k) # One("short_address")
    BY <1>6, ResetIsProper
  <2> QED
    BY <2>1, DefaultsAreTold
<1>7. ASSUME NEW k \in DOMAIN Defaults PROVE k \in Facts /\ \E w \in ResetProcess : w.name = Home(k)
  <2>1. k \in Facts /\ k # One("short_address")
    BY <1>7 DEF Defaults
  <2>2. Home(k) \in Key \ {One("short_address")}
    BY <2>1, Homes, DefaultsAreTold
  <2> QED
    BY <2>1, <2>2, ResetNames
<1>8. \A w \in ResetProcess : w.do = "assign"
  BY ResetIsProper
<1> QED
  BY <1>1, <1>2, <1>3, <1>4, <1>5, <1>6, <1>7, <1>8, TellFits

\* A stage of a write brings what is told, and never what is not.
LEMMA WriteTells ==
    ASSUME Types, TodoInv, ToldInv, NEW w \in todo, Assign(w) \/ Commit(w) \/ ReadBack(w)
    PROVE  ToldInv'
<1> USE DEF Types
<1>0. w \in Writes /\ mem \in Contents /\ nvs \in Contents
  BY DEF WorkOK, StoreOK
\* The bytes.
<1>1. ASSUME NEW k \in Facts
      PROVE  /\ Home(k) \in Key
             /\ Home(k) # w.name => mem'[Home(k)] = mem[Home(k)] /\ nvs'[Home(k)] = nvs[Home(k)]
             /\ Home(k) = w.name => w.at = Home(k)
  BY Homes, WriteChangesItsName
<1>2. ASSUME NEW k \in Facts, Home(k) = w.name
      PROVE  /\ Assign(w)   => mem'[Home(k)] = w.value /\ nvs'[Home(k)] = nvs[Home(k)]
             /\ Commit(w)   => mem'[Home(k)] = mem[Home(k)] /\ nvs'[Home(k)] = mem[Home(k)]
             /\ ReadBack(w) => mem'[Home(k)] = nvs[Home(k)] /\ nvs'[Home(k)] = nvs[Home(k)]
  BY <1>0, <1>1, <1>2 DEF Assign, Commit, ReadBack, Contents
<1>3. ASSUME NEW k \in Facts
      PROVE  Part(mem'[Home(k)], k) \in Allowed(k) /\ Part(nvs'[Home(k)], k) \in Allowed(k)
  <2>1. Part(mem[Home(k)], k) \in Allowed(k) /\ Part(nvs[Home(k)], k) \in Allowed(k)
    BY DEF ToldInv, BytesFit
  <2>2. Assign(w) /\ Home(k) = w.name => Part(w.value, k) \in Allowed(k)
    BY DEF Assign, ToldInv, WritesFit
  <2> QED
    BY <1>1, <1>2, <2>1, <2>2
\* What is left to write.
<1>4. \A x \in todo' : x \in todo \ {w} \/ (x.name = w.name /\ x.do # "assign")
  <2>1. /\ [w EXCEPT !.do = "commit"].name = w.name /\ [w EXCEPT !.do = "commit"].do = "commit"
        /\ [w EXCEPT !.do = "read"].name = w.name /\ [w EXCEPT !.do = "read"].do = "read"
    BY <1>0 DEF Writes
  <2> QED
    BY <2>1 DEF Assign, Commit, ReadBack, Through
<1>5. \A x \in todo : x = w \/ x \in todo'
  BY DEF Assign, Commit, ReadBack, Through
<1>6. ASSUME NEW x \in todo', x \notin todo
      PROVE  /\ Assign(w) => x.do = "commit"
             /\ ~ReadBack(w)
             /\ x.name = w.name
  <2>1. /\ [w EXCEPT !.do = "commit"].name = w.name /\ [w EXCEPT !.do = "commit"].do = "commit"
        /\ [w EXCEPT !.do = "read"].name = w.name /\ [w EXCEPT !.do = "read"].do = "read"
    BY <1>0 DEF Writes
  <2> QED
    BY <1>6, <2>1 DEF Assign, Commit, ReadBack, Through
<1>7. Assign(w) => \E x \in todo' : x.name = w.name
  <2>1. [w EXCEPT !.do = "commit"].name = w.name
    BY <1>0 DEF Writes
  <2> QED
    BY <2>1 DEF Assign
\* The order, heeded as before.
<1>8. ASSUME NEW k \in Facts, NEW what, Heeded(k, what, todo, mem, nvs)
      PROVE  Heeded(k, what, todo', mem', nvs')
  <2>1. CASE Home(k) # w.name
    <3>1. mem'[Home(k)] = mem[Home(k)] /\ nvs'[Home(k)] = nvs[Home(k)]
      BY <1>1, <2>1
    <3>2. \A x \in todo' : x.name = Home(k) => x \in todo
      BY <1>4, <2>1
    <3>3. (\A x \in todo' : x.name # Home(k)) => \A x \in todo : x.name # Home(k)
      BY <1>5, <2>1
    <3> QED
      BY <1>8, <3>1, <3>2, <3>3, Zenon DEF Heeded
  <2>2. CASE Home(k) = w.name
    <3>1. /\ \A x \in todo : x.name = Home(k) =>
                /\ x.do = "assign" => Part(x.value, k) = what
                /\ x.do # "assign" => Part(mem[Home(k)], k) = what
                /\ x.do = "read"   => Part(nvs[Home(k)], k) = what
          /\ w.do = "assign" => Part(w.value, k) = what
          /\ w.do # "assign" => Part(mem[Home(k)], k) = what
          /\ w.do = "read"   => Part(nvs[Home(k)], k) = what
      BY <1>8, <2>2, Zenon DEF Heeded
    <3>2. CASE Assign(w)
      <4>1. Part(mem'[Home(k)], k) = what /\ nvs'[Home(k)] = nvs[Home(k)]
        BY <1>2, <2>2, <3>1, <3>2 DEF Assign
      <4>2. \A x \in todo' : x \in todo \/ x.do = "commit"
        BY <1>6, <3>2
      <4>3. \E x \in todo' : x.name = Home(k)
        BY <1>7, <2>2, <3>2
      <4>4. \A x \in todo' : x.name = Home(k) =>
                /\ x.do = "assign" => Part(x.value, k) = what
                /\ x.do # "assign" => Part(mem'[Home(k)], k) = what
                /\ x.do = "read"   => Part(nvs'[Home(k)], k) = what
        BY <3>1, <4>1, <4>2
      <4> QED
        BY <4>3, <4>4, Zenon DEF Heeded
    <3>3. CASE Commit(w) \/ ReadBack(w)
      <4>1. Part(mem'[Home(k)], k) = what /\ Part(nvs'[Home(k)], k) = what
        <5>1. CASE Commit(w)
          BY <1>2, <2>2, <3>1, <5>1 DEF Commit
        <5>2. CASE ReadBack(w)
          BY <1>2, <2>2, <3>1, <5>2 DEF ReadBack
        <5> QED
          BY <3>3, <5>1, <5>2
      <4>2. \A x \in todo' : x \in todo \/ x.do # "assign"
        BY <1>4
      <4>3. \A x \in todo' : x.name = Home(k) =>
                /\ x.do = "assign" => Part(x.value, k) = what
                /\ x.do # "assign" => Part(mem'[Home(k)], k) = what
                /\ x.do = "read"   => Part(nvs'[Home(k)], k) = what
        BY <3>1, <4>1, <4>2
      <4> QED
        BY <4>1, <4>3, Zenon DEF Heeded
    <3> QED
      BY <3>2, <3>3
  <2> QED
    BY <2>1, <2>2
<1>9. \A k \in DOMAIN order : k \in Facts /\ Heeded(k, order[k], todo', mem', nvs')
  <2> SUFFICES ASSUME NEW k \in DOMAIN order
               PROVE  k \in Facts /\ Heeded(k, order[k], todo', mem', nvs')
    OBVIOUS
  <2>1. k \in Facts /\ Heeded(k, order[k], todo, mem, nvs)
    BY DEF ToldInv, OrderHeeded, HistoryOK
  <2> QED
    BY <1>8, <2>1
\* What may be answered changes with the last write only.
<1>10. CASE told' = told /\ order' = order /\ todo' # {}
  <2>1. \A k \in Facts : Allowed(k)' = Allowed(k)
    BY <1>10 DEF Allowed
  <2>2. BytesFit'
    BY <1>3, <2>1 DEF BytesFit
  <2>3. WritesFit'
    BY <1>4, <2>1 DEF ToldInv, WritesFit
  <2>4. OrderHeeded'
    BY <1>10, <1>9 DEF OrderHeeded
  <2> QED
    BY <1>10, <2>2, <2>3, <2>4 DEF ToldInv
<1>11. CASE /\ todo' = {} /\ DOMAIN order' = {}
            /\ told' = [k \in Facts |-> IF k \in DOMAIN order THEN {order[k]} ELSE told[k]]
  <2>1. BytesFit'
    <3> SUFFICES ASSUME NEW k \in Facts
                 PROVE  Part(mem'[Home(k)], k) \in Allowed(k)' /\ Part(nvs'[Home(k)], k) \in Allowed(k)'
      BY DEF BytesFit
    <3>1. Allowed(k)' = IF k \in DOMAIN order THEN {order[k]} ELSE told[k]
      BY <1>11 DEF Allowed
    <3>2. CASE k \in DOMAIN order
      <4>1. Part(mem'[Home(k)], k) = order[k] /\ Part(nvs'[Home(k)], k) = order[k]
        BY <1>11, <1>9, <3>2 DEF Heeded
      <4> QED
        BY <3>1, <3>2, <4>1
    <3>3. CASE k \notin DOMAIN order
      <4>1. Allowed(k) = told[k]
        BY <3>3 DEF Allowed
      <4> QED
        BY <1>3, <3>1, <3>3, <4>1
    <3> QED
      BY <3>2, <3>3
  <2>2. WritesFit' /\ OrderHeeded'
    BY <1>11 DEF WritesFit, OrderHeeded
  <2> QED
    BY <1>11, <2>1, <2>2 DEF ToldInv
<1>12. todo' # {} \/ Through(w)
  BY DEF Assign, Commit, ReadBack
<1>13. Through(w) => \/ told' = told /\ order' = order /\ todo' # {}
                     \/ /\ todo' = {} /\ DOMAIN order' = {}
                        /\ told' = [k \in Facts |-> IF k \in DOMAIN order THEN {order[k]} ELSE told[k]]
  BY DEF Through, Nothing
<1>14. ~Through(w) => told' = told /\ order' = order
  BY DEF Assign, Commit, ReadBack, history
<1> QED
  BY <1>10, <1>11, <1>12, <1>13, <1>14

\* Whatever is done, the unit holds what it was told.
LEMMA StepTold ==
    ASSUME Types, TodoInv, ToldInv, [Next]_vars
    PROVE  ToldInv'
<1> USE DEF Types
<1>0. mem \in Contents /\ nvs \in Contents
  BY DEF StoreOK
<1>1. ASSUME told' = told, order' = order,
             \A k \in Key \ {One("actual")} : mem'[k] = mem[k] /\ nvs'[k] = nvs[k],
             todo' = todo \/ (todo = {} /\ \A w \in todo' : w.do = "commit")
      PROVE  ToldInv'
  BY <1>1, SameFacts, Homes
<1>2. ASSUME OpEffect PROVE ToldInv'
  <2>1. told' = told /\ order' = order /\ todo = {}
    BY <1>2 DEF OpEffect, Call, Idle
  <2>2. CASE UNCHANGED <<mem, nvs, todo>>
    BY <1>1, <2>1, <2>2
  <2>3. CASE \E to \in Level : change_actual_level(to)
    BY <1>0, <1>1, <2>1, <2>3, StoresActual DEF change_actual_level, Contents
  <2> QED
    BY <1>2, <2>2, <2>3 DEF OpEffect, LevelEffect, level
<1>3. ASSUME NEW t \in TaskIds, fade_task(t) PROVE ToldInv'
  <2>1. told' = told /\ order' = order /\ todo' = todo
    BY <1>3 DEF fade_task, FadeCheck, FadeBegin, FadeOn, FadeEnd, FadeSave, work, history
  <2>2. \A k \in Key \ {One("actual")} : mem'[k] = mem[k] /\ nvs'[k] = nvs[k]
    BY <1>0, <1>3 DEF fade_task, FadeCheck, FadeBegin, FadeOn, FadeEnd, FadeSave, level, Contents
  <2> QED
    BY <1>1, <2>1, <2>2
<1>4. ASSUME WriteAll PROVE ToldInv'
  <2>1. UNCHANGED <<mem, nvs, told, order>> /\ todo = {} /\ todo' = WriteProcess
    BY <1>4 DEF WriteAll, Writing, Call, Idle, level, history
  <2> QED
    BY <1>1, <2>1, WriteProcessIsProper
<1>5. ASSUME Randomise PROVE ToldInv'
  <2>1. PICK bytes \in Randoms :
          mem' = [k \in Key |-> IF k[1] = "random" THEN bytes[k[2] + 1] ELSE mem[k]]
    BY <1>5 DEF Randomise
  <2>2. \A k \in Facts : mem'[Home(k)] = mem[Home(k)]
    BY <2>1, Homes
  <2> QED
    BY <1>5, <2>2, SameFacts DEF Randomise, work, history
<1>6. ASSUME SearchAddress PROVE ToldInv'
  <2>1. PICK i \in 0..2, byte \in Bytes : mem' = [mem EXCEPT ![<<"search", i>>] = byte]
    BY <1>6 DEF SearchAddress
  <2>2. \A k \in Facts : Home(k) # <<"search", i>> /\ Home(k) \in Key
    BY Homes
  <2>3. \A k \in Facts : mem'[Home(k)] = mem[Home(k)]
    BY <1>0, <2>1, <2>2 DEF Contents
  <2> QED
    BY <1>6, <2>3, SameFacts DEF SearchAddress, work, history
<1>7. ASSUME StoreActual \/ LoadDTR0 \/ Finish \/ UNCHANGED vars PROVE ToldInv'
  <2>1. UNCHANGED <<mem, nvs, todo, told, order>>
    BY <1>7 DEF StoreActual, LoadDTR0, Finish, vars, level, work, history
  <2> QED
    BY <1>1, <2>1
<1> QED
  BY <1>2, <1>3, <1>4, <1>5, <1>6, <1>7, Steps, RestartTells, SetsOneTells, ExtendedFadeTells,
     GroupTells, ResetTells, WriteTells DEF CommandStep

\* At first it was told what it holds.
LEMMA InitTold == ASSUME Init PROVE ToldInv
<1>1. \A k \in Lasting : mem[k] = nvs[k]
  <2>1. PICK memory \in Memories : mem = Boot(memory, Stored).mem /\ nvs = Boot(memory, Stored).nvs
    BY DEF Init
  <2>2. memory \in Contents
    BY InputAssumption DEF Memories, Contents
  <2> QED
    BY <2>1, <2>2, BootKeeps, StoredAssumption
<1>2. \A k \in Facts : Home(k) \in Lasting
  <2>1. \A k \in Asked : Home(k) \in Lasting
    BY HomeOfAsked, AskedNames
  <2>2. \A g \in 0..15 : GearOf(g) \in Lasting
    BY GroupBytes DEF Lasting, Scene, Gear
  <2> QED
    BY <2>1, <2>2, Homes, HomeOfGroup
<1>3. /\ told = [k \in Facts |-> {Part(mem[Home(k)], k)}] /\ DOMAIN order = {}
      /\ todo = {Committing(One("actual"))}
  BY DEF Init, Nothing
<1>4. BytesFit
  BY <1>1, <1>2, <1>3 DEF BytesFit, Allowed
<1>5. WritesFit /\ OrderHeeded
  BY <1>3, StoresActual DEF WritesFit, OrderHeeded
<1> QED
  BY <1>3, <1>4, <1>5 DEF ToldInv

-----------------------------------------------------------------------------
(* The groups, by their bits.                                              *)

\* What is_group_address answers, from the bits.
LEMMA GroupsAnswer == ASSUME StoreOK, HistoryOK, ToldInv PROVE GroupsAsTold
<1>1. ASSUME NEW g \in 0..15, Group(g) \notin DOMAIN order
      PROVE  /\ told[Group(g)] = {0} => ~Bit(mem[GearOf(g)], BitOf(g))
             /\ told[Group(g)] = {1} => Bit(mem[GearOf(g)], BitOf(g))
  <2>1. Group(g) \in Facts /\ Home(Group(g)) = GearOf(g)
    BY HomeOfGroup
  <2>2. Part(mem[GearOf(g)], Group(g)) \in Allowed(Group(g))
    BY <2>1 DEF ToldInv, BytesFit
  <2>3. Allowed(Group(g)) = told[Group(g)]
    BY <1>1 DEF Allowed
  <2>4. Part(mem[GearOf(g)], Group(g)) = IF Bit(mem[GearOf(g)], BitOf(g)) THEN 1 ELSE 0
    BY HomeOfGroup
  <2> QED
    BY <2>2, <2>3, <2>4
<1>2. ASSUME NEW h \in 0..15, ~Bit(mem[GearOf(h)], BitOf(h))
      PROVE  ~(mem[Gear(0)] = 255 /\ mem[Gear(1)] = 255)
  <2> SUFFICES ASSUME mem[Gear(0)] = 255, mem[Gear(1)] = 255 PROVE FALSE
    OBVIOUS
  <2>1. BitOf(h) \in 0..7 /\ mem[GearOf(h)] = 255
    BY GroupBytes
  <2>2. Bit(255, BitOf(h))
    BY <2>1, Powers DEF Bit
  <2> QED
    BY <1>2, <2>1, <2>2
<1>3. ASSUME NEW g \in (0..15) \ {8}
      PROVE  is_group_address(mem, g) <=> /\ ~(mem[Gear(0)] = 255 /\ mem[Gear(1)] = 255)
                                          /\ Bit(mem[GearOf(g)], BitOf(g))
  <2>1. CASE g < 8
    <3>1. GearOf(g) = Gear(0) /\ BitOf(g) = g
      BY <2>1 DEF GearOf, BitOf
    <3> QED
      BY <2>1, <3>1 DEF is_group_address
  <2>2. CASE g > 8
    <3>1. GearOf(g) = Gear(1) /\ BitOf(g) = g - 8
      BY <2>2 DEF GearOf, BitOf
    <3> QED
      BY <2>2, <3>1 DEF is_group_address
  <2> QED
    BY <2>1, <2>2
<1> QED
  BY <1>1, <1>2, <1>3, Zenon DEF GroupsAsTold

\* The unit is reached by the groups it was told to be in and by no other,
\* after any sequence of commands and of failures between any two writes, but
\* for group 8, for a unit in all groups, and for groups of a command that was
\* cut off, which were told or were not.
THEOREM GroupsAreAsTold == Spec => []GroupsAsTold
<1>1. Init => Types /\ KeepInv /\ TodoInv /\ ToldInv
  BY InitTypes, InitKeeps, InitTold
<1>2. Types /\ KeepInv /\ TodoInv /\ ToldInv /\ [Next]_vars => (Types /\ KeepInv /\ TodoInv /\ ToldInv)'
  BY StepTypes, StepKeeps, StepTold
<1>3. Types /\ ToldInv => GroupsAsTold
  BY GroupsAnswer DEF Types
<1> QED
  BY <1>1, <1>2, <1>3, PTL DEF Spec

-----------------------------------------------------------------------------
(* What the unit answers.                                                  *)

\* The halves of the extended fade are halves, in memory, in flash, and in
\* what there is to write.
PairInv == \A k \in Pair : mem[k] \in 0..15 /\ nvs[k] \in 0..15

LEMMA PairIsLasting ==
    /\ Pair \subseteq Lasting /\ Pair \subseteq Key \ {One("actual"), Scene(8), Scene(9)}
    /\ \A k \in Pair : k[1] \notin {"search", "random"} /\ k[1] \in {"time_base", "time_multip"}
BY PairNames, AskedNames DEF Pair, One

LEMMA StepPair == ASSUME Types, TodoInv, PairInv, [Next]_vars PROVE PairInv'
<1> USE DEF Types
<1>0. mem \in Contents /\ nvs \in Contents
  BY DEF StoreOK
<1>1. ASSUME \A k \in Pair : mem'[k] = mem[k] /\ nvs'[k] = nvs[k] PROVE PairInv'
  BY <1>1 DEF PairInv
<1>2. ASSUME OpEffect PROVE PairInv'
  <2>1. CASE UNCHANGED <<mem, nvs>>
    BY <1>1, <2>1
  <2>2. CASE \E to \in Level : change_actual_level(to)
    BY <1>0, <1>1, <2>2, PairIsLasting DEF change_actual_level, Contents
  <2> QED
    BY <1>2, <2>1, <2>2 DEF OpEffect, LevelEffect, level
<1>3. ASSUME Restart PROVE PairInv'
  BY <1>3, RestartReads, PairIsLasting DEF PairInv
<1>4. ASSUME NEW t \in TaskIds, fade_task(t) PROVE PairInv'
  <2>1. \A k \in Pair : mem'[k] = mem[k] /\ nvs'[k] = nvs[k]
    BY <1>0, <1>4, PairIsLasting
       DEF fade_task, FadeCheck, FadeBegin, FadeOn, FadeEnd, FadeSave, level, Contents
  <2> QED
    BY <1>1, <2>1
<1>5. ASSUME ConfigEffect \/ StoreActual \/ LoadDTR0 \/ UNCHANGED vars PROVE PairInv'
  <2>1. UNCHANGED <<mem, nvs>>
    BY <1>5 DEF ConfigEffect, Writing, StoreActual, LoadDTR0, vars, level
  <2> QED
    BY <1>1, <2>1
<1>6. ASSUME Reset PROVE PairInv'
  BY <1>0, <1>1, <1>6, PairIsLasting DEF Reset, Contents
<1>7. ASSUME Randomise PROVE PairInv'
  <2>1. PICK bytes \in Randoms :
          mem' = [k \in Key |-> IF k[1] = "random" THEN bytes[k[2] + 1] ELSE mem[k]]
    BY <1>7 DEF Randomise
  <2>2. \A k \in Pair : mem'[k] = mem[k]
    BY <2>1, PairIsLasting
  <2> QED
    BY <1>1, <1>7, <2>2 DEF Randomise
<1>8. ASSUME SearchAddress PROVE PairInv'
  <2>1. PICK i \in 0..2, byte \in Bytes : mem' = [mem EXCEPT ![<<"search", i>>] = byte]
    BY <1>8 DEF SearchAddress
  <2>2. \A k \in Pair : k # <<"search", i>> /\ k \in Key
    BY PairIsLasting
  <2>3. \A k \in Pair : mem'[k] = mem[k]
    BY <1>0, <2>1, <2>2 DEF Contents
  <2> QED
    BY <1>1, <1>8, <2>3 DEF SearchAddress
<1>9. ASSUME CommandStep PROVE PairInv'
  <2>1. CASE Finish
    BY <1>1, <2>1 DEF Finish, level
  <2>2. ASSUME NEW w \in todo, Assign(w) \/ Commit(w) \/ ReadBack(w) PROVE PairInv'
    <3> SUFFICES ASSUME NEW k \in Pair PROVE mem'[k] \in 0..15 /\ nvs'[k] \in 0..15
      BY DEF PairInv
    <3>1. k \in Key \ {Scene(8), Scene(9)} /\ mem[k] \in 0..15 /\ nvs[k] \in 0..15
      BY PairIsLasting DEF PairInv
    <3>2. CASE k # w.name
      BY <2>2, <3>1, <3>2, WriteChangesItsName
    <3>3. CASE k = w.name
      <4>1. w.at = k /\ w.value \in 0..15
        BY <2>2, <3>1, <3>3, WriteChangesItsName DEF TodoInv, Proper, HalfByte
      <4> QED
        BY <1>0, <2>2, <3>1, <3>3, <4>1 DEF Assign, Commit, ReadBack, Contents
    <3> QED
      BY <3>2, <3>3
  <2> QED
    BY <1>9, <2>1, <2>2 DEF CommandStep
<1> QED
  BY <1>2, <1>3, <1>4, <1>5, <1>6, <1>7, <1>8, <1>9, StepEffects

LEMMA InitPair == ASSUME Init PROVE PairInv
<1>1. PICK memory \in Memories : mem = Boot(memory, Stored).mem /\ nvs = Boot(memory, Stored).nvs
  BY DEF Init
<1>2. memory \in Contents
  BY InputAssumption DEF Memories, Contents
<1>3. \A k \in Pair : mem[k] = nvs[k] /\ nvs[k] = FlashInit(Stored)[k]
  BY <1>1, <1>2, BootKeeps, StoredAssumption, PairIsLasting
<1>4. ASSUME NEW k \in Pair PROVE FlashInit(Stored)[k] \in 0..15
  <2>1. FlashInit(Stored)[k] = IF k \in DOMAIN Stored THEN Stored[k] ELSE Default(k)
    BY PairIsLasting DEF FlashInit
  <2>2. Default(k) \in 0..15
    BY DEF Pair, One, Default
  <2> QED
    BY <2>1, <2>2, StoredAssumption, PairIsLasting
<1> QED
  BY <1>3, <1>4 DEF PairInv

\* Two halves of a byte come apart again.
LEMMA HalvesApart ==
    \A hi, lo \in 0..15 : /\ (UInt8(hi * 16) + lo) \div 16 = hi
                          /\ (UInt8(hi * 16) + lo) % 16 = lo
BY DEF UInt8

\* The answer gives the value back.
LEMMA AnswerIsValue ==
    ASSUME StoreOK, PairInv, NEW k \in Asked, k \in Answered
    PROVE  Answer(k) = mem[k]
<1>1. CASE \E i \in Scenes : k = Scene(i)
  BY <1>1 DEF Scene, Answer
<1>2. CASE k = One("fade_time") \/ k = One("fade_rate")
  <2>1. Setting("fade_time") \in 0..15 /\ Setting("fade_rate") \in 0..15
    <3>1. Setting("fade_time") < 16 /\ Setting("fade_rate") < 16
      BY <1>2 DEF Answered, One
    <3>2. Setting("fade_time") \in 0..255 /\ Setting("fade_rate") \in 0..255
      BY SettingsAreLevels DEF Given, Level
    <3> QED
      BY <3>1, <3>2
  <2>2. command_query("fade") = UInt8(Setting("fade_time") * 16) + Setting("fade_rate")
    BY DEF command_query
  <2>3. /\ command_query("fade") \div 16 = Setting("fade_time")
        /\ command_query("fade") % 16 = Setting("fade_rate")
    BY <2>1, <2>2, HalvesApart
  <2> QED
    BY <1>2, <2>3 DEF Answer, One, Setting
<1>3. CASE k \in Pair
  <2>1. Setting("time_multip") \in 0..15 /\ Setting("time_base") \in 0..15
    BY DEF PairInv, Pair, Setting
  <2>2. command_query("extended_fade") = UInt8(Setting("time_multip") * 16) + Setting("time_base")
    BY DEF command_query
  <2>3. /\ command_query("extended_fade") \div 16 = Setting("time_multip")
        /\ command_query("extended_fade") % 16 = Setting("time_base")
    BY <2>1, <2>2, HalvesApart
  <2> QED
    BY <1>3, <2>3 DEF Answer, One, Setting, Pair
<1>4. CASE \E name \in {"max_level", "min_level", "power_on_level", "system_failure",
                        "short_address"} : k = One(name)
  <2>1. PICK name \in {"max_level", "min_level", "power_on_level", "system_failure",
                        "short_address"} : k = One(name)
    BY <1>4
  <2>2. Answer(k) = command_query(name)
    BY <2>1 DEF Answer, One
  <2>3. command_query(name) = mem[One(name)]
    BY <2>1 DEF command_query, max_level, min_level, Setting
  <2> QED
    BY <2>1, <2>2, <2>3
<1> QED
  BY <1>1, <1>2, <1>3, <1>4, AskedNames DEF Given, Pair

\* What the unit was told last is what it answers, after any sequence of
\* commands and of failures between any two writes; of a command that was cut
\* off it answers the old value or the new, and anything where RANDOMISE had
\* overwritten the byte it was to set.
THEOREM AnswersAreAsTold == Spec => []AnswersAsTold
<1>1. Init => Types /\ KeepInv /\ TodoInv /\ ToldInv /\ PairInv
  BY InitTypes, InitKeeps, InitTold, InitPair
<1>2. Types /\ KeepInv /\ TodoInv /\ ToldInv /\ PairInv /\ [Next]_vars
         => (Types /\ KeepInv /\ TodoInv /\ ToldInv /\ PairInv)'
  BY StepTypes, StepKeeps, StepTold, StepPair
<1>3. Types /\ ToldInv /\ PairInv => AnswersAsTold
  <2> SUFFICES ASSUME Types, ToldInv, PairInv, NEW k \in Asked \ DOMAIN order, k \in Answered
               PROVE  Answer(k) \in told[k]
    BY DEF AnswersAsTold
  <2>1. Answer(k) = mem[k]
    BY AnswerIsValue DEF Types
  <2>2. k \in Facts /\ Home(k) = k /\ Part(mem[k], k) = mem[k]
    BY HomeOfAsked
  <2>3. Part(mem[Home(k)], k) \in Allowed(k)
    BY <2>2 DEF ToldInv, BytesFit
  <2>4. Allowed(k) = told[k]
    BY DEF Allowed
  <2> QED
    BY <2>1, <2>2, <2>3, <2>4
<1> QED
  BY <1>1, <1>2, <1>3, PTL DEF Spec

-----------------------------------------------------------------------------
(* The lamp and the level.  LampShowsLevel itself is not inductive: while   *)
(* a fade goes on, the delay is on the way from the start of the plan to    *)
(* its stop, which is the delay of the level that the end will set; and     *)
(* RESET sets the level while the lamp is out.                              *)

\* The plan that a task is to follow, or follows.
PlanAims == param.step_stop = RawLevel(param.destination) /\ OnWay(param.step_start, param)

TaskAims(t) ==
    /\ task[t].pc # "none" => PlanAims
    /\ task[t].pc = "run"  => raw = task[t].tmp /\ OnWay(raw, param)
    /\ task[t].pc = "end"  => Distance(raw, param.step_stop) <= 36

Shows == Distance(raw, RawLevel(actual_level)) <= 36

\* The lamp burns, or will when the command is over.
Lit == lamp_on \/ after = "on"

Over == \A t \in TaskIds : task[t].pc = "none"

Settled == \A t \in TaskIds : task[t].pc \in {"none", "save"}

AimInv == upset = {} => /\ \A t \in TaskIds : TaskAims(t)
                        /\ Settled /\ Lit => Shows

\* Only RESET sets the level by its writes, and the lamp is out then.
DarkInv == (\E w \in todo : ~LevelStays(w)) => ~Lit

\* The lamp is set at once, a fade is planned, with a task or without, or the
\* light stays and the lamp at most goes out.
LampEffect ==
    \/ \E to \in Level : Jump(to)
    \/ /\ ~fade_running /\ UNCHANGED <<mem, raw, after>>
       /\ \E to \in Level, dir \in Directions :
             Fade(to, dir) \/ (Plan(to, dir) /\ UNCHANGED <<task, lamp_on>>)
    \/ UNCHANGED <<mem, raw, param, task, upset, after>> /\ (lamp_on' => lamp_on)

\* What is refused leaves the light.
LEMMA RefusedLamp == ASSUME Refused PROVE LampEffect
BY DEF Refused, LampEffect, level, work, fade, history

\* Every operation has one of these effects, or starts again.
LEMMA OperationOnLamp ==
    ASSUME Types, Operation
    PROVE  (Call /\ LampEffect) \/ Restart
<1>0. StoreOK /\ LampOK
  BY DEF Types
<1>1. ASSUME NEW to \in ArcLevels, direct_arc_power(to) PROVE LampEffect
  <2>1. to \in Level /\ Direction(to) \in Directions
    BY InputAssumption DEF Direction, Directions
  <2> QED
    BY <1>1, <2>1, RefusedLamp DEF direct_arc_power, LampEffect, level, work
<1>2. ASSUME command_off PROVE LampEffect
  BY <1>2 DEF command_off, LampEffect, work, fade, history
<1>3. ASSUME NEW run \in BOOLEAN, NEW to \in Level, NEW dir \in Directions, FadeBy200ms(to, dir, run)
      PROVE  LampEffect \/ Restart
  BY <1>3 DEF FadeBy200ms, LampEffect, level, work
<1>4. ASSUME NEW run \in BOOLEAN, command_up(run) \/ command_down(run)
      PROVE  LampEffect \/ Restart
  <2>1. Up200ms \in Level /\ Down200ms \in Level /\ "DIR_UP" \in Directions /\ "DIR_DOWN" \in Directions
    BY <1>0, AimsAreLevels DEF Directions
  <2> QED
    BY <1>3, <1>4, <2>1 DEF command_up, command_down
<1>5. ASSUME NEW run \in BOOLEAN, command_step_up(run) \/ command_step_down(run)
      PROVE  LampEffect
  <2>1. /\ ~(actual_level + 1 > max_level) => actual_level + 1 \in Level
        /\ ~(actual_level - 1 < min_level) => actual_level - 1 \in Level
    BY <1>0, SettingsAreLevels DEF Level
  <2>2. Refused \/ \E to \in Level : Jump(to)
    BY <1>5, <2>1 DEF command_step_up, command_step_down
  <2> QED
    BY <2>2, RefusedLamp DEF LampEffect
<1>6. ASSUME NEW to \in Level, command_recall(to) PROVE LampEffect
  BY <1>6 DEF command_recall, LampEffect
<1>7. ASSUME NEW run \in BOOLEAN, command_step_down_and_off(run) \/ command_on_and_step_up(run)
      PROVE  LampEffect
  <2>1. /\ actual_level + 1 \in min_level..max_level => actual_level + 1 \in Level
        /\ actual_level - 1 >= min_level => actual_level - 1 \in Level
    BY <1>0, SettingsAreLevels DEF Level
  <2>2. Refused \/ \E to \in Level : Jump(to)
    BY <1>7, <2>1 DEF command_step_down_and_off, command_on_and_step_up
  <2> QED
    BY <2>2, RefusedLamp DEF LampEffect
<1>8. ASSUME command_goto_last_active_level PROVE LampEffect
  <2>1. last \in Level /\ Direction(last) \in Directions
    BY <1>0 DEF StoreOK, Direction, Directions
  <2> QED
    BY <1>8, <2>1 DEF command_goto_last_active_level, LampEffect, level, work
<1>9. ASSUME NEW run \in BOOLEAN, NEW to \in Level, NEW dir \in Directions, Continuous(to, dir, run)
      PROVE  LampEffect \/ Restart
  <2>1. \/ Refused \/ Restart
        \/ ~fade_running /\ Fade(to, dir) /\ UNCHANGED <<level, work, lamp_on, raw, register>>
    BY <1>9 DEF Continuous
  <2> QED
    BY <2>1, RefusedLamp DEF LampEffect, level, work
<1>10. ASSUME NEW run \in BOOLEAN, NEW i \in Scenes, command_goto_scene(i, run) PROVE LampEffect
  <2> DEFINE scene == mem[Scene(i)]
             to    == IF scene > max_level \/ (scene < min_level /\ min_level > max_level)
                      THEN max_level ELSE IF scene < min_level THEN min_level ELSE scene
  <2>1. to \in Level /\ Direction(to) \in Directions
    BY <1>0, SettingsAreLevels DEF Direction, Directions
  <2>2. \/ Refused
        \/ ~fade_running /\ Fade(to, Direction(to)) /\ UNCHANGED <<level, work, raw, register>>
    BY <1>10 DEF command_goto_scene
  <2> HIDE DEF to
  <2> QED
    BY <2>1, <2>2, RefusedLamp DEF LampEffect, level, work
<1>11. max_level \in Level /\ min_level \in Level /\ "DIR_UP" \in Directions /\ "DIR_DOWN" \in Directions
  BY <1>0, SettingsAreLevels DEF Directions
<1>12. LampEffect \/ Restart
  BY <1>1, <1>2, <1>4, <1>5, <1>6, <1>7, <1>8, <1>9, <1>10, <1>11 DEF Operation
<1>13. Call
  BY DEF Operation, direct_arc_power, command_off, command_up, command_down, FadeBy200ms,
         command_step_up, command_step_down, command_recall, command_step_down_and_off,
         command_on_and_step_up, Continuous, command_goto_scene, command_goto_last_active_level
<1> QED
  BY <1>12, <1>13

\* The light and the level stay.
LEMMA SameAim ==
    ASSUME AimInv, UNCHANGED <<raw, param, task, upset>>, Lit' => Lit,
           Lit' => actual_level' = actual_level
    PROVE  AimInv'
BY DEF AimInv, TaskAims, PlanAims, Settled, Shows

\* A plan that is not of the wrong way starts on its way.
LEMMA RightWayStarts ==
    ASSUME NEW a \in Level, NEW d \in Level, NEW dir \in Directions,
           ~IF dir = "DIR_UP" THEN d < a ELSE d > a
    PROVE  OnWay(fade_calc(a, d, dir).step_start, fade_calc(a, d, dir))
<1>1. a \in Int /\ d \in Int /\ RawLevel(a) \in Int /\ RawLevel(d) \in Int
  BY RawLevelIsInt DEF Level
<1>2. a <= d => RawLevel(d) <= RawLevel(a)
  BY RawLevelFalls
<1>3. d <= a => RawLevel(a) <= RawLevel(d)
  BY RawLevelFalls
<1> QED
  BY <1>1, <1>2, <1>3 DEF fade_calc, OnWay

\* Nothing is told of a plan that no task waits for and that goes the right
\* way.
LEMMA PlanIsAimed ==
    ASSUME Types, OneInv, ~fade_running, NEW to \in Level, NEW dir \in Directions,
           Plan(to, dir), upset' = {}
    PROVE  upset = {} /\ Over /\ PlanAims'
<1> USE DEF Types
<1> DEFINE wrong == IF dir = "DIR_UP" THEN to < actual_level ELSE to > actual_level
<1>1. upset = {}
  BY DEF Plan
<1>2. ~\E t \in TaskIds : Waiting(t)
  <2>1. ASSUME \E t \in TaskIds : Waiting(t) PROVE "hasty" \in upset'
    BY <2>1 DEF Plan
  <2> QED
    BY <2>1
<1>3. ~wrong
  <2>1. ASSUME wrong PROVE "wrap" \in upset'
    BY <2>1 DEF Plan
  <2> QED
    BY <2>1
<1>4. ~\E t \in TaskIds : Running(t)
  BY <1>1 DEF OneInv, Calm, FlagSays
<1>5. Over
  BY <1>2, <1>4 DEF Over, Waiting, Running, FadeOK, TaskState
<1>6. param' = fade_calc(actual_level, to, dir) /\ actual_level \in Level
  BY SettingsAreLevels DEF Plan, default_fade_param
<1>7. OnWay(param'.step_start, param')
  BY <1>3, <1>6, RightWayStarts
<1>8. param'.step_stop = RawLevel(param'.destination)
  BY <1>6 DEF fade_calc
<1> QED
  BY <1>1, <1>5, <1>7, <1>8 DEF PlanAims

\* An operation keeps the lamp at its level, or aims at a new one.
LEMMA LampKeepsAim ==
    ASSUME Types, OneInv, AimInv, Call, LampEffect
    PROVE  AimInv'
<1> SUFFICES ASSUME upset' = {}
             PROVE  (\A t \in TaskIds : TaskAims(t)') /\ (Settled' /\ Lit' => Shows')
  BY DEF AimInv
<1>0. /\ task \in [TaskIds -> TaskState] /\ mem \in Contents /\ One("actual") \in Key
      /\ after = "nothing"
  BY NamesAreKeys DEF Types, FadeOK, StoreOK, Call, Idle
<1>1. ASSUME NEW to \in Level, Jump(to)
      PROVE  (\A t \in TaskIds : TaskAims(t)') /\ Shows'
  <2>1. upset = {} /\ ~\E t \in TaskIds : Running(t)
    <3>1. ASSUME \E t \in TaskIds : Running(t) PROVE "jump" \in upset'
      BY <1>1, <3>1 DEF Jump
    <3> QED
      BY <1>1, <3>1 DEF Jump
  <2>2. param' = param /\ task' = task /\ raw' = RawLevel(to)
    BY <1>1 DEF Jump, fade
  <2>3. actual_level' = to
    BY <1>0, <1>1 DEF Jump, change_actual_level, actual_level, Setting, Contents
  <2>4. \A t \in TaskIds : TaskAims(t)'
    BY <2>1, <2>2 DEF AimInv, TaskAims, PlanAims, Running
  <2>5. Shows'
    BY <2>2, <2>3, RawLevelIsInt DEF Shows, Distance
  <2> QED
    BY <2>4, <2>5
<1>2. ASSUME ~fade_running, UNCHANGED <<mem, raw>>, NEW to \in Level, NEW dir \in Directions,
             Fade(to, dir)
      PROVE  (\A t \in TaskIds : TaskAims(t)') /\ ~Settled'
  <2>1. Over /\ PlanAims'
    BY <1>2, PlanIsAimed DEF Fade
  <2>2. PICK t \in TaskIds : task' = [task EXCEPT ![t].pc = "created"]
    BY <1>2 DEF Fade
  <2>3. \A u \in TaskIds : task'[u].pc = IF u = t THEN "created" ELSE "none"
    BY <1>0, <2>1, <2>2 DEF Over, TaskState
  <2> QED
    BY <2>1, <2>3 DEF TaskAims, Settled
<1>3. ASSUME ~fade_running, UNCHANGED <<mem, raw, after>>, NEW to \in Level, NEW dir \in Directions,
             Plan(to, dir), UNCHANGED <<task, lamp_on>>
      PROVE  (\A t \in TaskIds : TaskAims(t)') /\ (Lit' => Shows')
  <2>1. upset = {} /\ Over
    BY <1>3, PlanIsAimed
  <2>2. \A t \in TaskIds : TaskAims(t)'
    BY <1>3, <2>1 DEF Over, TaskAims
  <2>3. Lit' => Shows'
    BY <1>3, <2>1 DEF AimInv, Over, Settled, Lit, Shows, actual_level, Setting
  <2> QED
    BY <2>2, <2>3
<1>4. ASSUME UNCHANGED <<mem, raw, param, task, upset, after>>, lamp_on' => lamp_on PROVE AimInv'
  BY <1>4, SameAim DEF Lit, actual_level, Setting
<1> QED
  BY <1>1, <1>2, <1>3, <1>4 DEF LampEffect, AimInv

\* A task keeps to its way, and leaves the lamp at the level it sets.
LEMMA TaskKeepsAim ==
    ASSUME Types, OneInv, AimInv, NEW t \in TaskIds, fade_task(t)
    PROVE  AimInv'
<1>0. /\ task \in [TaskIds -> TaskState] /\ task[t] \in TaskState /\ param \in FadeParam
      /\ mem \in Contents /\ One("actual") \in Key /\ raw \in RawDelay
  BY NamesAreKeys DEF Types, FadeOK, StoreOK
<1> SUFFICES ASSUME upset' = {}
             PROVE  (\A u \in TaskIds : TaskAims(u)') /\ (Settled' /\ Lit' => Shows')
  BY DEF AimInv
<1>1. /\ upset = {} /\ param' = param /\ task[t].pc # "none" /\ Lit' = Lit
      /\ \A u \in TaskIds \ {t} : task'[u] = task[u]
  BY <1>0 DEF fade_task, FadeCheck, FadeBegin, FadeOn, FadeEnd, FadeSave, history, lamp, work, Lit
<1>2. PlanAims /\ TaskAims(t) /\ PlanAims'
  BY <1>1 DEF AimInv, TaskAims, PlanAims
<1>3. OneTask /\ FlagSays
  BY <1>1 DEF OneInv, Calm
<1>4. \A u \in TaskIds \ {t} : task[u].pc = "none" /\ task'[u].pc = "none"
  BY <1>1, <1>3 DEF OneTask
<1>5. \A u \in TaskIds \ {t} : TaskAims(u)'
  BY <1>4 DEF TaskAims
<1>6. CASE FadeCheck(t)
  <2>1. ~fade_running
    BY <1>3, <1>4, <1>6 DEF FadeCheck, FlagSays, Running
  <2>2. task'[t].pc = "entered"
    BY <1>0, <1>6, <2>1 DEF FadeCheck
  <2> QED
    BY <1>2, <1>5, <2>2 DEF TaskAims, Settled
<1>7. CASE FadeBegin(t)
  <2>1. task'[t].pc = "run" /\ task'[t].tmp = param.step_start /\ raw' = param.step_start
    BY <1>0, <1>7 DEF FadeBegin
  <2> QED
    BY <1>1, <1>2, <1>5, <2>1 DEF TaskAims, PlanAims, Settled
<1>8. CASE FadeOn(t)
  <2> DEFINE next == NextRaw(raw, param)
  <2>1. raw = task[t].tmp /\ OnWay(raw, param) /\ task[t].pc = "run"
    BY <1>2, <1>8 DEF FadeOn, TaskAims
  <2>2. /\ GoesOn(next, param) => OnWay(next, param)
        /\ ~GoesOn(next, param) => Distance(raw, param.step_stop) <= 36
    BY <1>0, <2>1, FadeNearsItsStop
  <2>3. CASE GoesOn(next, param)
    <3>1. raw' = next /\ task'[t].pc = "run" /\ task'[t].tmp = next
      BY <1>0, <1>8, <2>1, <2>3 DEF FadeOn, TaskState
    <3> HIDE DEF next
    <3> QED
      BY <1>1, <1>2, <1>5, <2>2, <2>3, <3>1 DEF TaskAims, Settled
  <2>4. CASE ~GoesOn(next, param)
    <3>1. raw' = raw /\ task'[t].pc = "end"
      BY <1>0, <1>8, <2>1, <2>4 DEF FadeOn, TaskState
    <3> QED
      BY <1>1, <1>2, <1>5, <2>2, <2>4, <3>1 DEF TaskAims, Settled
  <2> QED
    BY <2>3, <2>4
<1>9. CASE FadeEnd(t)
  <2>1. task'[t].pc = "save" /\ raw' = raw
    BY <1>0, <1>9 DEF FadeEnd, TaskState
  <2>2. actual_level' = param.destination
    BY <1>0, <1>9 DEF FadeEnd, actual_level, Setting, Contents
  <2>3. Distance(raw, RawLevel(param.destination)) <= 36
    BY <1>2, <1>9 DEF FadeEnd, TaskAims, PlanAims
  <2> QED
    BY <1>2, <1>5, <2>1, <2>2, <2>3 DEF TaskAims, Shows
<1>10. CASE FadeSave(t)
  <2>1. task[t].pc = "save" /\ task'[t].pc = "none" /\ raw' = raw /\ mem' = mem
    BY <1>0, <1>10 DEF FadeSave, NoTask
  <2>2. Settled
    BY <1>4, <2>1 DEF Settled
  <2>3. Lit' => Shows'
    BY <1>1, <2>1, <2>2 DEF AimInv, Shows, actual_level, Setting
  <2> QED
    BY <1>5, <2>1, <2>3 DEF TaskAims
<1> QED
  BY <1>6, <1>7, <1>8, <1>9, <1>10 DEF fade_task

\* A start lights the lamp at the level it sets.
LEMMA BootShows ==
    ASSUME NEW memory \in Memories, NEW flash, DOMAIN flash \subseteq Key,
           \A k \in DOMAIN flash : flash[k] \in Level
    PROVE  Distance(Boot(memory, flash).raw,
                    RawLevel(Boot(memory, flash).mem[One("actual")])) <= 36
<1> DEFINE init == MemoryInit(memory, flash)
           lev  == IF init[One("power_on_level")] = 255 THEN init[One("actual")]
                                                        ELSE init[One("power_on_level")]
<1>1. One("actual") \in Key /\ One("actual") \in DOMAIN init
  BY NamesAreKeys DEF MemoryInit
<1>2. /\ Boot(memory, flash).mem = [init EXCEPT ![One("actual")] = lev]
      /\ Boot(memory, flash).raw = RawLevel(lev)
  BY DEF Boot
<1> HIDE DEF init, lev
<1>3. Boot(memory, flash).mem[One("actual")] = lev
  BY <1>1, <1>2
<1>4. lev \in Level
  <2>1. memory \in Contents
    BY InputAssumption DEF Memories, Contents
  <2>2. Boot(memory, flash).mem \in Contents
    BY <2>1, BootTypes
  <2> QED
    BY <1>1, <1>3, <2>2 DEF Contents
<1> QED
  BY <1>2, <1>3, <1>4, RawLevelIsInt DEF Distance

\* No task is left then.
LEMMA InitAims == ASSUME Init PROVE AimInv
<1>1. PICK memory \in Memories : mem = Boot(memory, Stored).mem /\ raw = Boot(memory, Stored).raw
  BY DEF Init
<1>2. Shows
  BY <1>1, BootShows, StoredAssumption DEF Shows, actual_level, Setting
<1>3. \A t \in TaskIds : task[t].pc = "none"
  BY DEF Init, NoTask
<1> QED
  BY <1>2, <1>3 DEF AimInv, TaskAims

LEMMA RestartAims == ASSUME Types, Restart PROVE AimInv'
<1>1. PICK memory \in Memories : mem' = Boot(memory, nvs).mem /\ raw' = Boot(memory, nvs).raw
  BY DEF Restart
<1>2. DOMAIN nvs \subseteq Key /\ \A k \in DOMAIN nvs : nvs[k] \in Level
  BY DEF Types, StoreOK, Contents
<1>3. Shows'
  BY <1>1, <1>2, BootShows DEF Shows, actual_level, Setting
<1>4. \A t \in TaskIds : task'[t].pc = "none"
  BY DEF Restart, NoTask
<1> QED
  BY <1>3, <1>4 DEF AimInv, TaskAims

\* RESET puts the lamp out.
LEMMA ResetAims == ASSUME Types, AimInv, Reset PROVE AimInv'
<1> SUFFICES ASSUME upset' = {}
             PROVE  (\A t \in TaskIds : TaskAims(t)') /\ (Settled' /\ Lit' => Shows')
  BY DEF AimInv
<1>1. ~Lit' /\ upset = {} /\ UNCHANGED <<param, task, raw>>
  BY DEF Reset, Call, Idle, Lit
<1> QED
  BY <1>1 DEF AimInv, TaskAims, PlanAims

\* A step of the command at hand sets the level in the dark only, and the lamp
\* goes on only when it is at its level.
LEMMA CommandKeepsAim == ASSUME Types, AimInv, DarkInv, CommandStep PROVE AimInv'
<1>1. CASE Finish
  <2>1. UNCHANGED <<raw, param, task, upset, mem>> /\ (Lit' => Lit)
    BY <1>1 DEF Finish, level, fade, history, Lit
  <2> QED
    BY <2>1, SameAim DEF actual_level, Setting
<1>2. ASSUME NEW w \in todo, Assign(w) \/ Commit(w) \/ ReadBack(w) PROVE AimInv'
  <2>1. UNCHANGED <<raw, param, task, upset, lamp_on, after>>
    BY <1>2 DEF Assign, Commit, ReadBack, Through, lamp, fade, history
  <2>2. Lit => actual_level' = actual_level
    <3>1. mem \in Contents
      BY DEF Types, StoreOK
    <3>2. CASE LevelStays(w)
      <4>1. w.at # One("actual") \/ Commit(w)
        BY <1>2, <3>2 DEF LevelStays, Assign, ReadBack
      <4>2. mem'[One("actual")] = mem[One("actual")]
        BY <1>2, <3>1, <4>1, NamesAreKeys DEF Assign, Commit, ReadBack, Contents
      <4> QED
        BY <4>2 DEF actual_level, Setting
    <3>3. CASE ~LevelStays(w)
      BY <1>2, <3>3 DEF DarkInv
    <3> QED
      BY <3>2, <3>3
  <2> QED
    BY <2>1, <2>2, SameAim DEF Lit
<1> QED
  BY <1>1, <1>2 DEF CommandStep

\* Whatever is done, the lamp shows its level, or a fade goes to a new one.
LEMMA StepKeepsAim == ASSUME Types, OneInv, AimInv, DarkInv, [Next]_vars PROVE AimInv'
<1>0. mem \in Contents /\ One("actual") \in Key
  BY NamesAreKeys DEF Types, StoreOK
<1>1. ASSUME UNCHANGED <<raw, param, task, upset, lamp_on, after>>,
             mem'[One("actual")] = mem[One("actual")]
      PROVE  AimInv'
  BY <1>1, SameAim DEF Lit, actual_level, Setting
<1>2. ASSUME ConfigEffect PROVE AimInv'
  BY <1>1, <1>2 DEF ConfigEffect, Writing, level, lamp, fade
<1>3. ASSUME Randomise PROVE AimInv'
  <2>1. mem'[One("actual")] = mem[One("actual")]
    BY <1>0, <1>3 DEF Randomise, One
  <2> QED
    BY <1>1, <1>3, <2>1 DEF Randomise, work, lamp, fade, history
<1>4. ASSUME SearchAddress PROVE AimInv'
  <2>1. PICK i \in 0..2, byte \in Bytes : mem' = [mem EXCEPT ![<<"search", i>>] = byte]
    BY <1>4 DEF SearchAddress
  <2>2. mem'[One("actual")] = mem[One("actual")]
    BY <1>0, <2>1 DEF One, Contents
  <2> QED
    BY <1>1, <1>4, <2>2 DEF SearchAddress, work, lamp, fade, history
<1>5. ASSUME StoreActual \/ LoadDTR0 \/ UNCHANGED vars PROVE AimInv'
  BY <1>1, <1>5 DEF StoreActual, LoadDTR0, vars, level, work, lamp, fade, history
<1>6. ASSUME Operation \/ PowerCycle PROVE AimInv'
  BY <1>6, OperationOnLamp, LampKeepsAim, RestartAims DEF PowerCycle
<1>7. ASSUME SetVariable \/ SetScene \/ RemoveScene \/ Program PROVE ConfigEffect
  BY <1>7, ConfigSetsOne, SetsOneIsConfig DEF Types
<1>8. ASSUME SetExtendedFade \/ AddGroup \/ RemoveGroup \/ WriteAll PROVE ConfigEffect
  BY <1>8, ExtendedFadeIsConfig, GroupIsConfig, WriteAllIsConfig DEF Types
<1> QED
  BY <1>2, <1>3, <1>4, <1>5, <1>6, <1>7, <1>8, TaskKeepsAim, ResetAims, CommandKeepsAim
     DEF Next, command_config, special_command

\* And the lamp stays out while RESET writes the level.
LEMMA StepKeepsDark == ASSUME Types, DarkInv, [Next]_vars PROVE DarkInv'
<1> USE DEF Types
<1>1. ASSUME todo' = todo, Lit' => Lit PROVE DarkInv'
  BY <1>1 DEF DarkInv
<1>2. ASSUME \A w \in todo' : LevelStays(w) PROVE DarkInv'
  BY <1>2 DEF DarkInv
<1>3. ASSUME OpEffect PROVE DarkInv'
  <2>1. todo' = {} \/ todo' = {Committing(One("actual"))}
    BY <1>3 DEF OpEffect, Call, Idle, LevelEffect, level, change_actual_level
  <2> QED
    BY <1>2, <2>1, StoresActual
<1>4. ASSUME Restart PROVE DarkInv'
  <2>1. todo' = {Committing(One("actual"))}
    BY <1>4 DEF Restart
  <2> QED
    BY <1>2, <2>1, StoresActual
<1>5. ASSUME NEW t \in TaskIds, fade_task(t) PROVE DarkInv'
  <2>1. UNCHANGED <<work, lamp>>
    BY <1>5 DEF fade_task, FadeCheck, FadeBegin, FadeOn, FadeEnd, FadeSave
  <2> QED
    BY <1>1, <2>1 DEF work, lamp, Lit
<1>6. ASSUME ConfigEffect PROVE DarkInv'
  <2>1. PICK writes \in SUBSET {w \in Writes : Proper(w) /\ LevelStays(w)} : Writing(writes)
    BY <1>6 DEF ConfigEffect
  <2>2. \A w \in todo' : LevelStays(w)
    BY <2>1 DEF Writing
  <2> QED
    BY <1>2, <2>2
<1>7. ASSUME Reset PROVE DarkInv'
  BY <1>7 DEF Reset, Call, Idle, Lit, DarkInv
<1>8. ASSUME StoreActual \/ Randomise \/ LoadDTR0 \/ SearchAddress \/ UNCHANGED vars PROVE DarkInv'
  <2>1. UNCHANGED <<work, lamp>>
    BY <1>8 DEF StoreActual, Randomise, LoadDTR0, SearchAddress, vars
  <2> QED
    BY <1>1, <2>1 DEF work, lamp, Lit
<1>9. ASSUME Finish PROVE DarkInv'
  BY <1>1, <1>9 DEF Finish, Lit
<1>10. ASSUME NEW w \in todo, Assign(w) \/ Commit(w) \/ ReadBack(w) PROVE DarkInv'
  <2>1. Lit' = Lit
    BY <1>10 DEF Assign, Commit, ReadBack, lamp, Lit
  <2>2. w \in Writes
    BY DEF WorkOK
  <2>3. ASSUME NEW x \in todo', x \notin todo, ~LevelStays(x) PROVE ~LevelStays(w)
    <3>1. CASE Assign(w)
      <4>1. x = [w EXCEPT !.do = "commit"] /\ w.do = "assign"
        BY <2>3, <3>1 DEF Assign
      <4>2. x.at = w.at
        BY <2>2, <4>1 DEF Writes
      <4> QED
        BY <2>3, <4>1, <4>2 DEF LevelStays
    <3>2. CASE Commit(w)
      <4>1. x = [w EXCEPT !.do = "read"] /\ w.back
        BY <2>3, <3>2 DEF Commit, Through
      <4>2. x.at = w.at
        BY <2>2, <4>1 DEF Writes
      <4> QED
        BY <2>3, <4>1, <4>2 DEF LevelStays
    <3>3. CASE ReadBack(w)
      BY <2>3, <3>3 DEF ReadBack, Through
    <3> QED
      BY <1>10, <3>1, <3>2, <3>3
  <2>4. (\E x \in todo' : ~LevelStays(x)) => \E x \in todo : ~LevelStays(x)
    BY <2>3
  <2> QED
    BY <2>1, <2>4 DEF DarkInv
<1> QED
  BY <1>3, <1>4, <1>5, <1>6, <1>7, <1>8, <1>9, <1>10, StepEffects DEF CommandStep

LEMMA InitDark == ASSUME Init PROVE DarkInv
BY StoresActual DEF Init, DarkInv

\* When no fade and no command is left, the lamp burns as the level says, give
\* or take a step, after any sequence of operations, fades and failures, but
\* for the four things upset tells of.
THEOREM LampIsAtItsLevel == Spec => []LampShowsLevel
<1>1. Init => Types /\ OneInv /\ AimInv /\ DarkInv
  BY InitTypes, InitOne, InitAims, InitDark
<1>2. Types /\ OneInv /\ AimInv /\ DarkInv /\ [Next]_vars => (Types /\ OneInv /\ AimInv /\ DarkInv)'
  BY StepTypes, StepKeepsOne, StepKeepsAim, StepKeepsDark
<1>3. AimInv => LampShowsLevel
  BY DEF AimInv, LampShowsLevel, Shows, Settled, Lit, Quiet
<1> QED
  BY <1>1, <1>2, <1>3, PTL DEF Spec
=============================================================================

------------------------- MODULE DaliReceiverProofs -------------------------
(***************************************************************************)
(* What is proved of DaliReceiver for every set of frames, every reply and *)
(* every bound: whatever happens on the line, end_clock hands over only    *)
(* packages whose type fits their length, and it hands over every frame    *)
(* that finds it ready and is left alone, bit by bit.                      *)
(***************************************************************************)
EXTENDS DaliReceiver, SequenceTheorems, TLAPS

\* The types of the variables end_clock works on.
DecoderTypes ==
    /\ startBit \in BOOLEAN /\ startBitBegin \in BOOLEAN
    /\ clock \in {"off", "armed", "due", "early"}
    /\ count \in Nat /\ max \in {22, 38, 54} /\ shift \in Seq(Bit)
    /\ delivered \in Seq(PackageSet)

\* The inductive invariant: PackageWellFormed alone says nothing of the frame
\* being received, DecoderPhase does.
DecoderInv == DecoderTypes /\ DecoderPhase /\ PackageWellFormed

\* The line is always at one of its two levels.
LEMMA LevelIsBit == \A p, o, h : Line(p, o, h) \in Bit
BY DEF Line, Bit

LEMMA DecoderInitially == Init => DecoderInv
<1> SUFFICES ASSUME Init PROVE DecoderInv
  OBVIOUS
<1>1. DecoderTypes
  BY EmptySeq DEF Init, DecoderTypes, Bit
<1>2. Len(shift) = count \div 2 /\ Len(delivered) = 0
  BY DEF Init
<1>3. DecoderPhase
  BY <1>2 DEF Init, DecoderPhase
<1>4. PackageWellFormed
  BY <1>2 DEF PackageWellFormed
<1> QED
  BY <1>1, <1>3, <1>4 DEF DecoderInv

\* A package built at the end of a reception fits its type: end_clock stops
\* at 23, 39 or 55, where 11, 19 or 27 samples were taken.
LEMMA PackageFits ==
    ASSUME DecoderInv, count + 1 > NewMax(count + 1)
    PROVE  /\ Package(count + 1, Samples(count + 1)) \in PackageSet
           /\ Len(Package(count + 1, Samples(count + 1)).bits)
                = Width(Package(count + 1, Samples(count + 1)).type)
<1> DEFINE n == count + 1
           s == Samples(n)
           short == SubSeq(s, 1, Len(s) - 3)
<1>1. n \in {23, 39, 55} /\ count \in {22, 38, 54}
  BY DEF DecoderInv, DecoderTypes, DecoderPhase, NewMax
<1>2. s = shift
  BY <1>1 DEF Samples
<1>3. s \in Seq(Bit) /\ Len(s) = (IF n = 23 THEN 11 ELSE IF n = 39 THEN 19 ELSE 27)
  BY <1>1, <1>2 DEF DecoderInv, DecoderTypes, DecoderPhase
<1>4. short \in Seq(Bit) /\ Len(short) = Len(s) - 3
  <2>1. \A i \in 1..(Len(s) - 3) : s[i] \in Bit
    BY <1>1, <1>3, ElementOfSeq
  <2> HIDE DEF s
  <2> QED
    BY <1>1, <1>3, <2>1, SubSeqProperties
<1>5. Package(n, s) = [type |-> IF n = 23 THEN "BLOCK_8"
                                ELSE IF n = 39 THEN "BLOCK_16" ELSE "BLOCK_24",
                       bits |-> short]
  BY DEF Package
<1> HIDE DEF short, n, s
<1>6. Package(n, s) \in PackageSet
  BY <1>4, <1>5 DEF PackageSet
<1>7. Len(Package(n, s).bits) = Width(Package(n, s).type)
  <2>1. Len(short) = (IF n = 23 THEN 8 ELSE IF n = 39 THEN 16 ELSE 24)
    BY <1>1, <1>3, <1>4
  <2>2. /\ Package(n, s).bits = short
        /\ Package(n, s).type = IF n = 23 THEN "BLOCK_8"
                                ELSE IF n = 39 THEN "BLOCK_16" ELSE "BLOCK_24"
    BY <1>5
  <2>3. n \in {23, 39, 55}
    BY <1>1
  <2> QED
    BY <2>1, <2>2, <2>3 DEF Width
<1> QED
  BY <1>6, <1>7 DEF n, s

-----------------------------------------------------------------------------
\* An action that leaves the decoder's variables alone.
LEMMA DecoderUntouched ==
    ASSUME DecoderInv,
           UNCHANGED <<startBit, startBitBegin, clock, count, max, shift, delivered>>
    PROVE  DecoderInv'
BY DEF DecoderInv, DecoderTypes, DecoderPhase, PackageWellFormed

\* An edge starts the clock together with start_bit, and only from rest.
LEMMA DecoderOnEdge ==
    ASSUME DecoderInv, NEW level, Edge(level),
           UNCHANGED <<count, max, shift, delivered>>,
           clock' \in {"off", "armed", "due", "early"},
           startBit' <=> clock' # "off"
    PROVE  DecoderInv'
<1>1. startBit' \in BOOLEAN /\ startBitBegin' \in BOOLEAN /\ (startBit => startBit')
  BY DEF Edge, int_handler, DecoderInv, DecoderTypes
<1>2. DecoderTypes'
  BY <1>1 DEF DecoderInv, DecoderTypes
<1>3. DecoderPhase'
  BY <1>1 DEF DecoderInv, DecoderTypes, DecoderPhase
<1>4. PackageWellFormed'
  BY DEF DecoderInv, PackageWellFormed
<1> QED
  BY <1>2, <1>3, <1>4 DEF DecoderInv

\* A tick of end_clock, whichever of the two kinds.
LEMMA DecoderOnTick ==
    ASSUME DecoderInv, NEW next \in {"armed", "early"}, clock # "off",
           end_clock(next)
    PROVE  DecoderInv'
<1> DEFINE n == count + 1
<1>1. startBit /\ startBitBegin' = startBitBegin
  BY DEF DecoderInv, DecoderPhase, end_clock
<1>2. CASE n > NewMax(n)
  <2>1. HandOver(n) /\ clock' = "off"
    BY <1>2 DEF end_clock
  <2>2. Package(n, Samples(n)) \in PackageSet
        /\ Len(Package(n, Samples(n)).bits) = Width(Package(n, Samples(n)).type)
    BY <1>2, PackageFits
  <2>3. delivered' = Append(delivered, Package(n, Samples(n)))
    BY <2>1 DEF HandOver, Restart
  <2>4. delivered \in Seq(PackageSet)
    BY DEF DecoderInv, DecoderTypes
  <2> DEFINE p == Package(n, Samples(n))
  <2> HIDE DEF p
  <2>5. p \in PackageSet /\ Len(p.bits) = Width(p.type) /\ delivered' = Append(delivered, p)
    BY <2>2, <2>3 DEF p
  <2>6. delivered' \in Seq(PackageSet)
    BY <2>4, <2>5
  <2>7. PackageWellFormed'
    <3> SUFFICES ASSUME NEW i \in 1..Len(delivered')
                 PROVE  Len(delivered'[i].bits) = Width(delivered'[i].type)
      BY DEF PackageWellFormed
    <3>1. CASE i = Len(delivered) + 1
      BY <2>4, <2>5, <3>1
    <3>2. CASE i \in 1..Len(delivered)
      BY <2>4, <2>5, <3>2 DEF DecoderInv, PackageWellFormed
    <3> QED
      BY <2>4, <2>5, <3>1, <3>2
  <2>8. DecoderTypes'
    BY <1>1, <2>1, <2>6, EmptySeq DEF HandOver, Restart, DecoderInv, DecoderTypes
  <2>9. DecoderPhase'
    BY <2>1 DEF HandOver, Restart, DecoderPhase
  <2> QED
    BY <2>7, <2>8, <2>9 DEF DecoderInv
<1>3. CASE ~(n > NewMax(n))
  <2>1. Counting(n) /\ clock' = next
    BY <1>3 DEF end_clock
  <2>2. /\ startBit' = startBit /\ delivered' = delivered
        /\ count' = n /\ shift' = Samples(n) /\ max' = NewMax(n)
    BY <2>1 DEF Counting, mailbox
  <2>3. /\ count \in Nat /\ max \in {22, 38, 54} /\ shift \in Seq(Bit)
        /\ Len(shift) = count \div 2 /\ count <= max
        /\ (max = 38 => count >= 21) /\ (max = 54 => count >= 38)
    BY DEF DecoderInv, DecoderTypes, DecoderPhase
  <2>4. Samples(n) \in Seq(Bit) /\ Len(Samples(n)) = n \div 2
    <3>1. CASE n % 2 = 0
      <4>1. Samples(n) = Append(shift, Level) /\ Level \in Bit
        BY <3>1, LevelIsBit DEF Samples, Level
      <4>2. Append(shift, Level) \in Seq(Bit) /\ Len(Append(shift, Level)) = Len(shift) + 1
        BY <2>3, <4>1
      <4> QED
        BY <2>3, <3>1, <4>1, <4>2
    <3>2. CASE n % 2 # 0
      BY <2>3, <3>2 DEF Samples
    <3> QED
      BY <3>1, <3>2
  <2>5. /\ NewMax(n) \in {22, 38, 54} /\ n <= NewMax(n)
        /\ (NewMax(n) = 38 => n >= 21) /\ (NewMax(n) = 54 => n >= 38)
    BY <1>3, <2>3 DEF NewMax
  <2>6. DecoderTypes'
    BY <1>1, <2>1, <2>2, <2>3, <2>4, <2>5 DEF DecoderInv, DecoderTypes
  <2>7. DecoderPhase'
    BY <1>1, <2>1, <2>2, <2>4, <2>5 DEF DecoderPhase
  <2>8. PackageWellFormed'
    BY <2>2 DEF DecoderInv, PackageWellFormed
  <2> QED
    BY <2>6, <2>7, <2>8 DEF DecoderInv
<1> QED
  BY <1>2, <1>3

LEMMA DecoderStep == DecoderInv /\ [Next]_vars => DecoderInv'
<1> SUFFICES ASSUME DecoderInv, [Next]_vars
             PROVE  DecoderInv'
  OBVIOUS
<1>1. CASE HalfPeriod
  <2>1. Edge(Line(peer', own', hat)) /\ UNCHANGED <<count, max, shift, delivered>>
    BY <1>1 DEF HalfPeriod, mailbox
  <2>2. startBit' \in BOOLEAN /\ (startBit => startBit')
    BY <2>1 DEF Edge, int_handler, DecoderInv, DecoderTypes
  <2>3. /\ clock' \in {"off", "armed", "due", "early"}
        /\ startBit' <=> clock' # "off"
    BY <1>1, <2>2 DEF HalfPeriod, DecoderInv, DecoderTypes, DecoderPhase
  <2> QED
    BY <2>1, <2>3, DecoderOnEdge
<1>2. ASSUME NEW h \in BOOLEAN, Supply(h)
      PROVE  DecoderInv'
  <2>1. Edge(Line(peer, own, h)) /\ UNCHANGED <<count, max, shift, delivered>>
    BY <1>2 DEF Supply, mailbox
  <2>2. startBit' \in BOOLEAN /\ (startBit => startBit')
    BY <2>1 DEF Edge, int_handler, DecoderInv, DecoderTypes
  <2>3. /\ clock' \in {"off", "armed", "due", "early"}
        /\ startBit' <=> clock' # "off"
    BY <1>2, <2>2 DEF Supply, DecoderInv, DecoderTypes, DecoderPhase
  <2> QED
    BY <2>1, <2>3, DecoderOnEdge
<1>3. CASE Tick
  BY <1>3, DecoderOnTick DEF Tick
<1>4. CASE EarlyTick
  BY <1>4, DecoderOnTick DEF EarlyTick
<1>5. CASE PeerSend
  BY <1>5, DecoderUntouched DEF PeerSend, decoder, mailbox
<1>6. CASE SemTask
  BY <1>6, DecoderUntouched
     DEF SemTask, SemTake, ReadAddress, ReadData, NoReply, BackwordBegin, ListenBusy,
         ListenFree, ReplySent, Clear, decoder, mailbox
<1>7. CASE AdcTask
  BY <1>7, DecoderUntouched
     DEF AdcTask, AdcCheck, AdcRead1, AdcRead2, AdcRead3, Adc_Olcum, AdcBad,
         AdcGood, AdcVerdict, decoder, mailbox
<1>8. CASE UNCHANGED vars
  BY <1>8, DecoderUntouched DEF vars, decoder, mailbox
<1> QED
  BY <1>1, <1>2, <1>3, <1>4, <1>5, <1>6, <1>7, <1>8
     DEF Next, CutLine, RestoreLine

\* The inductive invariant holds in every reachable state.
THEOREM DecoderCorrect == Spec => []DecoderInv
<1>1. Init => DecoderInv
  BY DecoderInitially
<1>2. DecoderInv /\ [Next]_vars => DecoderInv'
  BY DecoderStep
<1> QED
  BY <1>1, <1>2, PTL DEF Spec

\* For every set of frames and replies, and however often the line fails: a
\* package that end_clock hands over has as many bits as its type says.
THEOREM PackagesWellFormed == Spec => []PackageWellFormed
<1>1. DecoderInv => PackageWellFormed
  BY DEF DecoderInv
<1> QED
  BY <1>1, DecoderCorrect, PTL

\* The samples, the count and the limit of end_clock stay in step.
THEOREM DecoderInPhase == Spec => []DecoderPhase
<1>1. DecoderInv => DecoderPhase
  BY DEF DecoderInv
<1> QED
  BY <1>1, DecoderCorrect, PTL

-----------------------------------------------------------------------------
(* Type correctness.                                                       *)

\* A list of n ones, and the two half bits of a bit, are waveforms.
LEMMA OnesAreBits == \A n \in Nat : Ones(n) \in Seq(Bit)
BY SeqDef DEF Ones, Bit

\* What another unit, or this one, drives onto the line for a bit sequence.
LEMMA WaveIsBits == \A f \in Seq(Bit) : Wave(f) \in Seq(Bit) /\ ReplyWave(f) \in Seq(Bit)
<1> SUFFICES ASSUME NEW f \in Seq(Bit)
             PROVE  Wave(f) \in Seq(Bit) /\ ReplyWave(f) \in Seq(Bit)
  OBVIOUS
<1> DEFINE data == [i \in 1..(2 * Len(f)) |-> HalfBits(f[(i + 1) \div 2])[2 - (i % 2)]]
<1>1. \A b : HalfBits(b) \in [1..2 -> Bit]
  BY DEF HalfBits, Bit
<1>2. ASSUME NEW i \in 1..(2 * Len(f)) PROVE data[i] \in Bit
  <2>1. 2 - (i % 2) \in 1..2
    OBVIOUS
  <2>2. HalfBits(f[(i + 1) \div 2]) \in [1..2 -> Bit]
    BY <1>1
  <2> QED
    BY <2>1, <2>2
<1>3. data \in [1..(2 * Len(f)) -> Bit]
  BY <1>2
<1>4. data \in Seq(Bit)
  <2>1. 2 * Len(f) \in Nat
    OBVIOUS
  <2> QED
    BY <1>3, <2>1, SeqDef
<1>5. <<1>> \in Seq(Bit) /\ HalfBits(1) \in Seq(Bit)
  BY DEF HalfBits, Bit
<1> HIDE DEF data
<1>6. Ones(12) \in Seq(Bit) /\ Ones(6) \in Seq(Bit)
  BY OnesAreBits
<1>7. <<1>> \o HalfBits(1) \in Seq(Bit)
  BY <1>5, ConcatProperties
<1>8. <<1>> \o HalfBits(1) \o data \in Seq(Bit)
  BY <1>4, <1>7, ConcatProperties
<1>9. <<1>> \o HalfBits(1) \o data \o Ones(12) \in Seq(Bit)
  BY <1>6, <1>8, ConcatProperties
<1>10. Wave(f) \in Seq(Bit)
  BY <1>9 DEF Wave, data
<1> QED
  BY <1>6, <1>10, ConcatProperties DEF ReplyWave

\* Frames, replies and the absent reply are bit sequences.
LEMMA MessagesAreBits == Frames \cup Replies \cup {<<>>} \subseteq Seq(Bit)
<1>1. [1..8 -> Bit] \subseteq Seq(Bit) /\ [1..16 -> Bit] \subseteq Seq(Bit)
      /\ [1..24 -> Bit] \subseteq Seq(Bit)
  BY SeqDef
<1>2. <<>> \in Seq(Bit)
  BY EmptySeq
<1> QED
  BY <1>1, <1>2, FramesAssumption, RepliesAssumption DEF Byte

\* What is left of a waveform after half a bit.
LEMMA LaterIsBits == \A w \in Seq(Bit) : Later(w) \in Seq(Bit)
BY HeadTailProperties DEF Later

LEMMA TypeInitially == Init => TypeOK
<1> SUFFICES ASSUME Init PROVE TypeOK
  OBVIOUS
<1>1. Flags \subseteq BOOLEAN
  BY DEF Init, Flags
<1>2. LineDataOK
  BY EmptySeq DEF Init, LineDataOK, Zero, PackageSet
<1>3. TaskDataOK
  BY EmptySeq DEF Init, TaskDataOK, Zero, PackageSet
<1>4. HistoryOK
  BY EmptySeq DEF Init, HistoryOK
<1> QED
  BY <1>1, <1>2, <1>3, <1>4 DEF TypeOK

\* Every step leaves the flags true or false.
LEMMA FlagsStep == Flags \subseteq BOOLEAN /\ [Next]_vars => Flags' \subseteq BOOLEAN
<1> SUFFICES ASSUME Flags \subseteq BOOLEAN, [Next]_vars
             PROVE  Flags' \subseteq BOOLEAN
  OBVIOUS
<1> USE DEF Flags, bus, decoder, mailbox, replier, gauge, history
<1>1. CASE HalfPeriod
  BY <1>1 DEF HalfPeriod, Edge, int_handler
<1>2. CASE PeerSend
  BY <1>2 DEF PeerSend
<1>3. CASE CutLine
  BY <1>3 DEF CutLine, Supply, Edge, int_handler
<1>4. CASE RestoreLine
  BY <1>4 DEF RestoreLine, Supply, Edge, int_handler
<1>5. CASE Tick
  BY <1>5 DEF Tick, end_clock, HandOver, Restart, Counting
<1>6. CASE EarlyTick
  BY <1>6 DEF EarlyTick, end_clock, HandOver, Restart, Counting
<1>7. CASE SemTask
  BY <1>7 DEF SemTask, SemTake, ReadAddress, ReadData, NoReply, BackwordBegin, ListenBusy,
              ListenFree, ReplySent, Clear
<1>8. CASE AdcTask
  BY <1>8 DEF AdcTask, AdcCheck, AdcRead1, AdcRead2, AdcRead3, Adc_Olcum,
              AdcBad, AdcGood, AdcVerdict, Report, RxSwitch
<1>9. CASE UNCHANGED vars
  BY <1>9 DEF vars
<1> QED
  BY <1>1, <1>2, <1>3, <1>4, <1>5, <1>6, <1>7, <1>8, <1>9 DEF Next

\* Every step keeps the data of the line and of the decoder in their types.
LEMMA LineDataStep ==
    LineDataOK /\ TaskDataOK /\ DecoderInv /\ DecoderInv' /\ [Next]_vars => LineDataOK'
<1> SUFFICES ASSUME LineDataOK, TaskDataOK, DecoderInv, DecoderInv', [Next]_vars
             PROVE  LineDataOK'
  OBVIOUS
<1> USE DEF bus, decoder, mailbox, replier, gauge, history
<1>1. /\ clock' \in {"off", "armed", "due", "early"}
      /\ count' \in 0..54 /\ max' \in {22, 38, 54} /\ shift' \in Seq(Bit)
  <2>1. count' \in Nat /\ max' \in {22, 38, 54} /\ count' <= max'
    BY DEF DecoderInv, DecoderTypes, DecoderPhase
  <2> QED
    BY <2>1 DEF DecoderInv, DecoderTypes
<1>2. peer' \in Seq(Bit) /\ own' \in Seq(Bit)
  <2>1. CASE HalfPeriod
    BY <2>1, LaterIsBits DEF HalfPeriod, LineDataOK
  <2>2. CASE PeerSend
    BY <2>2, WaveIsBits, MessagesAreBits DEF PeerSend, LineDataOK
  <2>3. CASE ListenFree
    BY <2>3, WaveIsBits, MessagesAreBits DEF ListenFree, LineDataOK, TaskDataOK
  <2>4. CASE UNCHANGED <<peer, own>>
    BY <2>4 DEF LineDataOK
  <2> QED
    BY <2>1, <2>2, <2>3, <2>4
       DEF Next, CutLine, RestoreLine, Supply, Tick, EarlyTick, end_clock,
           SemTask, SemTake, ReadAddress, ReadData, NoReply, BackwordBegin, ListenBusy,
           ReplySent, Clear, AdcTask, AdcCheck, AdcRead1, AdcRead2, AdcRead3,
           Adc_Olcum, AdcBad, AdcGood, AdcVerdict, vars
<1>3. gelen' \in PackageSet
  <2>1. ASSUME NEW next \in {"armed", "early"}, end_clock(next)
        PROVE  gelen' \in PackageSet
    BY <2>1, PackageFits DEF end_clock, HandOver, Restart, Counting, LineDataOK
  <2>2. CASE Clear
    BY <2>2, EmptySeq DEF Clear, Zero, PackageSet
  <2>3. CASE UNCHANGED gelen
    BY <2>3 DEF LineDataOK
  <2> QED
    BY <2>1, <2>2, <2>3
       DEF Next, HalfPeriod, PeerSend, CutLine, RestoreLine, Supply, Tick,
           EarlyTick, SemTask, SemTake, ReadAddress, ReadData, NoReply, BackwordBegin,
           ListenBusy, ListenFree, ReplySent, AdcTask, AdcCheck, AdcRead1,
           AdcRead2, AdcRead3, Adc_Olcum, AdcBad, AdcGood, AdcVerdict, vars
<1> QED
  BY <1>1, <1>2, <1>3 DEF LineDataOK

\* Every step keeps the data of the two tasks in their types.
LEMMA TaskDataStep == LineDataOK /\ TaskDataOK /\ HistoryOK /\ [Next]_vars => TaskDataOK'
<1> SUFFICES ASSUME LineDataOK, TaskDataOK, HistoryOK, [Next]_vars
             PROVE  TaskDataOK'
  OBVIOUS
<1> USE DEF bus, decoder, mailbox, replier, gauge, history
<1>1. CASE HalfPeriod
  BY <1>1 DEF HalfPeriod, TaskDataOK
<1>2. CASE SemTask
  <2>1. CASE ReadAddress
    BY <2>1 DEF ReadAddress, TaskDataOK, LineDataOK
  <2>2. CASE ReadData
    <3>1. Zero \in PackageSet
      BY EmptySeq DEF Zero, PackageSet
    <3> HIDE DEF replier
    <3>2. reply' \in Replies \cup {<<>>}
      BY <2>2 DEF ReadData
    <3> USE DEF replier
    <3> QED
      BY <2>2, <3>1, <3>2 DEF ReadData, TaskDataOK
  <2>3. CASE SemTake \/ NoReply \/ BackwordBegin \/ ListenBusy \/ ListenFree
             \/ ReplySent \/ Clear
    BY <2>3 DEF SemTake, NoReply, BackwordBegin, ListenBusy, ListenFree,
                ReplySent, Clear, TaskDataOK
  <2> QED
    BY <1>2, <2>1, <2>2, <2>3 DEF SemTask
<1>3. CASE AdcTask
  BY <1>3 DEF AdcTask, AdcCheck, AdcRead1, AdcRead2, AdcRead3, Adc_Olcum,
              AdcBad, AdcGood, AdcVerdict, Report, Post, TaskDataOK, HistoryOK
<1>4. CASE UNCHANGED <<task, adres, reply, listened, adc, adcFrame, told>>
  BY <1>4 DEF TaskDataOK
<1> QED
  BY <1>1, <1>2, <1>3, <1>4
     DEF Next, PeerSend, CutLine, RestoreLine, Supply, Tick, EarlyTick,
         end_clock, vars

\* Every step keeps the histories in their types.
LEMMA HistoryStep ==
    LineDataOK /\ TaskDataOK /\ HistoryOK /\ DecoderInv' /\ [Next]_vars => HistoryOK'
<1> SUFFICES ASSUME LineDataOK, TaskDataOK, HistoryOK, DecoderInv', [Next]_vars
             PROVE  HistoryOK'
  OBVIOUS
<1> USE DEF bus, decoder, mailbox, replier, gauge, history
<1>1. delivered' \in Seq(PackageSet)
  BY DEF DecoderInv, DecoderTypes
<1>2. CASE PeerSend
  BY <1>1, <1>2, LenProperties DEF PeerSend, HistoryOK
<1>3. CASE CutLine \/ RestoreLine
  <2>1. cuts' = cuts \/ cuts' = cuts + 1
    BY <1>3 DEF CutLine, RestoreLine
  <2>2. UNCHANGED <<frames, sent, mark, handled>>
    BY <1>3 DEF CutLine, RestoreLine, Supply
  <2> QED
    BY <1>1, <2>1, <2>2 DEF HistoryOK
<1>4. CASE ReadData
  <2>1. [address |-> adres, data |-> gelen] \in CallSet
    BY DEF LineDataOK, TaskDataOK, CallSet
  <2> QED
    BY <1>1, <1>4, <2>1 DEF ReadData, HistoryOK
<1>5. CASE UNCHANGED <<frames, cuts, sent, mark, handled>>
  BY <1>1, <1>5 DEF HistoryOK
<1> QED
  BY <1>2, <1>3, <1>4, <1>5
     DEF Next, HalfPeriod, Tick, EarlyTick, end_clock, SemTask, SemTake,
         ReadAddress, NoReply, BackwordBegin, ListenBusy, ListenFree, ReplySent,
         Clear, AdcTask, AdcCheck, AdcRead1, AdcRead2, AdcRead3, Adc_Olcum,
         AdcBad, AdcGood, AdcVerdict, vars

\* Every reachable state of the driver is well typed, for all constants; the
\* counter of end_clock never passes 54.
THEOREM TypeCorrect == Spec => []TypeOK
<1>1. Init => TypeOK
  BY TypeInitially
<1>2. TypeOK /\ DecoderInv /\ DecoderInv' /\ [Next]_vars => TypeOK'
  BY FlagsStep, LineDataStep, TaskDataStep, HistoryStep DEF TypeOK
<1> QED
  BY <1>1, <1>2, DecoderCorrect, PTL DEF Spec
-----------------------------------------------------------------------------
(* A clean frame.  The half bits that are still to come, the count and the *)
(* samples are held against the wave of the frame, half bit by half bit.   *)

\* Half bit i of the data of f, and of the stop bits behind it.
Half(f, i) == IF i <= 2 * Len(f) THEN HalfBits(f[(i + 1) \div 2])[2 - (i % 2)] ELSE 1

\* The line when d half bits of the wave of f have passed.
At(f, d) == IF d = 0 THEN 1 ELSE IF d = 1 THEN 0 ELSE IF d = 2 THEN 1 ELSE Half(f, d - 2)

WaveLength(f) == 2 * Len(f) + 15

\* The lengths a frame may have.
LEMMA FrameLengths == \A f \in Frames : f \in Seq(Bit) /\ Len(f) \in {8, 16, 24}
<1> SUFFICES ASSUME NEW f \in Frames PROVE f \in Seq(Bit) /\ Len(f) \in {8, 16, 24}
  OBVIOUS
<1>1. f \in Seq(Bit)
  BY MessagesAreBits
<1>2. DOMAIN f \in {1..8, 1..16, 1..24}
  BY FramesAssumption
<1>3. Len(f) \in Nat /\ DOMAIN f = 1..Len(f)
  BY <1>1, LenProperties
<1>4. PICK n \in {8, 16, 24} : 1..Len(f) = 1..n
  BY <1>2, <1>3
<1>5. n \in 1..Len(f) /\ n + 1 \notin 1..Len(f)
  BY <1>4
<1>6. \A l \in Nat, m \in {8, 16, 24} : m \in 1..l /\ m + 1 \notin 1..l => l = m
  OBVIOUS
<1>7. Len(f) = n
  BY <1>3, <1>5, <1>6
<1> QED
  BY <1>1, <1>7

\* A bit changes the line in its middle, to its own value; the rest is high.
LEMMA HalvesOfBits ==
    ASSUME NEW f \in Frames, NEW i \in Nat \ {0}
    PROVE  /\ Half(f, i) \in Bit
           /\ i > 2 * Len(f) => Half(f, i) = 1
           /\ i % 2 = 0 => Half(f, i) = IF i \div 2 <= Len(f) THEN f[i \div 2] ELSE 1
           /\ i % 2 = 1 /\ i < 2 * Len(f) => Half(f, i) # Half(f, i + 1)
<1>1. /\ \A b \in Bit : HalfBits(b)[1] = 1 - b /\ HalfBits(b)[2] = b
      /\ \A b \in Bit : HalfBits(b)[1] \in Bit /\ HalfBits(b)[2] \in Bit
  BY DEF HalfBits, Bit
<1>2. Len(f) \in {8, 16, 24} /\ \A k \in 1..Len(f) : f[k] \in Bit
  BY FrameLengths, ElementOfSeq
<1>3. CASE i > 2 * Len(f)
  <2>1. Half(f, i) = 1 /\ ~(i < 2 * Len(f))
    BY <1>2, <1>3 DEF Half
  <2>2. i % 2 = 0 => ~(i \div 2 <= Len(f))
    BY <1>2, <1>3
  <2> QED
    BY <1>3, <2>1, <2>2 DEF Bit
<1>4. CASE i <= 2 * Len(f) /\ i % 2 = 0
  <2>1. (i + 1) \div 2 = i \div 2 /\ i \div 2 \in 1..Len(f) /\ 2 - (i % 2) = 2
    BY <1>2, <1>4
  <2>2. Half(f, i) = HalfBits(f[i \div 2])[2]
    BY <1>4, <2>1 DEF Half
  <2> QED
    BY <1>1, <1>2, <1>4, <2>1, <2>2
<1>5. CASE i <= 2 * Len(f) /\ i % 2 = 1
  <2> DEFINE k == (i + 1) \div 2
  <2>1. /\ k \in 1..Len(f) /\ 2 - (i % 2) = 1
        /\ (i + 1 + 1) \div 2 = k /\ 2 - ((i + 1) % 2) = 2 /\ i + 1 <= 2 * Len(f)
    BY <1>2, <1>5
  <2>2. Half(f, i) = HalfBits(f[k])[1] /\ Half(f, i + 1) = HalfBits(f[k])[2]
    BY <1>5, <2>1 DEF Half
  <2> HIDE DEF k
  <2>3. Half(f, i) = 1 - f[k] /\ Half(f, i + 1) = f[k] /\ f[k] \in {0, 1}
    BY <1>1, <1>2, <2>1, <2>2 DEF Bit
  <2> QED
    BY <1>1, <1>2, <1>5, <2>3 DEF Bit
<1> QED
  BY <1>2, <1>3, <1>4, <1>5

\* The wave, half bit by half bit.
LEMMA WaveAt ==
    ASSUME NEW f \in Frames
    PROVE  /\ Wave(f) \in Seq(Bit) /\ Len(Wave(f)) = WaveLength(f)
           /\ \A i \in 1..WaveLength(f) : Wave(f)[i] = At(f, i - 1)
<1> DEFINE data == [i \in 1..(2 * Len(f)) |-> HalfBits(f[(i + 1) \div 2])[2 - (i % 2)]]
           head == <<1>> \o HalfBits(1)
           n    == 2 * Len(f)
<1>1. f \in Seq(Bit) /\ Len(f) \in {8, 16, 24} /\ n \in Nat
  BY FrameLengths
<1>2. head \in Seq(Bit) /\ Len(head) = 3 /\ head[1] = 1 /\ head[2] = 0 /\ head[3] = 1
  <2>1. <<1>> \in Seq(Bit) /\ Len(<<1>>) = 1 /\ <<1>>[1] = 1
    BY DEF Bit
  <2>2. /\ HalfBits(1) \in Seq(Bit) /\ Len(HalfBits(1)) = 2
        /\ HalfBits(1)[1] = 0 /\ HalfBits(1)[2] = 1
    BY DEF HalfBits, Bit
  <2> DEFINE a == <<1>>
             b == HalfBits(1)
  <2> HIDE DEF a, b
  <2>3. /\ a \o b \in Seq(Bit) /\ Len(a \o b) = Len(a) + Len(b)
        /\ \A i \in 1..(Len(a) + Len(b)) : (a \o b)[i] = IF i <= Len(a) THEN a[i] ELSE b[i - Len(a)]
    BY <2>1, <2>2, ConcatProperties DEF a, b
  <2>4. Len(a) = 1 /\ a[1] = 1 /\ Len(b) = 2 /\ b[1] = 0 /\ b[2] = 1
    BY <2>1, <2>2 DEF a, b
  <2>5. (a \o b)[1] = 1 /\ (a \o b)[2] = 0 /\ (a \o b)[3] = 1
    BY <2>3, <2>4
  <2> QED
    BY <2>3, <2>4, <2>5 DEF a, b
<1>3. \A i \in 1..n : data[i] = Half(f, i) /\ data[i] \in Bit
  <2> SUFFICES ASSUME NEW i \in 1..n PROVE data[i] = Half(f, i) /\ data[i] \in Bit
    OBVIOUS
  <2>1. i \in Nat \ {0} /\ i <= 2 * Len(f)
    BY <1>1
  <2>2. data[i] = Half(f, i)
    BY <2>1 DEF Half
  <2> QED
    BY <2>1, <2>2, HalvesOfBits
<1>4. data \in Seq(Bit) /\ Len(data) = n
  <2>1. data \in [1..n -> Bit]
    BY <1>3
  <2>2. data \in Seq(Bit)
    BY <1>1, <2>1, SeqDef
  <2> QED
    BY <1>1, <2>2, LenProperties
<1>5. Ones(12) \in Seq(Bit) /\ Len(Ones(12)) = 12 /\ \A i \in 1..12 : Ones(12)[i] = 1
  <2>1. Ones(12) \in Seq(Bit) /\ DOMAIN Ones(12) = 1..12
    BY OnesAreBits DEF Ones
  <2> QED
    BY <2>1, LenProperties DEF Ones
<1>7. Wave(f) = (head \o data) \o Ones(12)
  BY DEF Wave
<1>8. n = 2 * Len(f)
  OBVIOUS
<1> HIDE DEF data, head, n
<1> DEFINE front == head \o data
<1>9. /\ front \in Seq(Bit) /\ Len(front) = n + 3
      /\ \A i \in 1..(n + 3) : front[i] = IF i <= 3 THEN head[i] ELSE data[i - 3]
  <2>1. /\ head \o data \in Seq(Bit) /\ Len(head \o data) = Len(head) + Len(data)
        /\ \A i \in 1..(Len(head) + Len(data)) :
              (head \o data)[i] = IF i <= Len(head) THEN head[i] ELSE data[i - Len(head)]
    BY <1>2, <1>4, ConcatProperties
  <2> QED
    BY <1>1, <1>2, <1>4, <2>1
<1> HIDE DEF front
<1>10. /\ Wave(f) \in Seq(Bit) /\ Len(Wave(f)) = n + 15
       /\ \A i \in 1..(n + 15) : Wave(f)[i] = IF i <= n + 3 THEN front[i] ELSE Ones(12)[i - (n + 3)]
  <2> DEFINE back == Ones(12)
  <2> HIDE DEF back
  <2>1. /\ front \o back \in Seq(Bit) /\ Len(front \o back) = Len(front) + Len(back)
        /\ \A i \in 1..(Len(front) + Len(back)) :
              (front \o back)[i] = IF i <= Len(front) THEN front[i] ELSE back[i - Len(front)]
    BY <1>5, <1>9, ConcatProperties DEF back
  <2>2. Wave(f) = front \o back /\ Len(back) = 12 /\ Len(front) = n + 3
    BY <1>5, <1>7, <1>9 DEF front, back
  <2> QED
    <3>1. Len(front) + Len(back) = n + 15
      BY <1>1, <2>2
    <3>2. \A i \in 1..(n + 15) : Wave(f)[i] = IF i <= n + 3 THEN front[i] ELSE back[i - (n + 3)]
      BY <2>1, <2>2, <3>1
    <3>3. Wave(f) \in Seq(Bit) /\ Len(Wave(f)) = n + 15
      BY <2>1, <2>2, <3>1
    <3> QED
      BY <3>2, <3>3 DEF back
<1>11. ASSUME NEW i \in 1..(n + 15) PROVE Wave(f)[i] = At(f, i - 1)
  <2>1. CASE i <= 3
    <3>1. Wave(f)[i] = head[i]
      BY <1>1, <1>9, <1>10, <2>1
    <3> QED
      BY <1>2, <2>1, <3>1 DEF At
  <2>2. CASE i > 3 /\ i <= n + 3
    <3>1. Wave(f)[i] = data[i - 3] /\ i - 3 \in 1..n /\ (i - 1) - 2 = i - 3
      BY <1>1, <1>9, <1>10, <2>2
    <3> QED
      BY <1>3, <2>2, <3>1 DEF At
  <2>3. CASE i > n + 3
    <3>1. Wave(f)[i] = 1 /\ i - (n + 3) \in 1..12
      BY <1>1, <1>5, <1>10, <2>3
    <3>2. Half(f, (i - 1) - 2) = 1
      BY <1>1, <1>8, <2>3 DEF Half
    <3> QED
      BY <1>1, <2>3, <3>1, <3>2 DEF At
  <2> QED
    BY <1>1, <2>1, <2>2, <2>3
<1> QED
  BY <1>8, <1>10, <1>11 DEF WaveLength
\* How much of the wave of the frame has passed, and what is to come.
Passed == WaveLength(sent) - Len(peer)

OnWire == /\ sent \in Frames /\ Len(peer) <= WaveLength(sent)
          /\ \A i \in 1..Len(peer) : peer[i] = At(sent, Passed + i - 1)

\* Nobody else has the line.
Alone == hat /\ own = <<>> /\ task \notin {"listen", "sending"}

\* The start bit: its first edge is only remembered.
AtStart == /\ ~startBit /\ rxIntr /\ Passed \in {0, 1} /\ Len(delivered) = mark
           /\ Passed = 1 => startBitBegin

\* The clock counts half bits from the middle of the start bit; a tick may
\* still be due, or have come early.
InStep == /\ clock = "armed" => count = Passed - 2
          /\ clock = "due"   => count = Passed - 3
          /\ clock = "early" => count = Passed - 1 /\ count % 2 = 1

Sampled == \A k \in 1..Len(shift) : shift[k] = IF k <= Len(sent) THEN sent[k] ELSE 1

Window == 18..20 \cup 35..37

\* max has grown for a frame that is longer, and only for that: the middle of
\* one of its bits has been seen in each window before it closes.
Lengthened ==
    /\ max = IF count < 21 \/ Len(sent) = 8 THEN 22
             ELSE IF count < 38 \/ Len(sent) = 16 THEN 38 ELSE 54
    /\ rxIntr <=> count \in Window
    /\ cont => count \in Window /\ Len(sent) # 8 /\ (count > 20 => Len(sent) = 24)
    /\ Len(sent) # 8 /\ count \in 18..20 /\ Passed >= 22 => cont
    /\ Len(sent) = 24 /\ count \in 35..37 /\ Passed >= 38 => cont

Receiving == startBit /\ Len(delivered) = mark /\ InStep /\ Sampled /\ Lengthened

\* The frame is handed over; only stop bits are still to come.
Received == /\ ~startBit /\ Passed >= 2 * Len(sent) + 3
            /\ Len(delivered) = mark + 1 /\ delivered[mark + 1] = Framed(sent)

CleanInv == /\ ~startBit => ~cont
            /\ clean => OnWire /\ Alone /\ (AtStart \/ Receiving \/ Received)

\* The present half bit, and the one after it.
LEMMA OnWirePasses ==
    ASSUME LineDataOK, OnWire
    PROVE  /\ Present(peer) = At(sent, Passed)
           /\ Passed \in 0..WaveLength(sent)
           /\ peer = <<>> <=> Passed = WaveLength(sent)
           /\ peer' = Later(peer) /\ sent' = sent =>
                 /\ OnWire' /\ Present(peer') = At(sent, Passed')
                 /\ Passed' = IF peer = <<>> THEN Passed ELSE Passed + 1
<1>1. sent \in Frames /\ Len(sent) \in {8, 16, 24} /\ WaveLength(sent) \in Nat
  BY FrameLengths DEF OnWire, WaveLength
<1>2. peer \in Seq(Bit) /\ Len(peer) \in Nat /\ (peer = <<>> <=> Len(peer) = 0)
  BY LenProperties, EmptySeq DEF LineDataOK
<1>3. Passed \in 0..WaveLength(sent) /\ (peer = <<>> <=> Passed = WaveLength(sent))
  BY <1>1, <1>2 DEF Passed, OnWire
<1>4. At(sent, WaveLength(sent)) = 1
  BY <1>1 DEF At, Half, WaveLength
<1>5. Present(peer) = At(sent, Passed)
  <2>1. CASE peer = <<>>
    BY <1>3, <1>4, <2>1 DEF Present
  <2>2. CASE peer # <<>>
    <3>1. Head(peer) = peer[1] /\ 1 \in 1..Len(peer) /\ Passed + 1 - 1 = Passed
      BY <1>1, <1>2, <1>3, <2>2, HeadTailProperties
    <3>2. peer[1] = At(sent, Passed)
      BY <3>1 DEF OnWire
    <3> QED
      BY <2>2, <3>1, <3>2 DEF Present
  <2> QED
    BY <2>1, <2>2
<1>6. ASSUME peer' = Later(peer), sent' = sent
      PROVE  /\ OnWire' /\ Present(peer') = At(sent, Passed')
             /\ Passed' = IF peer = <<>> THEN Passed ELSE Passed + 1
  <2>1. CASE peer = <<>>
    <3>1. peer' = peer /\ Passed' = Passed
      BY <1>6, <2>1 DEF Later, Passed
    <3> QED
      BY <1>5, <1>6, <2>1, <3>1 DEF OnWire
  <2>2. CASE peer # <<>>
    <3>1. /\ peer' = Tail(peer) /\ Tail(peer) \in Seq(Bit) /\ Len(Tail(peer)) = Len(peer) - 1
          /\ \A i \in 1..Len(Tail(peer)) : Tail(peer)[i] = peer[i + 1]
      BY <1>2, <1>6, <2>2, HeadTailProperties DEF Later
    <3>2. Passed' = Passed + 1 /\ Len(peer') \in Nat /\ Len(peer') = Len(peer) - 1
      BY <1>1, <1>2, <1>6, <2>2, <3>1 DEF Passed
    <3>3. ASSUME NEW i \in 1..Len(peer') PROVE peer'[i] = At(sent, Passed' + i - 1)
      <4>1. i + 1 \in 1..Len(peer) /\ Passed + (i + 1) - 1 = Passed' + i - 1
        BY <1>1, <1>2, <1>3, <3>2
      <4>2. peer[i + 1] = At(sent, Passed + (i + 1) - 1)
        BY <4>1 DEF OnWire
      <4> QED
        BY <3>1, <4>1, <4>2
    <3>4. OnWire'
      BY <1>1, <1>2, <1>6, <3>2, <3>3 DEF OnWire
    <3>5. Present(peer') = At(sent, Passed')
      <4>1. CASE peer' = <<>>
        <5>1. Len(peer) - 1 = 0
          BY <3>2, <4>1, EmptySeq
        <5>2. Len(peer) = 1
          BY <1>2, <5>1
        <5>3. Passed = WaveLength(sent) - 1
          BY <5>2 DEF Passed
        <5>4. Passed' = WaveLength(sent)
          BY <1>1, <3>2, <5>3
        <5> QED
          BY <1>4, <4>1, <5>4 DEF Present
      <4>2. CASE peer' # <<>>
        <5>1. peer' \in Seq(Bit)
          BY <3>1
        <5>2. Head(peer') = peer'[1] /\ Len(peer') # 0
          BY <4>2, <5>1, HeadTailProperties, EmptySeq, LenProperties
        <5>3. 1 \in 1..Len(peer') /\ Passed' + 1 - 1 = Passed'
          BY <1>1, <1>3, <3>2, <5>2
        <5> QED
          BY <3>3, <4>2, <5>2, <5>3 DEF Present
      <4> QED
        BY <4>1, <4>2
    <3> QED
      BY <2>2, <3>2, <3>4, <3>5
  <2> QED
    BY <2>1, <2>2
<1> QED
  BY <1>3, <1>5, <1>6

\* A step that leaves the line and the decoder alone.
LEMMA CleanUntouched ==
    ASSUME CleanInv,
           UNCHANGED <<peer, own, hat, sent, mark, delivered, startBit, startBitBegin,
                       cont, clock, count, max, shift>>,
           clean' => clean /\ rxIntr' = rxIntr /\ task' \notin {"listen", "sending"}
    PROVE  CleanInv'
<1>1. ~startBit' => ~cont'
  BY DEF CleanInv
<1> SUFFICES ASSUME clean' PROVE (OnWire /\ Alone /\ (AtStart \/ Receiving \/ Received))'
  BY <1>1 DEF CleanInv
<1>2. OnWire' /\ Passed' = Passed
  BY DEF CleanInv, OnWire, Passed
<1>3. Alone'
  BY DEF CleanInv, Alone
<1>4. AtStart => AtStart'
  BY <1>2 DEF AtStart
<1>5. Receiving => Receiving'
  BY <1>2 DEF Receiving, InStep, Sampled, Lengthened
<1>6. Received => Received'
  BY <1>2 DEF Received
<1> QED
  BY <1>2, <1>3, <1>4, <1>5, <1>6 DEF CleanInv
\* A reception ends before its wave does.
LEMMA StillOnWire ==
    ASSUME LineDataOK, DecoderInv, OnWire, Receiving
    PROVE  /\ count \in 0..54 /\ Passed \in Nat
           /\ Passed >= count + 1 /\ Passed <= count + 3 /\ Passed < WaveLength(sent)
<1>1. Len(sent) \in {8, 16, 24} /\ WaveLength(sent) = 2 * Len(sent) + 15
  BY FrameLengths DEF OnWire, WaveLength
<1>2. count \in Nat /\ count <= max /\ max = IF count < 21 \/ Len(sent) = 8 THEN 22
             ELSE IF count < 38 \/ Len(sent) = 16 THEN 38 ELSE 54
  BY DEF DecoderInv, DecoderTypes, DecoderPhase, Receiving, Lengthened
<1>3. clock \in {"armed", "due", "early"}
  BY DEF DecoderInv, DecoderTypes, DecoderPhase, Receiving
<1>4. count = Passed - 2 \/ count = Passed - 3 \/ count = Passed - 1
  BY <1>3 DEF Receiving, InStep
<1>5. Passed \in Nat
  BY <1>1, OnWirePasses
<1>6. Passed = count + 1 \/ Passed = count + 2 \/ Passed = count + 3
  BY <1>2, <1>4, <1>5
<1>7. count <= 54 /\ (Len(sent) = 8 => count <= 22) /\ (Len(sent) = 16 => count <= 38)
  BY <1>2
<1>8. Passed < 2 * Len(sent) + 15
  <2>1. CASE Len(sent) = 8
    BY <1>2, <1>6, <1>7, <2>1
  <2>2. CASE Len(sent) = 16
    BY <1>2, <1>6, <1>7, <2>2
  <2>3. CASE Len(sent) = 24
    BY <1>2, <1>6, <1>7, <2>3
  <2> QED
    BY <1>1, <2>1, <2>2, <2>3
<1> QED
  BY <1>1, <1>2, <1>5, <1>6, <1>7, <1>8

\* An edge never marks a receiver at rest as going on.
LEMMA EdgeAtRest ==
    ASSUME NEW level, Edge(level), startBit \in BOOLEAN, ~startBit => ~cont
    PROVE  ~startBit' => ~cont'
BY DEF Edge, int_handler

\* Half a bit passes.
LEMMA CleanOnHalfPeriod ==
    ASSUME TypeOK, DecoderInv, CleanInv, HalfPeriod
    PROVE  CleanInv'
<1>0. startBit \in BOOLEAN /\ rxIntr \in BOOLEAN /\ cont \in BOOLEAN /\ startBitBegin \in BOOLEAN
  BY DEF TypeOK, Flags
<1>1. ~startBit' => ~cont'
  BY <1>0, EdgeAtRest DEF HalfPeriod, CleanInv
<1> SUFFICES ASSUME clean' PROVE (OnWire /\ Alone /\ (AtStart \/ Receiving \/ Received))'
  BY <1>1 DEF CleanInv
<1>2. clean /\ OnWire /\ Alone /\ (AtStart \/ Receiving \/ Received)
  BY DEF HalfPeriod, CleanInv
<1>3. /\ peer' = Later(peer) /\ UNCHANGED <<sent, mark, delivered, count, max, shift, hat, task>>
      /\ own' = <<>>
  BY <1>2 DEF HalfPeriod, mailbox, history, Alone, Later
<1>4. OnWire' /\ Alone'
  BY <1>2, <1>3, OnWirePasses DEF TypeOK, Alone
<1>5. Level = At(sent, Passed) /\ Edge(At(sent, Passed'))
  <2>1. sent \in Frames /\ Passed \in Nat /\ Passed' \in Nat
    BY <1>2, <1>3, OnWirePasses DEF TypeOK, OnWire, WaveLength
  <2> DEFINE now  == At(sent, Passed)
             next == At(sent, Passed')
  <2>2. Present(peer) = now /\ Present(peer') = next
    BY <1>2, <1>3, OnWirePasses DEF TypeOK
  <2>3. now \in {0, 1} /\ next \in {0, 1}
    BY <2>1, HalvesOfBits DEF At, Bit
  <2> HIDE DEF now, next
  <2>4. Level = now /\ Line(peer', own', hat) = next
    BY <1>2, <1>3, <2>2, <2>3 DEF Level, Line, Alone, Present
  <2> QED
    BY <2>4 DEF HalfPeriod, now, next
<1>6. Passed' = IF peer = <<>> THEN Passed ELSE Passed + 1
  BY <1>2, <1>3, OnWirePasses DEF TypeOK
<1>7. Len(sent) \in {8, 16, 24} /\ WaveLength(sent) = 2 * Len(sent) + 15 /\ sent \in Frames
  BY <1>2, FrameLengths DEF OnWire, WaveLength
<1>8. peer = <<>> <=> Passed = WaveLength(sent)
  BY <1>2, OnWirePasses DEF TypeOK
<1>9. CASE AtStart
  <2>1. Passed \in {0, 1} /\ Passed' = Passed + 1 /\ ~startBit /\ rxIntr /\ ~cont
    BY <1>6, <1>7, <1>8, <1>9, <1>2 DEF AtStart, CleanInv
  <2>2. clock = "off" /\ count = 0 /\ max = 22 /\ Len(shift) = 0
    BY <2>1 DEF DecoderInv, DecoderPhase
  <2>3. CASE Passed = 0
    <3>1. At(sent, Passed') # Level /\ At(sent, Passed') # 1
      BY <1>5, <2>1, <2>3 DEF At
    <3>2. startBitBegin' /\ UNCHANGED <<startBit, rxIntr>>
      BY <1>5, <2>1, <3>1, Zenon DEF Edge, int_handler
    <3> QED
      BY <1>3, <1>4, <1>9, <2>1, <2>3, <3>2 DEF AtStart
  <2>4. CASE Passed = 1
    <3>1. At(sent, Passed') # Level /\ At(sent, Passed') = 1
      BY <1>5, <2>1, <2>4 DEF At
    <3>2. startBit' /\ ~rxIntr' /\ cont' = cont
      BY <1>5, <1>9, <2>1, <2>4, <3>1, Zenon DEF Edge, int_handler, AtStart
    <3>3. clock' = "armed"
      BY <2>2, <3>2 DEF HalfPeriod
    <3>4. InStep' /\ Sampled'
      BY <1>3, <2>1, <2>2, <2>4, <3>3 DEF InStep, Sampled
    <3>5. Lengthened'
      BY <1>3, <2>1, <2>2, <3>2 DEF Lengthened, Window
    <3> QED
      BY <1>3, <1>4, <1>9, <3>2, <3>4, <3>5 DEF Receiving, AtStart
  <2> QED
    BY <2>1, <2>3, <2>4
<1>10. CASE Receiving
  <2>1. /\ count \in 0..54 /\ Passed \in Nat /\ Passed' = Passed + 1
        /\ Passed >= count + 1 /\ Passed <= count + 3
    BY <1>2, <1>6, <1>8, <1>10, StillOnWire DEF TypeOK
  <2>2. startBit /\ startBit' = startBit /\ rxIntr' = rxIntr
    BY <1>5, <1>10 DEF Receiving, Edge, int_handler
  <2>3. /\ cont' <=> cont \/ (rxIntr /\ At(sent, Passed + 1) # At(sent, Passed))
        /\ cont => cont'
    BY <1>0, <1>5, <2>1, <2>2 DEF Edge, int_handler
  <2>4. InStep'
    <3>1. clock \in {"armed", "early"} /\ clock' = IF clock = "armed" THEN "due" ELSE "armed"
      BY <2>2 DEF HalfPeriod, DecoderInv, DecoderTypes, DecoderPhase
    <3> QED
      BY <1>3, <1>10, <2>1, <3>1 DEF Receiving, InStep
  <2>5. ASSUME Passed >= 2 * Len(sent) + 3 PROVE At(sent, Passed + 1) = At(sent, Passed)
    BY <1>7, <2>1, <2>5 DEF At, Half
  <2>6. ASSUME Passed \in {21, 37}, Passed - 2 < 2 * Len(sent)
        PROVE  At(sent, Passed + 1) # At(sent, Passed)
    <3>1. /\ Passed - 2 \in Nat \ {0} /\ (Passed - 2) % 2 = 1
          /\ At(sent, Passed) = Half(sent, Passed - 2)
          /\ At(sent, Passed + 1) = Half(sent, (Passed - 2) + 1)
      BY <2>6 DEF At
    <3> QED
      BY <1>7, <2>6, <3>1, HalvesOfBits
  <2>7. Lengthened'
    <3>1. /\ max' = max /\ count' = count /\ sent' = sent
          /\ max = IF count < 21 \/ Len(sent) = 8 THEN 22
                   ELSE IF count < 38 \/ Len(sent) = 16 THEN 38 ELSE 54
          /\ rxIntr' <=> count \in Window
      BY <1>3, <1>10, <2>2 DEF Receiving, Lengthened
    <3>2. cont' => count \in Window /\ Len(sent) # 8 /\ (count > 20 => Len(sent) = 24)
      <4>1. CASE cont
        BY <1>10, <4>1 DEF Receiving, Lengthened
      <4>2. CASE ~cont
        <5> SUFFICES ASSUME cont'
                     PROVE  count \in Window /\ Len(sent) # 8 /\ (count > 20 => Len(sent) = 24)
          OBVIOUS
        <5>1. count \in Window /\ ~(Passed >= 2 * Len(sent) + 3)
          BY <1>10, <2>3, <2>5, <4>2 DEF Receiving, Lengthened
        <5>2. count \in 18..20 \/ count \in 35..37
          BY <5>1 DEF Window
        <5>3. CASE Len(sent) = 8
          BY <2>1, <5>1, <5>2, <5>3
        <5>4. CASE Len(sent) = 16
          BY <2>1, <5>1, <5>2, <5>4
        <5>5. CASE Len(sent) = 24
          BY <5>1, <5>5
        <5> QED
          BY <1>7, <5>3, <5>4, <5>5
      <4> QED
        BY <4>1, <4>2
    <3>3. Len(sent) # 8 /\ count \in 18..20 /\ Passed + 1 >= 22 => cont'
      <4> SUFFICES ASSUME Len(sent) # 8, count \in 18..20, Passed + 1 >= 22
                   PROVE  cont'
        OBVIOUS
      <4>1. CASE Passed >= 22
        BY <1>10, <2>3, <4>1 DEF Receiving, Lengthened
      <4>2. CASE Passed < 22
        <5>0. Passed = 21
          BY <2>1, <4>2
        <5>1. Passed = 21 /\ Passed - 2 < 2 * Len(sent)
          <6>1. CASE Len(sent) = 16
            BY <5>0, <6>1
          <6>2. CASE Len(sent) = 24
            BY <5>0, <6>2
          <6> QED
            BY <1>7, <6>1, <6>2
        <5>2. count \in Window
          BY DEF Window
        <5>3. rxIntr
          BY <1>10, <5>2 DEF Receiving, Lengthened
        <5> QED
          BY <2>3, <2>6, <5>1, <5>3
      <4> QED
        BY <2>1, <4>1, <4>2
    <3>4. Len(sent) = 24 /\ count \in 35..37 /\ Passed + 1 >= 38 => cont'
      <4> SUFFICES ASSUME Len(sent) = 24, count \in 35..37, Passed + 1 >= 38
                   PROVE  cont'
        OBVIOUS
      <4>1. CASE Passed >= 38
        BY <1>10, <2>3, <4>1 DEF Receiving, Lengthened
      <4>2. CASE Passed < 38
        <5>1. Passed = 37 /\ Passed - 2 < 2 * Len(sent)
          BY <1>7, <2>1, <4>2
        <5>2. count \in Window
          BY DEF Window
        <5>3. rxIntr
          BY <1>10, <5>2 DEF Receiving, Lengthened
        <5> QED
          BY <2>3, <2>6, <5>1, <5>3
      <4> QED
        BY <2>1, <4>1, <4>2
    <3> QED
      BY <2>1, <3>1, <3>2, <3>3, <3>4 DEF Lengthened
  <2> QED
    BY <1>3, <1>4, <1>10, <2>2, <2>4, <2>7 DEF Receiving, Sampled
<1>11. CASE Received
  <2>1. Passed \in Nat /\ (Passed' = Passed \/ Passed' = Passed + 1)
    BY <1>2, <1>6, <1>7, OnWirePasses DEF TypeOK
  <2>2. At(sent, Passed') = At(sent, Passed)
    BY <1>7, <1>11, <2>1 DEF Received, At, Half
  <2>3. startBit' = startBit
    BY <1>5, <2>2 DEF Edge
  <2> QED
    BY <1>3, <1>4, <1>7, <1>11, <2>1, <2>3 DEF Received
<1> QED
  BY <1>2, <1>9, <1>10, <1>11
\* What a tick makes of max: it grows when it should.
LEMMA LimitAtTick ==
    ASSUME LineDataOK, DecoderInv, OnWire, Receiving,
           clock = "due" \/ (clock = "armed" /\ count % 2 = 0)
    PROVE  NewMax(count + 1) = IF count + 1 < 21 \/ Len(sent) = 8 THEN 22
                               ELSE IF count + 1 < 38 \/ Len(sent) = 16 THEN 38 ELSE 54
<1>1. Len(sent) \in {8, 16, 24}
  BY FrameLengths DEF OnWire
<1>2. count \in 0..54 /\ Passed \in Nat
  BY StillOnWire
<1>3. Passed = count + 2 \/ Passed = count + 3
  BY <1>2 DEF Receiving, InStep
<1>4. max = IF count < 21 \/ Len(sent) = 8 THEN 22
            ELSE IF count < 38 \/ Len(sent) = 16 THEN 38 ELSE 54
  BY DEF Receiving, Lengthened
<1>5. CASE count + 1 = 21
  <2>1. count = 20 /\ Passed >= 22
    BY <1>2, <1>3, <1>5
  <2>2. cont <=> Len(sent) # 8
    BY <2>1 DEF Receiving, Lengthened
  <2> QED
    BY <1>1, <1>4, <2>1, <2>2 DEF NewMax
<1>6. CASE count + 1 = 38
  <2>1. count = 37 /\ clock = "due"
    BY <1>2, <1>6
  <2>2. Passed >= 38
    BY <1>2, <1>3, <2>1
  <2>3. cont <=> Len(sent) = 24
    BY <2>1, <2>2 DEF Receiving, Lengthened
  <2> QED
    BY <1>1, <1>4, <2>1, <2>3 DEF NewMax
<1>7. CASE count + 1 # 21 /\ count + 1 # 38
  <2>1. NewMax(count + 1) = max
    BY <1>7 DEF NewMax
  <2>2. (count + 1 < 21 <=> count < 21) /\ (count + 1 < 38 <=> count < 38)
    BY <1>2, <1>7
  <2> QED
    BY <1>4, <2>1, <2>2
<1> QED
  BY <1>5, <1>6, <1>7

\* Every second tick samples the bit whose turn it is.
LEMMA SampledAtTick ==
    ASSUME TypeOK, DecoderInv, OnWire, Alone, Receiving,
           clock = "due" \/ (clock = "armed" /\ count % 2 = 0)
    PROVE  /\ Samples(count + 1) \in Seq(Bit)
           /\ Len(Samples(count + 1)) = (count + 1) \div 2
           /\ \A k \in 1..Len(Samples(count + 1)) :
                 Samples(count + 1)[k] = IF k <= Len(sent) THEN sent[k] ELSE 1
<1> DEFINE n == count + 1
<1>1. /\ sent \in Frames /\ shift \in Seq(Bit) /\ Len(shift) = count \div 2
      /\ count \in 0..54 /\ Passed \in Nat
  BY StillOnWire DEF TypeOK, OnWire, DecoderInv, DecoderTypes, DecoderPhase
<1>2. \A k \in 1..Len(shift) : shift[k] = IF k <= Len(sent) THEN sent[k] ELSE 1
  BY DEF Receiving, Sampled
<1>3. CASE n % 2 # 0
  <2>1. Samples(n) = shift /\ (count + 1) \div 2 = count \div 2
    BY <1>1, <1>3 DEF Samples
  <2> QED
    BY <1>1, <1>2, <2>1
<1>4. CASE n % 2 = 0
  <2>1. clock = "due" /\ Passed = n + 2
    BY <1>1, <1>4 DEF Receiving, InStep
  <2>2. Level = Half(sent, n)
    <3>1. Present(peer) = At(sent, Passed) /\ At(sent, Passed) = Half(sent, n)
      <4>1. Present(peer) = At(sent, Passed)
        BY OnWirePasses DEF TypeOK
      <4>2. Passed - 2 = n /\ Passed # 0 /\ Passed # 1 /\ Passed # 2
        BY <1>1, <2>1
      <4> QED
        BY <4>1, <4>2 DEF At
    <3>2. Half(sent, n) \in {0, 1}
      BY <1>1, HalvesOfBits DEF Bit
    <3> QED
      BY <3>1, <3>2 DEF Level, Line, Alone, Present
  <2>3. n \in Nat \ {0} /\ n \div 2 = Len(shift) + 1
    BY <1>1, <1>4
  <2>4. /\ Level = IF Len(shift) + 1 <= Len(sent) THEN sent[Len(shift) + 1] ELSE 1
        /\ Level \in Bit
    BY <1>1, <1>4, <2>2, <2>3, HalvesOfBits
  <2>5. Samples(n) = Append(shift, Level)
    BY <1>4 DEF Samples
  <2>6. /\ Append(shift, Level) \in Seq(Bit) /\ Len(Append(shift, Level)) = Len(shift) + 1
        /\ \A k \in 1..Len(shift) : Append(shift, Level)[k] = shift[k]
        /\ Append(shift, Level)[Len(shift) + 1] = Level
    BY <1>1, <2>4, AppendProperties
  <2>7. ASSUME NEW k \in 1..(Len(shift) + 1)
        PROVE  Append(shift, Level)[k] = IF k <= Len(sent) THEN sent[k] ELSE 1
    <3>1. CASE k = Len(shift) + 1
      BY <2>4, <2>6, <3>1
    <3>2. CASE k \in 1..Len(shift)
      BY <1>2, <2>6, <3>2
    <3> QED
      BY <1>1, <3>1, <3>2
  <2>8. Len(Samples(n)) = Len(shift) + 1 /\ Samples(n) \in Seq(Bit)
    BY <2>5, <2>6
  <2>9. \A k \in 1..(Len(shift) + 1) : Samples(n)[k] = IF k <= Len(sent) THEN sent[k] ELSE 1
    BY <2>5, <2>7
  <2> QED
    BY <2>3, <2>8, <2>9
<1> QED
  BY <1>3, <1>4

\* The package of a frame.
LEMMA FramedIs ==
    ASSUME NEW f \in Frames
    PROVE  Framed(f) = [type |-> IF Len(f) = 8 THEN "BLOCK_8"
                                 ELSE IF Len(f) = 16 THEN "BLOCK_16" ELSE "BLOCK_24",
                        bits |-> f]
<1>1. Len(f) \in {8, 16, 24}
  BY FrameLengths
<1>2. Width("BLOCK_8") = 8 /\ Width("BLOCK_16") = 16 /\ Width("BLOCK_24") = 24
  BY DEF Width
<1> DEFINE type == IF Len(f) = 8 THEN "BLOCK_8" ELSE IF Len(f) = 16 THEN "BLOCK_16" ELSE "BLOCK_24"
<1>3. \A t \in {"BLOCK_8", "BLOCK_16", "BLOCK_24"} : Width(t) = Len(f) <=> t = type
  <2>1. CASE Len(f) = 8
    BY <1>2, <2>1
  <2>2. CASE Len(f) = 16
    BY <1>2, <2>2
  <2>3. CASE Len(f) = 24
    BY <1>2, <2>3
  <2> QED
    BY <1>1, <2>1, <2>2, <2>3
<1>4. type \in {"BLOCK_8", "BLOCK_16", "BLOCK_24"}
  OBVIOUS
<1> HIDE DEF type
<1>5. (CHOOSE t \in {"BLOCK_8", "BLOCK_16", "BLOCK_24"} : Width(t) = Len(f)) = type
  BY <1>3, <1>4
<1> QED
  BY <1>5 DEF Framed, type

\* What is handed over is the frame, at the end of its bits.
LEMMA HandedOver ==
    ASSUME TypeOK, DecoderInv, OnWire, Alone, Receiving,
           clock = "due" \/ (clock = "armed" /\ count % 2 = 0),
           count + 1 > NewMax(count + 1)
    PROVE  /\ Package(count + 1, Samples(count + 1)) = Framed(sent)
           /\ Passed >= 2 * Len(sent) + 3
<1> DEFINE n == count + 1
           s == Samples(n)
<1>1. sent \in Frames /\ sent \in Seq(Bit) /\ Len(sent) \in {8, 16, 24}
  BY FrameLengths DEF OnWire
<1>2. /\ count \in 0..54 /\ Passed \in Nat /\ Passed >= count + 1
      /\ max = IF count < 21 \/ Len(sent) = 8 THEN 22
               ELSE IF count < 38 \/ Len(sent) = 16 THEN 38 ELSE 54
      /\ count <= max
  BY StillOnWire DEF TypeOK, Receiving, Lengthened, DecoderInv, DecoderPhase
<1>3. count + 1 > IF count + 1 < 21 \/ Len(sent) = 8 THEN 22
                  ELSE IF count + 1 < 38 \/ Len(sent) = 16 THEN 38 ELSE 54
  BY LimitAtTick DEF TypeOK
<1>4. n = 2 * Len(sent) + 7
  <2>1. CASE Len(sent) = 8
    BY <1>2, <1>3, <2>1
  <2>2. CASE Len(sent) = 16
    BY <1>2, <1>3, <2>2
  <2>3. CASE Len(sent) = 24
    BY <1>2, <1>3, <2>3
  <2> QED
    BY <1>1, <2>1, <2>2, <2>3
<1>5. /\ s \in Seq(Bit) /\ Len(s) = n \div 2
      /\ \A k \in 1..Len(s) : s[k] = IF k <= Len(sent) THEN sent[k] ELSE 1
  BY SampledAtTick
<1>6. Len(s) = Len(sent) + 3
  BY <1>1, <1>4, <1>5
<1> HIDE DEF s
<1> DEFINE bits == SubSeq(s, 1, Len(s) - 3)
<1>7. bits = sent
  <2>1. Len(s) - 3 = Len(sent)
    BY <1>1, <1>6
  <2>2. \A k \in 1..Len(sent) : s[k] = sent[k] /\ s[k] \in Bit
    <3>1. \A k \in 1..Len(sent) : k \in 1..Len(s) /\ k <= Len(sent)
      BY <1>1, <1>6
    <3> QED
      BY <1>5, <3>1, ElementOfSeq
  <2>3. SubSeq(s, 1, Len(sent)) = [k \in 1..Len(sent) |-> s[k]]
    BY <1>1, <1>5, <1>6
  <2>4. sent = [k \in 1..Len(sent) |-> sent[k]]
    BY <1>1
  <2> QED
    BY <2>1, <2>2, <2>3, <2>4
<1>8. Package(n, s) = [type |-> IF n = 23 THEN "BLOCK_8" ELSE IF n = 39 THEN "BLOCK_16"
                                ELSE "BLOCK_24", bits |-> sent]
  BY <1>7 DEF Package
<1>9. (n = 23 <=> Len(sent) = 8) /\ (n = 39 <=> Len(sent) = 16)
  <2>1. CASE Len(sent) = 8
    BY <1>4, <2>1
  <2>2. CASE Len(sent) = 16
    BY <1>4, <2>2
  <2>3. CASE Len(sent) = 24
    BY <1>4, <2>3
  <2> QED
    BY <1>1, <2>1, <2>2, <2>3
<1>10. Package(n, s) = Framed(sent)
  BY <1>1, <1>8, <1>9, FramedIs
<1> QED
  BY <1>1, <1>2, <1>4, <1>10 DEF s
\* A tick of end_clock.
LEMMA CleanOnTick ==
    ASSUME TypeOK, DecoderInv, CleanInv, NEW next,
           \/ clock = "due" /\ next = "armed"
           \/ clock = "armed" /\ count % 2 = 0 /\ next = "early",
           end_clock(next)
    PROVE  CleanInv'
<1> DEFINE n == count + 1
<1>0. /\ startBit \in BOOLEAN /\ rxIntr \in BOOLEAN /\ cont \in BOOLEAN
      /\ startBit /\ delivered \in Seq(PackageSet)
  BY DEF TypeOK, Flags, HistoryOK, DecoderInv, DecoderPhase
<1>1. ~startBit' => ~cont'
  BY <1>0 DEF end_clock, HandOver, Restart, Counting
<1> SUFFICES ASSUME clean' PROVE (OnWire /\ Alone /\ (Receiving \/ Received))'
  BY <1>1 DEF CleanInv
<1>2. clean /\ OnWire /\ Alone /\ Receiving
  BY <1>0 DEF end_clock, CleanInv, AtStart, Received
<1>3. UNCHANGED <<peer, own, hat, task, sent, mark>>
  BY DEF end_clock, bus, replier, history
<1>4. OnWire' /\ Alone' /\ Passed' = Passed
  BY <1>2, <1>3 DEF OnWire, Alone, Passed
<1>5. /\ count \in 0..54 /\ Passed \in Nat /\ Passed <= count + 3
      /\ Len(sent) \in {8, 16, 24}
  BY <1>2, StillOnWire, FrameLengths DEF TypeOK, OnWire
<1>6. CASE n > NewMax(n)
  <2>1. HandOver(n)
    BY <1>6 DEF end_clock
  <2> DEFINE package == Package(n, Samples(n))
  <2>2. package = Framed(sent) /\ Passed >= 2 * Len(sent) + 3
    BY <1>2, <1>6, HandedOver
  <2>3. package \in PackageSet
    BY <1>6, PackageFits
  <2>4. delivered' = Append(delivered, package) /\ ~startBit'
    BY <2>1 DEF HandOver, Restart
  <2> HIDE DEF package
  <2>5. Len(delivered') = Len(delivered) + 1 /\ delivered'[Len(delivered) + 1] = package
    BY <1>0, <2>3, <2>4, AppendProperties
  <2> QED
    BY <1>2, <1>3, <1>4, <2>2, <2>4, <2>5 DEF Received, Receiving
<1>7. CASE ~(n > NewMax(n))
  <2>1. Counting(n) /\ clock' = next
    BY <1>7 DEF end_clock
  <2>2. /\ startBit' = startBit /\ delivered' = delivered /\ count' = n
        /\ shift' = Samples(n) /\ max' = NewMax(n)
        /\ rxIntr' = (n \in {18, 35} \/ (rxIntr /\ n \notin {21, 38}))
        /\ cont' = IF n \in {21, 38} THEN FALSE ELSE cont
    BY <2>1 DEF Counting, mailbox
  <2>3. InStep'
    <3>1. CASE clock = "due" /\ next = "armed"
      BY <1>2, <1>4, <1>5, <2>1, <2>2, <3>1 DEF Receiving, InStep
    <3>2. CASE clock = "armed" /\ count % 2 = 0 /\ next = "early"
      <4>1. count = Passed - 2 /\ (count + 1) % 2 = 1
        BY <1>2, <1>5, <3>2 DEF Receiving, InStep
      <4>2. count' = Passed' - 1 /\ count' % 2 = 1
        BY <1>4, <1>5, <2>2, <4>1
      <4> QED
        BY <2>1, <3>2, <4>2 DEF InStep
    <3> QED
      BY <3>1, <3>2
  <2>4. Sampled'
    BY <1>2, <1>3, <2>2, SampledAtTick DEF Sampled
  <2>5. Lengthened'
    <3>0. /\ rxIntr <=> count \in Window
          /\ cont => count \in Window /\ Len(sent) # 8 /\ (count > 20 => Len(sent) = 24)
          /\ Len(sent) # 8 /\ count \in 18..20 /\ Passed >= 22 => cont
          /\ Len(sent) = 24 /\ count \in 35..37 /\ Passed >= 38 => cont
      BY <1>2 DEF Receiving, Lengthened
    <3>1. max' = IF count' < 21 \/ Len(sent) = 8 THEN 22
                 ELSE IF count' < 38 \/ Len(sent) = 16 THEN 38 ELSE 54
      BY <1>2, <2>2, LimitAtTick DEF TypeOK
    <3>2. n \in Window <=> (n \in {18, 35} \/ (count \in Window /\ n \notin {21, 38}))
      BY <1>5 DEF Window
    <3>3. rxIntr' <=> count' \in Window
      BY <2>2, <3>0, <3>2
    <3>4. ASSUME cont' PROVE count' \in Window /\ Len(sent) # 8 /\ (count' > 20 => Len(sent) = 24)
      <4>1. cont /\ n \notin {21, 38}
        BY <2>2, <3>4
      <4>2. n > 20 => count > 20
        BY <1>5, <4>1
      <4> QED
        BY <2>2, <3>0, <3>2, <4>1, <4>2
    <3>5. ASSUME Len(sent) # 8, count' \in 18..20, Passed >= 22 PROVE cont'
      <4>1. count \in 18..20 /\ n \notin {21, 38}
        BY <1>5, <2>2, <3>5
      <4> QED
        BY <2>2, <3>0, <3>5, <4>1
    <3>6. ASSUME Len(sent) = 24, count' \in 35..37, Passed >= 38 PROVE cont'
      <4>1. count \in 35..37 /\ n \notin {21, 38}
        BY <1>5, <2>2, <3>6
      <4> QED
        BY <2>2, <3>0, <3>6, <4>1
    <3> QED
      BY <1>3, <1>4, <3>1, <3>3, <3>4, <3>5, <3>6 DEF Lengthened
  <2> QED
    BY <1>2, <1>3, <1>4, <2>2, <2>3, <2>4, <2>5 DEF Receiving
<1> QED
  BY <1>6, <1>7

\* A frame begins.
LEMMA CleanOnSend == ASSUME TypeOK, CleanInv, PeerSend PROVE CleanInv'
<1>1. PICK f \in Frames : peer' = Wave(f) /\ sent' = f
  BY DEF PeerSend
<1>2. /\ UNCHANGED <<own, hat, task, delivered, startBit, cont, rxIntr>> /\ mark' = Len(delivered)
      /\ own = <<>> /\ Level = 1 /\ clean' = (rxIntr /\ ~startBit /\ task \notin {"listen", "sending"})
  BY DEF PeerSend, decoder, mailbox, replier
<1>3. Len(peer') = WaveLength(f) /\ WaveLength(f) \in Nat
      /\ \A i \in 1..WaveLength(f) : peer'[i] = At(f, i - 1)
  <2>1. WaveLength(f) \in Nat
    BY FrameLengths DEF WaveLength
  <2> QED
    BY <1>1, <2>1, WaveAt
<1>4. Passed' = 0
  BY <1>1, <1>3 DEF Passed
<1>5. OnWire'
  BY <1>1, <1>3, <1>4 DEF OnWire
<1>6. hat
  BY <1>2 DEF Level, Line
<1>7. ~startBit' => ~cont'
  BY <1>2 DEF CleanInv
<1>8. ASSUME clean' PROVE Alone' /\ AtStart'
  <2>1. rxIntr' /\ ~startBit' /\ task' \notin {"listen", "sending"}
    BY <1>2, <1>8, Zenon
  <2>2. Passed' \in {0, 1} /\ Passed' # 1 /\ Len(delivered)' = mark'
    BY <1>2, <1>4
  <2> QED
    BY <1>2, <1>6, <2>1, <2>2 DEF Alone, AtStart
<1> QED
  BY <1>5, <1>7, <1>8 DEF CleanInv

\* Every step keeps the frame.
LEMMA CleanStep ==
    ASSUME TypeOK, DecoderInv, CleanInv, [Next]_vars
    PROVE  CleanInv'
<1>1. CASE HalfPeriod
  BY <1>1, CleanOnHalfPeriod
<1>2. CASE PeerSend
  BY <1>2, CleanOnSend
<1>3. ASSUME NEW h \in BOOLEAN, Supply(h) PROVE CleanInv'
  <2>1. ~startBit' => ~cont'
    BY <1>3, EdgeAtRest DEF Supply, CleanInv, TypeOK, Flags
  <2> QED
    BY <1>3, <2>1 DEF Supply, CleanInv
<1>4. CASE Tick
  BY <1>4, CleanOnTick DEF Tick
<1>5. CASE EarlyTick
  BY <1>5, CleanOnTick DEF EarlyTick
<1>6. CASE SemTask
  <2> USE DEF bus, decoder, mailbox, replier, gauge, history
  <2>1. CASE SemTake
    BY <2>1, CleanUntouched DEF SemTake
  <2>2. CASE ReadAddress \/ ReadData
    BY <2>2, CleanUntouched DEF ReadAddress, ReadData
  <2>3. CASE NoReply
    BY <2>3, CleanUntouched DEF NoReply
  <2>4. CASE BackwordBegin
    BY <2>4, CleanUntouched DEF BackwordBegin
  <2>5. CASE ListenBusy
    BY <2>5, CleanUntouched DEF ListenBusy
  <2>6. CASE ListenFree
    <3>1. ~clean /\ ~clean'
      BY <2>6 DEF ListenFree, CleanInv, Alone
    <3> QED
      BY <2>6, <3>1 DEF ListenFree, CleanInv
  <2>7. CASE ReplySent
    BY <2>7, CleanUntouched DEF ReplySent
  <2>8. CASE Clear
    BY <2>8, CleanUntouched DEF Clear
  <2> QED
    BY <1>6, <2>1, <2>2, <2>3, <2>4, <2>5, <2>6, <2>7, <2>8 DEF SemTask
<1>7. CASE AdcTask
  <2> USE DEF bus, decoder, mailbox, replier, gauge, history
  <2>1. clean' => clean /\ rxIntr' = rxIntr
    BY <1>7 DEF AdcTask, AdcCheck, AdcRead1, AdcRead2, AdcRead3, Adc_Olcum, AdcBad,
                AdcGood, AdcVerdict, RxSwitch
  <2>2. UNCHANGED <<bus, decoder, mailbox, replier, history>>
    BY <1>7 DEF AdcTask, AdcCheck, AdcRead1, AdcRead2, AdcRead3, Adc_Olcum, AdcBad,
                AdcGood, AdcVerdict
  <2>3. clean' => task' \notin {"listen", "sending"}
    BY <2>1, <2>2 DEF CleanInv, Alone
  <2> QED
    BY <2>1, <2>2, <2>3, CleanUntouched
<1>8. CASE UNCHANGED vars
  <2>1. clean' => task' \notin {"listen", "sending"}
    BY <1>8 DEF vars, replier, CleanInv, Alone
  <2> QED
    BY <1>8, <2>1, CleanUntouched DEF vars, bus, decoder, mailbox, history
<1> QED
  BY <1>1, <1>2, <1>3, <1>4, <1>5, <1>6, <1>7, <1>8 DEF Next, CutLine, RestoreLine

\* The end of a sequence that is one element long.
LEMMA LastAlone ==
    ASSUME NEW S, NEW s \in Seq(S), NEW n \in Nat, Len(s) = n + 1
    PROVE  SubSeq(s, n + 1, Len(s)) = << s[n + 1] >>
<1>1. SubSeq(s, n + 1, n + 1) = [i \in 1..1 |-> s[n + 1]]
  <2>1. SubSeq(s, n + 1, n + 1) = [i \in 1..(1 + (n + 1) - (n + 1)) |-> s[(n + 1) + i - 1]]
    OBVIOUS
  <2>2. 1 + (n + 1) - (n + 1) = 1 /\ \A i \in 1..1 : n + 1 + i - 1 = n + 1
    OBVIOUS
  <2> QED
    BY <2>1, <2>2
<1>2. \A x : [i \in 1..1 |-> x] = << x >>
  OBVIOUS
<1> QED
  BY <1>1, <1>2

\* The end of the wave finds the frame handed over.
LEMMA CleanAtEnd == ASSUME TypeOK, DecoderInv, CleanInv PROVE CleanFrameDelivered
<1> SUFFICES ASSUME clean, peer = <<>>
             PROVE  SubSeq(delivered, mark + 1, Len(delivered)) = << Framed(sent) >>
  BY DEF CleanFrameDelivered
<1>1. OnWire /\ (AtStart \/ Receiving \/ Received)
  BY DEF CleanInv
<1>2. Passed = WaveLength(sent) /\ WaveLength(sent) = 2 * Len(sent) + 15
      /\ Len(sent) \in {8, 16, 24}
  BY <1>1, OnWirePasses, FrameLengths DEF TypeOK, OnWire, WaveLength
<1>3. ~AtStart
  BY <1>2 DEF AtStart
<1>4. ~Receiving
  <2>1. ASSUME Receiving PROVE Passed < WaveLength(sent) /\ Passed \in Nat
    BY <1>1, <2>1, StillOnWire DEF TypeOK
  <2> QED
    BY <1>2, <2>1
<1>5. mark \in Nat /\ Len(delivered) = mark + 1 /\ delivered[mark + 1] = Framed(sent)
  BY <1>1, <1>3, <1>4 DEF Received, TypeOK, HistoryOK
<1>6. delivered \in Seq(PackageSet)
  BY DEF TypeOK, HistoryOK
<1> QED
  BY <1>5, <1>6, LastAlone

\* For every frame of 8, 16 or 24 bits, behind any traffic, replies, losses of
\* the supply and jitter: a frame that finds the receiver ready, and that
\* nobody else disturbs, is handed over once, bit by bit.
THEOREM CleanFramesArrive == Spec => []CleanFrameDelivered
<1>1. Init => CleanInv
  BY DEF Init, CleanInv
<1>2. TypeOK /\ DecoderInv /\ CleanInv /\ [Next]_vars => CleanInv'
  BY CleanStep
<1>3. TypeOK /\ DecoderInv /\ CleanInv => CleanFrameDelivered
  BY CleanAtEnd
<1> QED
  BY <1>1, <1>2, <1>3, TypeCorrect, DecoderCorrect, PTL DEF Spec
=============================================================================

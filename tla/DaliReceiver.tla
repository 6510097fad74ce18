---------------------------- MODULE DaliReceiver ----------------------------
(***************************************************************************)
(* The DALI driver of main/comp/dali.cpp at the granularity of one half    *)
(* bit (HALF_PERIOD, one TE).  Five parties act on it:                     *)
(*                                                                         *)
(*   - the bus: another unit sends forward frames, and the supply of the   *)
(*     line may go away and come back;                                     *)
(*   - int_handler, the edge interrupt of the rx pin, which runs in the    *)
(*     very step that moves the line;                                      *)
(*   - end_clock, the callback of the periodic timer, once per half bit;   *)
(*   - sem_task, which hands a finished frame to the application's         *)
(*     callback and answers with a backward frame (backword_yesno);        *)
(*   - adc_task, which measures the line and reports DALI_HAT_ERROR and    *)
(*     DALI_HAT_NORMAL.                                                    *)
(*                                                                         *)
(* All of them switch the same interrupt on and off, none holds a lock.    *)
(* The counter bb of end_clock is the parity of count (the two are         *)
(* incremented together and cleared together), so it has no variable.      *)
(*                                                                         *)
(* A definition named X_y is X with a seeded fault: no specification uses  *)
(* it; it is put in the place of X to see that a property notices.         *)
(***************************************************************************)
EXTENDS Integers, SequencesExt

CONSTANTS
    Frames,       \* the forward frames another unit sends, as bit sequences
    Replies,      \* the bytes the callback may ask backword_yesno to send
    MaxFrames,    \* bound: how many forward frames are sent
    MaxReplies,   \* bound: how many packages the callback may answer
    MaxCuts,      \* bound: how often the supply of the line is lost
    CutAndReply,  \* bound: may one behaviour both lose the supply and answer?
    Jitter,       \* may a tick come up to 50 us before its half bit ends?
    Measuring,    \* bound: does adc_task measure the line?
    DropEvents    \* may esp_event_post with timeout 0 find the queue full?

Bit  == {0, 1}
Byte == [1..8 -> Bit]

ASSUME FramesAssumption ==
    Frames \subseteq [1..8 -> Bit] \cup [1..16 -> Bit] \cup [1..24 -> Bit]
ASSUME RepliesAssumption == Replies \subseteq Byte
ASSUME BoundsAssumption  == MaxFrames \in Nat /\ MaxReplies \in Nat /\ MaxCuts \in Nat
ASSUME SwitchAssumption  ==
    /\ Jitter \in BOOLEAN /\ Measuring \in BOOLEAN
    /\ DropEvents \in BOOLEAN /\ CutAndReply \in BOOLEAN

VARIABLES
    peer,           \* half bits the other unit still drives, the present one first
    own,            \* half bits this unit still drives, the present one first
    hat,            \* is the line ("hat") supplied?
    rxIntr,         \* the edge interrupt of rx is enabled
    startBit,       \* Dali::start_bit
    startBitBegin,  \* int_handler's static start_bit_begin
    cont,           \* Dali::cont
    clock,          \* clock_timer: "off", or where it is in this half bit
    count,          \* end_clock's static count
    max,            \* end_clock's static max
    shift,          \* end_clock's static gelen: the bits sampled so far
    gelen,          \* Dali::gelen, the frame handed to the callback
    semaphore,      \* Dali::semaphore, binary
    task,           \* where sem_task is
    adres,          \* dali_callback's adres: the package its address is out of
    reply,          \* the backward frame the callback asked for
    listened,       \* half bits backword_yesno has found the line free
    adc,            \* where adc_task is
    adcFrame,       \* the frame adc_task's last low measurement fell into
    olcumReady,     \* Dali::Olcum_Ready
    hatError,       \* Dali::hat_error
    told,           \* the last line event the event loop accepted
    frames,         \* history: frames sent so far
    cuts,           \* history: supply losses so far
    sent,           \* history: the last frame sent
    clean,          \* history: the receiver was ready for it, nobody interfered
    delivered,      \* history: the packages end_clock has handed over
    mark,           \* history: Len(delivered) when that frame began
    handled,        \* history: what each call of the callback read
    overrun         \* history: a package was handed over too early

bus     == <<peer, own, hat>>
decoder == <<startBit, startBitBegin, cont, clock, count, max, shift>>
mailbox == <<gelen, semaphore, delivered, overrun>>
replier == <<task, adres, reply, listened, handled>>
gauge   == <<adc, adcFrame, hatError, told>>
history == <<frames, cuts, sent, mark>>
vars    == <<bus, decoder, mailbox, replier, gauge, history,
             rxIntr, olcumReady, clean>>

-----------------------------------------------------------------------------
(* The waveforms of _send_one, _send_zero, _send_stop, _send_byte, send.   *)

\* A bit is two half bits: a one rises in the middle, a zero falls.
HalfBits(b) == IF b = 1 THEN <<0, 1>> ELSE <<1, 0>>

Ones(n) == [i \in 1..n |-> 1]

\* Start bit, data bits, high for six full periods; before it the idle line.
Wave(f) == <<1>> \o HalfBits(1)
                 \o [i \in 1..(2 * Len(f)) |-> HalfBits(f[(i + 1) \div 2])[2 - (i % 2)]]
                 \o Ones(12)

\* backword_yesno waits three full periods more.
ReplyWave(f) == Wave(f) \o Ones(6)

Present(w) == IF w = <<>> THEN 1 ELSE Head(w)
Later(w)   == IF w = <<>> THEN w ELSE Tail(w)

\* Any unit, or a missing supply, pulls the line low.
Line(p, o, h) == IF h /\ Present(p) = 1 /\ Present(o) = 1 THEN 1 ELSE 0
Level == Line(peer, own, hat)

-----------------------------------------------------------------------------
(* What is handed over: package_t.                                         *)

Zero == [type |-> "none", bits |-> <<>>]     \* gelen.package = 0

Width(type) == IF type = "BLOCK_8" THEN 8
               ELSE IF type = "BLOCK_16" THEN 16
               ELSE IF type = "BLOCK_24" THEN 24 ELSE 0

\* One of the stop bits is left in.
Package_stop(n, samples) ==
    [type |-> IF n = 23 THEN "BLOCK_8" ELSE IF n = 39 THEN "BLOCK_16" ELSE "BLOCK_24",
     bits |-> SubSeq(samples, 1, Len(samples) - 2)]

\* The package end_clock builds when it stops at count n with these samples:
\* the last three are stop bits (gelen>>3), the type follows from n.
Package(n, samples) ==
    [type |-> IF n = 23 THEN "BLOCK_8" ELSE IF n = 39 THEN "BLOCK_16" ELSE "BLOCK_24",
     bits |-> SubSeq(samples, 1, Len(samples) - 3)]

-----------------------------------------------------------------------------
Init ==
    /\ peer = <<>> /\ own = <<>> /\ hat = TRUE
    /\ rxIntr = TRUE
    /\ startBit = FALSE /\ startBitBegin = FALSE /\ cont = FALSE
    /\ clock = "off" /\ count = 0 /\ max = 22 /\ shift = <<>>
    /\ gelen = Zero /\ semaphore = FALSE
    /\ task = "take" /\ adres = Zero /\ reply = <<>> /\ listened = 0
    /\ adc = "sleep" /\ adcFrame = 0
    /\ olcumReady = TRUE /\ hatError = FALSE /\ told = "none"
    /\ frames = 0 /\ cuts = 0 /\ sent = <<>> /\ clean = FALSE
    /\ delivered = <<>> /\ mark = 0 /\ handled = <<>> /\ overrun = FALSE

-----------------------------------------------------------------------------
(* int_handler: it runs when the line moves and the interrupt is enabled.  *)
(* A rising edge after an earlier edge is the middle of a start bit: it    *)
(* disables the interrupt and starts the clock.  With the clock running an *)
(* edge only says that the frame goes on.                                  *)

int_handler(level) ==
    IF startBit
    THEN /\ cont' = TRUE
         /\ UNCHANGED <<rxIntr, startBit, startBitBegin>>
    ELSE IF startBitBegin /\ level = 1
    THEN /\ startBit' = TRUE
         /\ startBitBegin' = FALSE
         /\ rxIntr' = FALSE
         /\ UNCHANGED cont
    ELSE /\ startBitBegin' = TRUE
         /\ UNCHANGED <<rxIntr, startBit, cont>>

\* The line moves to level; an enabled interrupt sees an edge.
Edge(level) ==
    IF level # Level /\ rxIntr
    THEN int_handler(level)
    ELSE UNCHANGED <<rxIntr, startBit, startBitBegin, cont>>

-----------------------------------------------------------------------------
(* The bus.                                                                *)

\* backword_yesno polls every 10 us: it reacts within the half bit.
ReplierDue == task = "listen" /\ (Level = 0 \/ listened = 9)

\* Half a bit passes.  The clock's tick for the previous boundary is done,
\* its next one falls due unless it came early.
HalfPeriod ==
    /\ peer # <<>> \/ own # <<>> \/ clock # "off" \/ task = "listen"
    /\ clock # "due" /\ ~ReplierDue
    /\ peer' = Later(peer) /\ own' = Later(own)
    /\ Edge(Line(peer', own', hat))
    /\ clock' = IF clock = "armed" THEN "due"
                ELSE IF clock = "early" \/ startBit' THEN "armed" ELSE "off"
    /\ listened' = IF task = "listen" THEN listened + 1 ELSE listened
    /\ UNCHANGED <<hat, count, max, shift, mailbox, task, adres, reply,
                   handled, gauge, history, olcumReady, clean>>

\* Another unit begins a forward frame on a line it finds idle.
PeerSend ==
    /\ peer = <<>> /\ Level = 1 /\ own = <<>> /\ frames < MaxFrames
    /\ \E f \in Frames :
          /\ peer' = Wave(f)
          /\ sent' = f
    /\ frames' = frames + 1
    /\ mark' = Len(delivered)
    /\ clean' = (rxIntr /\ ~startBit /\ task \notin {"listen", "sending"})
    /\ UNCHANGED <<own, hat, decoder, mailbox, replier, gauge, cuts,
                   rxIntr, olcumReady>>

\* The supply of the line goes away, or comes back.
Supply(h) ==
    /\ hat' = h
    /\ Edge(Line(peer, own, h))
    /\ clock' = IF clock = "off" /\ startBit' THEN "armed" ELSE clock
    /\ clean' = FALSE
    /\ UNCHANGED <<peer, own, count, max, shift, mailbox, replier, gauge,
                   frames, sent, mark, olcumReady>>

CutLine     == /\ hat /\ cuts < MaxCuts /\ (reply = <<>> \/ CutAndReply)
               /\ Supply(FALSE) /\ cuts' = cuts + 1
RestoreLine == ~hat /\ Supply(TRUE) /\ UNCHANGED cuts

-----------------------------------------------------------------------------
(* end_clock.  On an even count the line is sampled 50 us (KALIBRASYON)    *)
(* after the tick.  Around count 18..21 and 35..38 the interrupt is        *)
(* enabled: an edge in that window (cont) makes the frame 8 bits longer.   *)

Samples(n) == IF n % 2 = 0 THEN Append(shift, Level) ELSE shift

\* The second window is not looked at; a mistyped limit.
NewMax_once(n) == IF n = 21 /\ cont THEN 38 ELSE max
NewMax_long(n) == IF n = 21 /\ cont THEN 40 ELSE IF n = 38 /\ cont THEN 54 ELSE max

\* max as end_clock leaves it before it compares.
NewMax(n) == IF n = 21 /\ cont THEN 38
             ELSE IF n = 38 /\ cont THEN 54
             ELSE max

\* Not yet the end: open the window, close it, or only count.
Counting(n) ==
    /\ count' = n
    /\ shift' = Samples(n)
    /\ max' = NewMax(n)
    /\ cont' = IF n \in {21, 38} THEN FALSE ELSE cont
    /\ rxIntr' = (n \in {18, 35} \/ (rxIntr /\ n \notin {21, 38}))
    /\ olcumReady' = FALSE
    /\ UNCHANGED <<startBit, mailbox>>

\* A static, or start_bit, is not reset.
Restart_max   == /\ shift' = <<>> /\ count' = 0 /\ startBit' = FALSE /\ cont' = FALSE
                 /\ rxIntr' = TRUE /\ olcumReady' = TRUE /\ UNCHANGED max
Restart_shift == /\ count' = 0 /\ max' = 22 /\ startBit' = FALSE /\ cont' = FALSE
                 /\ rxIntr' = TRUE /\ olcumReady' = TRUE /\ UNCHANGED shift
Restart_start == /\ shift' = <<>> /\ count' = 0 /\ max' = 22 /\ cont' = FALSE
                 /\ rxIntr' = TRUE /\ olcumReady' = TRUE /\ UNCHANGED startBit

\* Ready for the next start bit.
Restart ==
    /\ shift' = <<>> /\ count' = 0 /\ max' = 22
    /\ startBit' = FALSE /\ cont' = FALSE
    /\ rxIntr' = TRUE /\ olcumReady' = TRUE

\* The frame is over.
HandOver(n) ==
    /\ gelen' = Package(n, Samples(n))
    /\ semaphore' = TRUE
    /\ delivered' = Append(delivered, gelen')
    /\ overrun' = (overrun \/ semaphore \/ task # "take")
    /\ Restart

end_clock(next) ==
    LET n == count + 1 IN
    /\ IF n > NewMax(n)
       THEN HandOver(n) /\ clock' = "off"
       ELSE Counting(n) /\ clock' = next
    /\ UNCHANGED <<bus, startBitBegin, replier, gauge, history, clean>>

Tick == clock = "due" /\ end_clock("armed")

\* The sender's clock and ours differ: a tick may come up to 50 us before
\* the boundary.  An even count still samples behind it, so only an odd one
\* can tell the difference.
EarlyTick == Jitter /\ clock = "armed" /\ count % 2 = 0 /\ end_clock("early")

-----------------------------------------------------------------------------
(* sem_task and backword_yesno.                                            *)

\* The semaphore is not taken.
SemTake_keep ==
    /\ task = "take" /\ semaphore
    /\ task' = "callback"
    /\ UNCHANGED <<bus, decoder, mailbox, adres, reply, listened, handled,
                   gauge, history, rxIntr, olcumReady, clean>>

SemTake ==
    /\ task = "take" /\ semaphore
    /\ semaphore' = FALSE
    /\ task' = "callback"
    /\ UNCHANGED <<bus, decoder, gelen, delivered, overrun, adres, reply, listened,
                   handled, gauge, history, rxIntr, olcumReady, clean>>

\* dali_callback has a pointer to gelen and reads through it twice: first the
\* byte with the address ...
ReadAddress ==
    /\ task = "callback"
    /\ adres' = gelen
    /\ task' = "address"
    /\ UNCHANGED <<bus, decoder, mailbox, reply, listened, handled, gauge,
                   history, rxIntr, olcumReady, clean>>

\* ... and, when it has found out whom that means and has written its log, the
\* byte with the level or the command, from whatever gelen holds by now.  It
\* decides on an answer; BACK_NONE is <<>>.
ReadData ==
    /\ task = "address"
    /\ handled' = Append(handled, [address |-> adres, data |-> gelen])
    /\ adres' = Zero
    /\ reply' \in {<<>>} \cup IF Len(handled) < MaxReplies /\ (cuts = 0 \/ CutAndReply)
                              THEN Replies ELSE {}
    /\ task' = "hold"
    /\ UNCHANGED <<bus, decoder, mailbox, listened, gauge, history,
                   rxIntr, olcumReady, clean>>

\* The callback has returned (it may have blocked for long) and the six
\* half periods are over; without an answer the frame is cleared next.
NoReply ==
    /\ task = "hold" /\ reply = <<>>
    /\ task' = "clear"
    /\ UNCHANGED <<bus, decoder, mailbox, adres, reply, listened, handled,
                   gauge, history, rxIntr, olcumReady, clean>>

BackwordBegin ==
    /\ task = "hold" /\ reply # <<>>
    /\ rxIntr' = FALSE
    /\ listened' = 0
    /\ task' = "listen"
    /\ clean' = FALSE
    /\ UNCHANGED <<bus, decoder, mailbox, adres, reply, handled, gauge,
                   history, olcumReady>>

\* (Seeded: it tries again; it leaves the interrupt disabled.)
ListenBusy_again ==
    /\ task = "listen" /\ Level = 0
    /\ rxIntr' = TRUE
    /\ task' = "hold"
    /\ clean' = FALSE
    /\ UNCHANGED <<bus, decoder, mailbox, adres, reply, listened, handled,
                   gauge, history, olcumReady>>

ListenBusy_deaf ==
    /\ task = "listen" /\ Level = 0
    /\ task' = "clear"
    /\ clean' = FALSE
    /\ UNCHANGED <<bus, decoder, mailbox, adres, reply, listened, handled,
                   gauge, history, rxIntr, olcumReady>>

\* A low line within 400 polls of 10 us: somebody talks, give up.
ListenBusy ==
    /\ task = "listen" /\ Level = 0
    /\ rxIntr' = TRUE
    /\ task' = "clear"
    /\ clean' = FALSE
    /\ UNCHANGED <<bus, decoder, mailbox, adres, reply, listened, handled,
                   gauge, history, olcumReady>>

ListenFree ==
    /\ task = "listen" /\ Level = 1 /\ listened = 9
    /\ own' = ReplyWave(reply)
    /\ task' = "sending"
    /\ UNCHANGED <<peer, hat, decoder, mailbox, adres, reply, listened, handled,
                   gauge, history, rxIntr, olcumReady, clean>>

ReplySent ==
    /\ task = "sending" /\ own = <<>>
    /\ rxIntr' = TRUE
    /\ task' = "clear"
    /\ clean' = FALSE
    /\ UNCHANGED <<bus, decoder, mailbox, adres, reply, listened, handled,
                   gauge, history, olcumReady>>

\* The place is not emptied.
Clear_keep ==
    /\ task = "clear"
    /\ reply' = <<>> /\ listened' = 0
    /\ task' = "take"
    /\ UNCHANGED <<bus, decoder, gelen, semaphore, delivered, overrun, adres, handled,
                   gauge, history, rxIntr, olcumReady, clean>>

\* gelen.package = 0, whatever end_clock has put there meanwhile.
Clear ==
    /\ task = "clear"
    /\ gelen' = Zero
    /\ reply' = <<>> /\ listened' = 0
    /\ task' = "take"
    /\ UNCHANGED <<bus, decoder, semaphore, delivered, overrun, adres, handled,
                   gauge, history, rxIntr, olcumReady, clean>>

SemTask == \/ SemTake \/ ReadAddress \/ ReadData \/ NoReply \/ BackwordBegin
           \/ ListenBusy \/ ListenFree \/ ReplySent \/ Clear

-----------------------------------------------------------------------------
(* adc_task.  Olcum_Ready is read once, before the first measurement; a    *)
(* low one is repeated after 100 ms, longer than any frame.                *)

AdcCheck ==
    /\ Measuring /\ adc = "sleep" /\ olcumReady
    /\ adc' = "read1"
    /\ UNCHANGED <<bus, decoder, mailbox, replier, adcFrame, hatError, told,
                   history, rxIntr, olcumReady, clean>>

\* A measurement at pc: where a high line and a low line lead.
Adc_Olcum(pc, high, low) ==
    /\ adc = pc
    /\ adc' = IF Level = 1 THEN high ELSE low
    /\ adcFrame' = IF adc' \in {"read2", "read3"} /\ peer # <<>> THEN frames ELSE 0
    /\ UNCHANGED <<bus, decoder, mailbox, replier, hatError, told, history,
                   rxIntr, olcumReady, clean>>

\* 100 ms on, the forward frame of the earlier measurement is over.
Waited == peer = <<>> \/ frames # adcFrame

AdcRead1 == Adc_Olcum("read1", "good", "read2")
AdcRead2 == Waited /\ Adc_Olcum("read2", "sleep", "read3")
AdcRead3 == Waited /\ Adc_Olcum("read3", "sleep", "bad")

\* esp_event_post with timeout 0.
Post(e) == told' = e \/ (DropEvents /\ told' = told)

\* The flag is set before it is asked for, and so nothing is posted; it is
\* never cleared.
Report_silent(err, e) == hatError' = err /\ UNCHANGED told
Report_stuck(err, e)  == /\ hatError' = (hatError \/ err)
                         /\ IF hatError = err THEN UNCHANGED told ELSE Post(e)

\* Only a change of hat_error is posted.
Report(err, e) ==
    /\ IF hatError = err THEN UNCHANGED told ELSE Post(e)
    /\ hatError' = err

\* The interrupt is not enabled again.
RxSwitch_off(on) == rxIntr' = (rxIntr /\ on) /\ UNCHANGED clean

RxSwitch(on) ==
    /\ rxIntr' = on
    /\ clean' = (clean /\ rxIntr = on)

AdcVerdict(pc, err, e) ==
    /\ adc = pc
    /\ Report(err, e)
    /\ RxSwitch(~err)
    /\ adc' = "sleep"
    /\ UNCHANGED <<bus, decoder, mailbox, replier, adcFrame, history, olcumReady>>

AdcBad  == AdcVerdict("bad", TRUE, "DALI_HAT_ERROR")
AdcGood == AdcVerdict("good", FALSE, "DALI_HAT_NORMAL")

AdcTask == AdcCheck \/ AdcRead1 \/ AdcRead2 \/ AdcRead3 \/ AdcBad \/ AdcGood

-----------------------------------------------------------------------------
Next == \/ HalfPeriod \/ PeerSend \/ CutLine \/ RestoreLine
        \/ Tick \/ EarlyTick
        \/ SemTask \/ AdcTask

Spec == Init /\ [][Next]_vars

\* Time passes and every task is scheduled; nothing is promised about the
\* other unit or about the supply of the line.
Fairness == /\ WF_vars(HalfPeriod) /\ WF_vars(Tick)
            /\ WF_vars(SemTask) /\ WF_vars(AdcTask)

FairSpec == Spec /\ Fairness
-----------------------------------------------------------------------------
(* Properties.                                                             *)

\* What there is of packages in gelen, and what a call makes of two reads.
PackageSet == [type : {"none", "BLOCK_8", "BLOCK_16", "BLOCK_24"}, bits : Seq(Bit)]
CallSet    == [address : PackageSet, data : PackageSet]

Flags == {hat, rxIntr, startBit, startBitBegin, cont, semaphore, olcumReady,
          hatError, clean, overrun}

\* The data of the bus and of the decoder, of the tasks, and of the histories.
LineDataOK ==
    /\ peer \in Seq(Bit) /\ own \in Seq(Bit)
    /\ clock \in {"off", "armed", "due", "early"}
    /\ count \in 0..54 /\ max \in {22, 38, 54} /\ shift \in Seq(Bit)
    /\ gelen \in PackageSet

TaskDataOK ==
    /\ task \in {"take", "callback", "address", "hold", "listen", "sending", "clear"}
    /\ adres \in PackageSet /\ reply \in Replies \cup {<<>>} /\ listened \in Nat
    /\ adc \in {"sleep", "read1", "read2", "read3", "good", "bad"}
    /\ adcFrame \in Nat /\ told \in {"none", "DALI_HAT_ERROR", "DALI_HAT_NORMAL"}

HistoryOK ==
    /\ frames \in Nat /\ cuts \in Nat /\ sent \in Frames \cup {<<>>}
    /\ delivered \in Seq(PackageSet) /\ mark \in Nat /\ handled \in Seq(CallSet)

\* Every variable of the driver stays within the values the code gives it;
\* the counters of end_clock stay below the length of the longest frame.
TypeOK == Flags \subseteq BOOLEAN /\ LineDataOK /\ TaskDataOK /\ HistoryOK

\* Where end_clock is between two ticks: max grows only after its window was
\* passed, one sample is taken every second tick, and the clock runs exactly
\* while start_bit is set.
DecoderPhase ==
    /\ count <= max
    /\ max = 38 => count >= 21
    /\ max = 54 => count >= 38
    /\ Len(shift) = count \div 2
    /\ startBit <=> clock # "off"
    /\ ~startBit => count = 0 /\ max = 22

\* Whatever moves the line (frames, noise, a lost supply, a foreign hand on
\* the interrupt), a package that end_clock hands over has the number of bits
\* its type announces: the three stop bits are cut off at the right place.
PackageWellFormed ==
    \A i \in 1..Len(delivered) :
        Len(delivered[i].bits) = Width(delivered[i].type)

Framed(f) ==
    [type |-> CHOOSE t \in {"BLOCK_8", "BLOCK_16", "BLOCK_24"} : Width(t) = Len(f),
     bits |-> f]

\* A frame that found the receiver ready, and during which nobody else
\* touched the interrupt or the line, is handed over exactly once, with its
\* own bits and its own length, at any jitter of the tick below 50 us.
CleanFrameDelivered ==
    clean /\ peer = <<>> =>
        SubSeq(delivered, mark + 1, Len(delivered))
            = << Framed(sent) >>

\* The mailbox the application sees: from the moment dali_callback has read
\* gelen for the second time until sem_task clears it, what lies there will
\* not be given.
Slot   == IF task \in {"take", "callback", "address"} THEN gelen ELSE Zero
Opened == IF task = "address" THEN <<adres>> ELSE <<>>
Owed   == (IF semaphore THEN 1 ELSE 0) + (IF task \in {"callback", "address"} THEN 1 ELSE 0)

Mailbox == INSTANCE FrameMailbox
               WITH Message <- PackageSet \ {Zero}, Empty <- Zero,
                    slot <- Slot, opened <- Opened, owed <- Owed

\* end_clock, the semaphore, sem_task and dali_callback together are such a
\* mailbox: every package owes one call at most, none is acted on twice, and
\* only one that comes before the last was cleared can be lost, come without
\* its call, or be mixed with the one before it.
GivenOnce == Mailbox!Spec

\* As long as no package arrives before sem_task has cleared the one before,
\* the callback is given every package once, in order, the address and the
\* data out of the same one, and never an empty one.
HandledInOrder ==
    ~overrun =>
        /\ handled = [i \in 1..Len(handled) |->
                         [address |-> delivered[i], data |-> delivered[i]]]
        /\ Len(delivered) - Len(handled)
             = IF semaphore \/ task \in {"callback", "address"} THEN 1 ELSE 0

\* A reception always comes to its end, even if the line goes dead or the
\* start bit was noise: start_bit does not stay set.
ReceptionEnds == startBit ~> ~startBit

\* backword_yesno comes to its end: it gives up, or sends its answer out, and
\* gives the task back to the frames that follow, even on a dead line.
ReplyEnds == task \in {"listen", "sending"} ~> task = "take"

\* With the line supplied, the receiver is never deaf for good: whichever of
\* the five parties disabled the interrupt, somebody enables it again.
NotDeaf == <>[]hat => []<>rxIntr

\* If the event loop accepts what is posted, a lasting loss of the supply is
\* what the application was told last ...
LossReported == <>[]~hat => <>[](hatError /\ told = "DALI_HAT_ERROR")

\* ... and a lasting recovery too.
RecoveryReported == <>[]hat => <>[](~hatError /\ told # "DALI_HAT_ERROR")

\* The comment of adc_task: where it raises the error, the voltage of the
\* line is gone.
AlarmMeansNoVoltage == hatError => cuts > 0
=============================================================================

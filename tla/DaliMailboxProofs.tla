-------------------------- MODULE DaliMailboxProofs -------------------------
(***************************************************************************)
(* The driver of DaliReceiver implements the mailbox of FrameMailbox, for  *)
(* every set of frames, every reply and every bound.                       *)
(***************************************************************************)
EXTENDS DaliReceiverProofs

MP == INSTANCE FrameMailboxProofs
          WITH Message <- PackageSet \ {Zero}, Empty <- Zero,
               slot <- Slot, opened <- Opened, owed <- Owed

\* While sem_task waits and nothing was handed over, gelen is cleared.
Cleared == task = "take" /\ ~semaphore => gelen = Zero

LEMMA ClearedInitially == Init => Cleared
BY DEF Init, Cleared

LEMMA ClearedStep == TypeOK /\ Cleared /\ [Next]_vars => Cleared'
<1> SUFFICES ASSUME TypeOK, Cleared, [Next]_vars
             PROVE  Cleared'
  OBVIOUS
<1> USE DEF bus, decoder, mailbox, replier, gauge, history, Cleared
<1>1. ASSUME NEW next \in {"armed", "early"}, end_clock(next) PROVE Cleared'
  BY <1>1 DEF end_clock, HandOver, Restart, Counting
<1>2. CASE SemTask
  BY <1>2 DEF SemTask, SemTake, ReadAddress, ReadData, NoReply, BackwordBegin,
              ListenBusy, ListenFree, ReplySent, Clear
<1>3. CASE UNCHANGED <<task, semaphore, gelen>>
  BY <1>3
<1> QED
  BY <1>1, <1>2, <1>3
     DEF Next, HalfPeriod, PeerSend, CutLine, RestoreLine, Supply, Tick,
         EarlyTick, AdcTask, AdcCheck, AdcRead1, AdcRead2, AdcRead3,
         Adc_Olcum, AdcBad, AdcGood, AdcVerdict, vars

\* A package is never the empty one.
LEMMA PackageIsMessage ==
    ASSUME DecoderInv, count + 1 > NewMax(count + 1)
    PROVE  Package(count + 1, Samples(count + 1)) \in PackageSet \ {Zero}
<1>1. Package(count + 1, Samples(count + 1)).type # Zero.type
  BY DEF Package, Zero
<1> QED
  BY <1>1, PackageFits

\* The end of a reception puts a package: in time if sem_task waits for it
\* with the place cleared, late otherwise.
LEMMA HandOverPuts ==
    ASSUME TypeOK, DecoderInv, Cleared,
           NEW next, end_clock(next), count + 1 > NewMax(count + 1)
    PROVE  Mailbox!PutInTime \/ Mailbox!PutLate
<1> DEFINE p == Package(count + 1, Samples(count + 1))
<1>1. /\ gelen' = p /\ semaphore' = TRUE /\ UNCHANGED <<task, adres, handled>>
      /\ delivered' = Append(delivered, p)
      /\ overrun' = (overrun \/ semaphore \/ task # "take")
  BY DEF end_clock, HandOver, replier
<1>2. p \in PackageSet \ {Zero}
  BY PackageIsMessage
<1>3. delivered \in Seq(PackageSet) /\ overrun \in BOOLEAN /\ semaphore \in BOOLEAN
  BY DEF TypeOK, HistoryOK, Flags
<1> HIDE DEF p
<1>4. Len(delivered') = Len(delivered) + 1 /\ delivered'[Len(delivered')] = p
  BY <1>1, <1>2, <1>3, AppendProperties
<1>5. Mailbox!Put /\ Mailbox!Arrival = p
  BY <1>1, <1>2, <1>4 DEF Mailbox!Put, Mailbox!Arrival, Opened
<1>6. CASE task = "take" /\ ~semaphore
  <2>1. Slot = Zero /\ Owed = 0
    BY <1>6 DEF Cleared, Slot, Owed
  <2>2. Slot' = p /\ Owed' = 1
    BY <1>1, <1>6 DEF Slot, Owed
  <2>3. UNCHANGED overrun
    BY <1>1, <1>3, <1>6
  <2> QED
    BY <1>5, <2>1, <2>2, <2>3 DEF Mailbox!PutInTime
<1>7. CASE ~(task = "take" /\ ~semaphore)
  <2>1. Slot' \in {p, Slot}
    BY <1>1 DEF Slot
  <2>2. Owed' \in {Owed, Owed + 1} /\ Owed' \in 1..2
    BY <1>1, <1>3 DEF Owed
  <2>3. overrun' = TRUE
    BY <1>1, <1>7
  <2> QED
    BY <1>1, <1>5, <2>1, <2>2, <2>3 DEF Mailbox!PutLate
<1> QED
  BY <1>6, <1>7

\* The steps that neither hand over nor read gelen leave the mailbox as it is.
LEMMA MailboxUntouched ==
    ASSUME UNCHANGED <<Slot, Opened, Owed, delivered, handled, overrun>>
    PROVE  UNCHANGED Mailbox!mvars
BY DEF Mailbox!mvars

LEMMA RefinementStep ==
    TypeOK /\ DecoderInv /\ Cleared /\ [Next]_vars => [Mailbox!Next]_(Mailbox!mvars)
<1> SUFFICES ASSUME TypeOK, DecoderInv, Cleared, [Next]_vars
             PROVE  Mailbox!Next \/ UNCHANGED Mailbox!mvars
  OBVIOUS
<1> USE DEF bus, decoder, mailbox, replier, gauge, history
<1>1. ASSUME NEW next \in {"armed", "early"}, end_clock(next)
      PROVE  Mailbox!Next \/ UNCHANGED Mailbox!mvars
  <2>1. CASE count + 1 > NewMax(count + 1)
    BY <1>1, <2>1, HandOverPuts DEF Mailbox!Next
  <2>2. CASE ~(count + 1 > NewMax(count + 1))
    BY <1>1, <2>2, MailboxUntouched DEF end_clock, Counting, Slot, Opened, Owed
  <2> QED
    BY <2>1, <2>2
<1>2. CASE ReadAddress
  <2>1. Slot = gelen /\ UNCHANGED <<Slot, Owed, delivered, handled, overrun>>
    BY <1>2 DEF ReadAddress, Slot, Owed
  <2>2. Owed > 0
    BY <1>2 DEF ReadAddress, Owed, TypeOK, Flags
  <2>3. Opened = <<>> /\ Opened' = <<gelen>>
    BY <1>2 DEF ReadAddress, Opened
  <2> QED
    BY <2>1, <2>2, <2>3 DEF Mailbox!ReadAddress, Mailbox!Next
<1>3. CASE ReadData
  <2>1. Slot = gelen /\ Slot' = Zero
    BY <1>3 DEF ReadData, Slot
  <2>2. Owed' = Owed - 1
    BY <1>3 DEF ReadData, Owed, TypeOK, Flags
  <2>3. Opened = <<adres>> /\ Opened # <<>> /\ Opened' = <<>>
    BY <1>3 DEF ReadData, Opened
  <2>4. handled' = Append(handled, [address |-> Opened[1], data |-> Slot])
    BY <1>3, <2>1, <2>3 DEF ReadData
  <2> QED
    BY <1>3, <2>1, <2>2, <2>3, <2>4 DEF ReadData, Mailbox!ReadData, Mailbox!Next
<1>4. CASE SemTake \/ Clear
  BY <1>4, MailboxUntouched DEF SemTake, Clear, Slot, Opened, Owed
<1>5. CASE NoReply \/ BackwordBegin \/ ListenBusy \/ ListenFree \/ ReplySent
  BY <1>5, MailboxUntouched
     DEF NoReply, BackwordBegin, ListenBusy, ListenFree, ReplySent, Slot, Opened,
         Owed
<1>6. CASE UNCHANGED <<task, adres, mailbox, handled>>
  BY <1>6, MailboxUntouched DEF Slot, Opened, Owed
<1> QED
  BY <1>1, <1>2, <1>3, <1>4, <1>5, <1>6
     DEF Next, HalfPeriod, PeerSend, CutLine, RestoreLine, Supply, Tick,
         EarlyTick, SemTask, AdcTask, AdcCheck, AdcRead1, AdcRead2, AdcRead3,
         Adc_Olcum, AdcBad, AdcGood, AdcVerdict, vars

LEMMA ClearedCorrect == Spec => []Cleared
<1>1. Init => Cleared
  BY ClearedInitially
<1>2. TypeOK /\ Cleared /\ [Next]_vars => Cleared'
  BY ClearedStep
<1> QED
  BY <1>1, <1>2, TypeCorrect, PTL DEF Spec

\* end_clock, the semaphore, sem_task and the two reads of dali_callback
\* implement the mailbox: every step of the driver puts a package, reads the
\* place once, or leaves the mailbox alone.
THEOREM DriverIsMailbox == Spec => GivenOnce
<1>1. Init => Mailbox!Init
  BY DEF Init, Mailbox!Init, Slot, Opened, Owed
<1>2. TypeOK /\ DecoderInv /\ Cleared /\ [Next]_vars => [Mailbox!Next]_(Mailbox!mvars)
  BY RefinementStep
<1> QED
  BY <1>1, <1>2, TypeCorrect, DecoderCorrect, ClearedCorrect, PTL
     DEF Spec, GivenOnce, Mailbox!Spec

\* What the mailbox keeps, read in the driver's variables.
LEMMA MailboxReadsInOrder ==
    TypeOK /\ MP!MailboxInv => HandledInOrder
<1> SUFFICES ASSUME TypeOK, MP!MailboxInv, ~overrun PROVE
             /\ handled = [i \in 1..Len(handled) |->
                              [address |-> delivered[i], data |-> delivered[i]]]
             /\ Len(delivered) - Len(handled)
                  = IF semaphore \/ task \in {"callback", "address"} THEN 1 ELSE 0
  BY DEF HandledInOrder
<1>1. /\ Owed \in {0, 1} /\ Len(delivered) = Len(handled) + Owed
      /\ handled = [i \in 1..Len(handled) |->
                       [address |-> delivered[i], data |-> delivered[i]]]
  BY DEF MP!MailboxInv, MP!NothingLost
<1>2. Len(handled) \in Nat
  BY LenProperties DEF TypeOK, HistoryOK
<1>3. Owed = IF semaphore \/ task \in {"callback", "address"} THEN 1 ELSE 0
  BY <1>1 DEF Owed, TypeOK, Flags
<1> QED
  BY <1>1, <1>2, <1>3

\* As long as no package comes late, the application is given every package
\* once, whole and in its order.
THEOREM PackagesInOrder == Spec => []HandledInOrder
<1>1. Spec => Mailbox!Spec
  BY DriverIsMailbox DEF GivenOnce
<1>2. MP!Spec => []MP!MailboxInv
  BY MP!MailboxCorrect
<1>3. Mailbox!Init => MP!Init
  BY DEF Mailbox!Init, MP!Init
<1>4. [Mailbox!Next]_(Mailbox!mvars) => [MP!Next]_(MP!mvars)
  BY DEF Mailbox!Next, Mailbox!PutInTime, Mailbox!PutLate, Mailbox!ReadAddress,
         Mailbox!ReadData, Mailbox!Put, Mailbox!Arrival, Mailbox!mvars,
         MP!Next, MP!PutInTime, MP!PutLate, MP!ReadAddress, MP!ReadData, MP!Put,
         MP!Arrival, MP!mvars
<1>5. TypeOK /\ MP!MailboxInv => HandledInOrder
  BY MailboxReadsInOrder
<1> QED
  BY <1>1, <1>2, <1>3, <1>4, <1>5, TypeCorrect, PTL DEF Mailbox!Spec, MP!Spec
=============================================================================

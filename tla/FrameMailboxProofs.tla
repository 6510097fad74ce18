------------------------- MODULE FrameMailboxProofs -------------------------
(***************************************************************************)
(* What every mailbox of FrameMailbox keeps, for any set of messages.      *)
(***************************************************************************)
EXTENDS FrameMailbox, SequenceTheorems, TLAPS

MailboxInv == MailboxOK /\ NothingLost /\ CallsCovered

Call == [address : Read, data : Read]

LEMMA MailboxInitially == Init => MailboxInv
<1> SUFFICES ASSUME Init PROVE MailboxInv
  OBVIOUS
<1>1. delivered \in Seq(Message) /\ handled \in Seq([address : Read, data : Read])
  BY EmptySeq DEF Init
<1>2. Len(handled) = 0 /\ Len(delivered) = 0
  BY EmptySeq DEF Init
<1>3. slot \in Read /\ owed \in 0..2 /\ overrun \in BOOLEAN
  <2>1. owed \in 0..2
    BY SMT DEF Init
  <2>2. slot \in Read /\ overrun \in BOOLEAN
    BY Zenon DEF Init, Read
  <2> QED
    BY <2>1, <2>2
<1>4. MailboxOK
  BY <1>1, <1>3 DEF MailboxOK, Init
<1>5. handled = [i \in 1..Len(handled) |->
                    [address |-> delivered[i], data |-> delivered[i]]]
  BY <1>2 DEF Init
<1>6. NothingLost
  BY <1>2, <1>5 DEF Init, NothingLost
<1>7. CallsCovered
  BY <1>2 DEF Init, CallsCovered
<1> QED
  BY <1>4, <1>6, <1>7 DEF MailboxInv

\* What a message put does to the history of messages, and that the calls
\* made before are still read out of it.
LEMMA PutGrows ==
    ASSUME MailboxOK, Put
    PROVE  /\ Arrival \in Message
           /\ delivered' \in Seq(Message)
           /\ Len(delivered') = Len(delivered) + 1
           /\ delivered'[Len(delivered')] = Arrival
           /\ Len(delivered) \in Nat /\ Len(handled) \in Nat
           /\ \A i \in 1..Len(delivered) : delivered'[i] = delivered[i]
BY AppendProperties, LenProperties DEF MailboxOK, Put

\* A call that reads whole the next message makes the calls up to it whole.
LEMMA CallGrows ==
    ASSUME NEW m \in Read,
           delivered \in Seq(Message), handled \in Seq(Call),
           Len(delivered) = Len(handled) + 1, m = delivered[Len(delivered)],
           handled = [i \in 1..Len(handled) |->
                         [address |-> delivered[i], data |-> delivered[i]]],
           NEW h, h = Append(handled, [address |-> m, data |-> m])
    PROVE  h = [i \in 1..Len(h) |-> [address |-> delivered[i], data |-> delivered[i]]]
<1> DEFINE n == Len(handled)
           w(i) == [address |-> delivered[i], data |-> delivered[i]]
<1>1. n \in Nat
  BY LenProperties
<1>2. /\ h \in Seq(Call) /\ Len(h) = n + 1
      /\ \A i \in 1..n : h[i] = handled[i]
      /\ h[n + 1] = [address |-> m, data |-> m]
  BY AppendProperties DEF Call
<1>3. h = [i \in 1..(n + 1) |-> h[i]]
  BY <1>2, LenProperties
<1>4. ASSUME NEW i \in 1..(n + 1) PROVE h[i] = w(i)
  <2>1. CASE i \in 1..n
    BY <1>2, <2>1
  <2>2. CASE i = n + 1
    BY <1>2, <2>2
  <2> QED
    BY <1>1, <2>1, <2>2
<1> QED
  BY <1>2, <1>3, <1>4

LEMMA MailboxStep == MailboxInv /\ [Next]_mvars => MailboxInv'
<1> SUFFICES ASSUME MailboxInv, [Next]_mvars PROVE MailboxInv'
  OBVIOUS
<1> USE DEF Read
<1>1. CASE PutInTime
  <2>1. MailboxOK' /\ CallsCovered'
    BY <1>1, PutGrows DEF PutInTime, Put, MailboxInv, MailboxOK, CallsCovered
  <2>2. ASSUME ~overrun'
        PROVE  /\ Len(delivered) = Len(handled) /\ opened = <<>>
               /\ handled = [i \in 1..Len(handled) |->
                                [address |-> delivered[i], data |-> delivered[i]]]
    BY <1>1, <2>2 DEF PutInTime, MailboxInv, MailboxOK, NothingLost
  <2>3. ASSUME ~overrun'
        PROVE  handled' = [i \in 1..Len(handled') |->
                              [address |-> delivered'[i], data |-> delivered'[i]]]
    <3>1. Put
      BY <1>1 DEF PutInTime
    <3>2. \A i \in 1..Len(handled) : delivered'[i] = delivered[i]
      BY <2>2, <2>3, <3>1, PutGrows DEF MailboxInv
    <3> QED
      BY <2>2, <2>3, <3>1, <3>2 DEF Put
  <2>4. NothingLost'
    BY <1>1, <2>2, <2>3, PutGrows DEF PutInTime, Put, MailboxInv, NothingLost
  <2> QED
    BY <2>1, <2>4 DEF MailboxInv
<1>2. CASE PutLate
  <2>1. MailboxOK' /\ CallsCovered'
    BY <1>2, PutGrows DEF PutLate, Put, MailboxInv, MailboxOK, CallsCovered
  <2>2. NothingLost'
    BY <1>2 DEF PutLate, NothingLost
  <2> QED
    BY <2>1, <2>2 DEF MailboxInv
<1>3. CASE ReadAddress
  <2>1. MailboxOK' /\ CallsCovered'
    BY <1>3 DEF ReadAddress, MailboxInv, MailboxOK, CallsCovered
  <2>2. NothingLost'
    BY <1>3 DEF ReadAddress, MailboxInv, NothingLost
  <2> QED
    BY <2>1, <2>2 DEF MailboxInv
<1>4. CASE ReadData
  <2>1. opened[1] \in Read /\ owed \in 1..2
    BY <1>4 DEF ReadData, MailboxInv, MailboxOK
  <2>2. /\ handled' \in Seq([address : Read, data : Read])
        /\ Len(handled') = Len(handled) + 1
        /\ Len(handled) \in Nat /\ Len(delivered) \in Nat
    <3>1. [address |-> opened[1], data |-> slot] \in [address : Read, data : Read]
      BY <2>1 DEF MailboxInv, MailboxOK
    <3> QED
      BY <1>4, <3>1, AppendProperties, LenProperties DEF ReadData, MailboxInv, MailboxOK
  <2>3. MailboxOK' /\ CallsCovered'
    BY <1>4, <2>1, <2>2 DEF ReadData, MailboxInv, MailboxOK, CallsCovered
  <2>4. ASSUME ~overrun'
        PROVE  handled' = [i \in 1..Len(handled') |->
                              [address |-> delivered'[i], data |-> delivered'[i]]]
    <3>1. /\ owed = 1 /\ slot = delivered[Len(delivered)] /\ opened[1] = slot
          /\ Len(delivered) = Len(handled) + 1
          /\ handled = [i \in 1..Len(handled) |->
                           [address |-> delivered[i], data |-> delivered[i]]]
      BY <1>4, <2>1, <2>4 DEF ReadData, MailboxInv, NothingLost
    <3>2. slot \in Read /\ delivered \in Seq(Message) /\ handled \in Seq(Call)
      BY DEF MailboxInv, MailboxOK, Call
    <3>3. handled' = Append(handled, [address |-> slot, data |-> slot])
      BY <1>4, <3>1 DEF ReadData
    <3>4. handled' = [i \in 1..Len(handled') |->
                         [address |-> delivered[i], data |-> delivered[i]]]
      BY <3>1, <3>2, <3>3, CallGrows
    <3> QED
      BY <1>4, <3>4 DEF ReadData
  <2>5. NothingLost'
    BY <1>4, <2>1, <2>2, <2>4 DEF ReadData, MailboxInv, MailboxOK, NothingLost
  <2> QED
    BY <2>3, <2>5 DEF MailboxInv
<1>5. CASE UNCHANGED mvars
  BY <1>5 DEF mvars, MailboxInv, MailboxOK, NothingLost, CallsCovered
<1> QED
  BY <1>1, <1>2, <1>3, <1>4, <1>5 DEF Next

\* A mailbox loses nothing, doubles nothing, invents nothing and mixes nothing
\* as long as every message comes in time, and never makes more calls than
\* there were messages.
THEOREM MailboxCorrect == Spec => []MailboxInv
<1>1. Init => MailboxInv
  BY MailboxInitially
<1>2. MailboxInv /\ [Next]_mvars => MailboxInv'
  BY MailboxStep
<1> QED
  BY <1>1, <1>2, PTL DEF Spec
=============================================================================

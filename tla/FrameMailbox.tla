---------------------------- MODULE FrameMailbox ----------------------------
(***************************************************************************)
(* What the DALI driver promises the application about the packages it     *)
(* receives: a mailbox with one place (Dali::gelen) and a debt of calls.   *)
(*                                                                         *)
(* A package is put into the place; each call of the callback reads the    *)
(* place twice, for the address and for the data, and leaves it empty, so  *)
(* no package is acted on twice.  The driver owes one call for each        *)
(* package, but remembers at most one debt beside the call that is being   *)
(* made.  A package put in time finds the place empty and nothing owed;    *)
(* one that comes late may replace the package before it, even between the *)
(* two reads of a call, may be lost at once, and may go without a call.    *)
(***************************************************************************)
EXTENDS Integers, Sequences

CONSTANTS
    Message,    \* what may be put into the mailbox
    Empty       \* the place without a package

VARIABLES
    slot,       \* what the next read would be given
    opened,     \* what the call that is being made has read: nothing, or once
    owed,       \* calls still to be made, and the one that is being made
    delivered,  \* history: the packages put, in order
    handled,    \* history: what each call read
    overrun     \* history: some package came late

mvars == <<slot, opened, owed, delivered, handled, overrun>>

Init ==
    /\ slot = Empty /\ opened = <<>> /\ owed = 0
    /\ delivered = <<>> /\ handled = <<>>
    /\ overrun = FALSE

\* The package that a step has put.
Arrival == delivered'[Len(delivered')]

Put == /\ Len(delivered') = Len(delivered) + 1
       /\ Arrival \in Message
       /\ delivered' = Append(delivered, Arrival)
       /\ UNCHANGED <<opened, handled>>

\* The package before it was taken, and the call for it has returned.
PutInTime ==
    /\ Put
    /\ slot = Empty /\ owed = 0
    /\ slot' = Arrival /\ owed' = 1
    /\ UNCHANGED overrun

\* It comes while a call is owed, is being made, or has not returned.
PutLate ==
    /\ Put
    /\ slot' \in {Arrival, slot}
    /\ owed' \in {owed, owed + 1} /\ owed' \in 1..2
    /\ overrun' = TRUE

ReadAddress ==
    /\ owed > 0 /\ opened = <<>>
    /\ opened' = <<slot>>
    /\ UNCHANGED <<slot, owed, delivered, handled, overrun>>

ReadData ==
    /\ opened # <<>>
    /\ handled' = Append(handled, [address |-> opened[1], data |-> slot])
    /\ opened' = <<>> /\ slot' = Empty /\ owed' = owed - 1
    /\ UNCHANGED <<delivered, overrun>>

Next == PutInTime \/ PutLate \/ ReadAddress \/ ReadData

Spec == Init /\ [][Next]_mvars

-----------------------------------------------------------------------------
Read == Message \cup {Empty}

MailboxOK == /\ slot \in Read /\ owed \in 0..2
             /\ opened \in {<<>>} \cup {<<m>> : m \in Read}
             /\ opened # <<>> => owed > 0
             /\ delivered \in Seq(Message)
             /\ handled \in Seq([address : Read, data : Read])
             /\ overrun \in BOOLEAN

\* As long as no package came late, the application has been given all of
\* them but the one that lies in the place, in their order, the address and
\* the data of each call out of the same package, and never an empty one.
NothingLost ==
    ~overrun =>
        /\ \/ owed = 0 /\ slot = Empty
           \/ owed = 1 /\ slot = delivered[Len(delivered)]
        /\ opened # <<>> => opened[1] = slot
        /\ Len(delivered) = Len(handled) + owed
        /\ handled = [i \in 1..Len(handled) |->
                         [address |-> delivered[i], data |-> delivered[i]]]

\* There are never more calls than packages.
CallsCovered == Len(handled) + owed <= Len(delivered)
=============================================================================

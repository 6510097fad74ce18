--------------------------- MODULE MCDaliReceiver ---------------------------
(* Instances of DaliReceiver for TLC.                                      *)
EXTENDS DaliReceiver

\* Every address byte; longer frames vary the bits around the two windows of
\* end_clock (bits 8..11 and 16..19), where the length is decided.
AllBytes == Byte

Padded(n, from, w) ==
    [i \in 1..n |-> IF i \in from..(from + 3) THEN w[i - from + 1] ELSE i % 2]

DecodeFrames ==
    AllBytes
      \cup {Padded(16, 8, w)  : w \in [1..4 -> Bit]}
      \cup {Padded(16, 13, w) : w \in [1..4 -> Bit]}
      \cup {Padded(24, 8, w)  : w \in [1..4 -> Bit]}
      \cup {Padded(24, 16, w) : w \in [1..4 -> Bit]}
      \cup {Padded(24, 21, w) : w \in [1..4 -> Bit]}

NoReplies == {}

AByte     == <<1, 0, 1, 1, 0, 0, 1, 0>>
ALong     == <<1, 1, 1, 1, 1, 1, 1, 0, 1, 0, 0, 0, 0, 0, 0, 1>>
MixFrames == {AByte, ALong}
OneFrame  == {ALong}
ByteOnly  == {AByte}
OneReply  == {<<0, 0, 0, 0, 1, 1, 1, 1>>}
=============================================================================

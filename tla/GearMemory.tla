----------------------------- MODULE GearMemory -----------------------------
(***************************************************************************)
(* What the dimmer of main/dimmer.cpp keeps in flash: nvm of dimmer.h and  *)
(* nvm_variable_process, the commands that set a value, the groups, and    *)
(* the addresses.  Memory and flash are functions from the names nvm is    *)
(* called with to bytes.                                                   *)
(*                                                                         *)
(* nvm writes one name by its own commit, so what a command has to write   *)
(* is a set of writes, which are carried out one step after the other.     *)
(***************************************************************************)
EXTENDS TriacLevels

CONSTANT Scenes   \* the scenes; the code has 0..15

\* The two that share a place are there together.
ASSUME ScenesAssumption == Scenes \subseteq 0..15 /\ (8 \in Scenes <=> 9 \in Scenes)

Scene(i) == <<"scene", i>>
Gear(i)  == <<"gear", i>>
One(name) == <<name, 0>>

\* The names in flash.  search_address and random_address are in it too.
Given == {"power_on_level", "system_failure", "min_level", "max_level",
          "fade_rate", "fade_time", "time_base", "time_multip", "short_address"}
Key == ((Given \cup {"actual"}) \X {0}) \cup ({"search", "random"} \X (0..2))
       \cup ({"gear"} \X (0..1)) \cup ({"scene"} \X Scenes)

physical_min_level == 35

\* The values nvm_variable_process passes for a name that is not there.
Default(k) ==
    CASE k[1] \in {"actual", "power_on_level", "system_failure", "max_level"} -> 254
      [] k[1] = "min_level" -> physical_min_level
      [] k[1] = "fade_rate" -> 7
      [] k[1] \in {"fade_time", "time_multip", "gear"} -> 0
      [] k[1] = "time_base" -> 1
      [] OTHER -> 255

\* Where the value of a name is kept: scene 9 has the address of scene 8.
Place(k) == IF k = Scene(9) THEN Scene(8) ELSE k

\* NM_INIT: what flash does not hold is written to it; the names are gone
\* through in order, so that the last one of a place decides.
FlashInit(nvs) == [k \in Key |-> IF k \in DOMAIN nvs THEN nvs[k] ELSE Default(k)]

MemoryInit(mem, nvs) ==
    [k \in Key |-> CASE k = Scene(9) -> mem[k]
                     [] k = Scene(8) -> FlashInit(nvs)[Scene(9)]
                     [] OTHER        -> FlashInit(nvs)[k]]

\* The order in which nvm_variable_process goes through the names.
Position == [actual |-> 1, power_on_level |-> 2, system_failure |-> 3, min_level |-> 4,
             max_level |-> 5, fade_rate |-> 6, fade_time |-> 7, time_base |-> 8,
             time_multip |-> 9, short_address |-> 10, search |-> 11, random |-> 12,
             gear |-> 13, scene |-> 14]
Rank(k) == 16 * Position[k[1]] + k[2]

\* A call of nvm: the variable "at" is assigned (by the command itself, or by
\* NM_RESET), its value is committed under "name", and NM_RESET reads it back.
Writes == [name : Key, at : Key, value : Level, do : {"assign", "commit", "read"},
           back : BOOLEAN]

Assigning(k, byte) == [name |-> k, at |-> k, value |-> byte, do |-> "assign", back |-> FALSE]

\* What is assigned already.
Committing(k) == [name |-> k, at |-> Place(k), value |-> 0, do |-> "commit", back |-> FALSE]

\* NM_WRITE, and NM_RESET, which spares the short address.
WriteProcess == {Committing(k) : k \in Key}
ResetProcess == {[name |-> k, at |-> Place(k), value |-> Default(k), do |-> "assign", back |-> TRUE]
                    : k \in Key \ {One("short_address")}}

-----------------------------------------------------------------------------
(* Bytes by their bits.                                                    *)

\* pow(2, i) in a uint8_t, for i in 0..7.
Power(i) == <<1, 2, 4, 8, 16, 32, 64, 128>>[i + 1]

Bit(byte, i) == (byte \div Power(i)) % 2 = 1

\* (Seeded: added, whatever is there.)
WithBit_add(byte, i) == byte + Power(i)

WithBit(byte, i)    == IF Bit(byte, i) THEN byte ELSE byte + Power(i)
WithoutBit(byte, i) == IF Bit(byte, i) THEN byte - Power(i) ELSE byte

\* The byte and the bit of a group in command_config.
GearOf(group) == Gear(group \div 8)
BitOf(group)  == group % 8

\* is_group_address: pow(2, addr) does not fit a uint8_t from 8 on, and the
\* second byte is asked from 9 on.  (Seeded: with the number itself.)
is_group_address_high(mem, addr) ==
    /\ addr <= 15
    /\ ~(mem[Gear(0)] = 255 /\ mem[Gear(1)] = 255)
    /\ \/ addr < 8 /\ Bit(mem[Gear(0)], addr)
       \/ addr > 8 /\ Bit(mem[Gear(1)], addr - 9)

is_group_address(mem, addr) ==
    /\ addr <= 15
    /\ ~(mem[Gear(0)] = 255 /\ mem[Gear(1)] = 255)
    /\ \/ addr < 8 /\ Bit(mem[Gear(0)], addr)
       \/ addr > 8 /\ Bit(mem[Gear(1)], addr - 8)

\* is_equal compares a fourth byte too, which convert_long does not set.
is_equal(mem, restEqual) ==
    restEqual /\ \A i \in 0..2 : mem[<<"random", i>>] = mem[<<"search", i>>]
=============================================================================

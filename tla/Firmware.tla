------------------------------ MODULE Firmware ------------------------------
(***************************************************************************)
(* The firmware as a whole, from power on: app_main (main/main.cpp) with   *)
(* config (main/tool/config.cpp), TriacDimmer's init and start, and        *)
(* dali_callback, which sem_task calls for a package.                      *)
(*                                                                         *)
(*   - app_main reads the settings, writes the defaults where there are    *)
(*     none, lists the directory, starts the DALI driver and only then     *)
(*     prepares the dimmer;                                                *)
(*   - packages come as soon as the driver runs; dali_callback selects     *)
(*     those for this unit and calls the dimmer;                           *)
(*   - the mains may fail at any moment, also between two chunks of a      *)
(*     file; what is in memory is then gone.                               *)
(*                                                                         *)
(* A fade is only a time in which the next one is refused; TriacDimmer     *)
(* has its steps.  A package is what DaliReceiver hands over, with its     *)
(* address byte taken apart (unpackage_address, a library function).       *)
(* initialize_mod is never set and has no variable.                        *)
(*                                                                         *)
(* A definition named X_y is X with a seeded fault: no specification uses  *)
(* it; it is put in the place of X to see that a property notices.         *)
(***************************************************************************)
EXTENDS Storage, NameMatch

CONSTANTS
    Packages,   \* the packages other units send, and the empty one
    Stored      \* what the file of the dimmer may hold at the first power on:
                \* records like DefaultHead, of a unit that has an address

Level  == 0..255
Groups == 0..15
Chunk  == 1..2
Number == 0..63      \* of a short address or a group, in an address byte

\* What the first chunk of variable_t keeps for the built operations, and what
\* the last one keeps; those between hold the memory banks, which nobody uses.
Heads == [actual : Level, power_on : Level, min : Level, max : Level,
          short : Level, groups : SUBSET Groups]
Tails == [lamp_on : BOOLEAN]
Image == Heads \X Tails

PackageSet == [type : {"none", "BLOCK_8", "BLOCK_16", "BLOCK_24"},
               to : {"short", "group", "broadcast", "special", "error"},
               number : Number, arc : BOOLEAN, data : Level]

ASSUME PackagesAssumption == Packages \subseteq PackageSet
ASSUME StoredAssumption == Stored \subseteq Heads

VARIABLES
    at,        \* where app_main is: its step, the file it works on, the chunk
    settings,  \* GlobalConfig and NetworkConfig, by chunk
    listed,    \* the files Storage::list has shown
    var,       \* TriacDimmer::var, by chunk
    fading,    \* fade_running
    saving,    \* the chunk sem_task writes next; 0 when no operation runs
    files,     \* what the file system holds
    kept,      \* history: the levels the file may come back with
    early,     \* history: an operation ran before var had been read
    torn       \* history: the mains failed inside a file of settings

memory  == <<at, settings, listed, var, fading, saving>>
history == <<kept, early, torn>>
vars    == <<memory, files, history>>

ConfigFile == {"GLOBAL_FILE", "NETWORK_FILE"}
File       == ConfigFile \cup {"file_name"}

\* "/config/config.bin", "/config/network.bin", "/config/cfg13.bin" and "*.*",
\* each word cut to a letter.
Path(f) == CASE f = "GLOBAL_FILE"  -> <<Slash, 99, Slash, 99, Dot, 98>>
             [] f = "NETWORK_FILE" -> <<Slash, 99, Slash, 110, Dot, 98>>
             [] f = "file_name"    -> <<Slash, 99, Slash, 51, Dot, 98>>
AllNames == <<Star, Dot, Star>>

\* A chunk of settings, before and after its fields have been filled in.
Fill  == {"blank", "filled"}
Unset == <<"blank", "blank">>
Set   == <<"filled", "filled">>

BlankHead   == [actual |-> 0, power_on |-> 0, min |-> 0, max |-> 0,
                short |-> 0, groups |-> {}]
DefaultHead == [actual |-> 0, power_on |-> 128, min |-> 35, max |-> 254,
                short |-> 255, groups |-> {}]
Blank    == <<BlankHead, [lamp_on |-> FALSE]>>
Defaults == <<DefaultHead, [lamp_on |-> FALSE]>>

Step(step, file, chunk) == [step |-> step, file |-> file, chunk |-> chunk]
Goto(step) == at' = Step(step, "file_name", 1)
PowerOn    == Step("read", "GLOBAL_FILE", 1)

Init ==
    /\ at = PowerOn
    /\ settings = [f \in ConfigFile |-> Unset]
    /\ listed = {} /\ var = Blank /\ fading = FALSE /\ saving = 0
    /\ \E dimmer \in {Missing} \cup {FileWith(<<h, [lamp_on |-> TRUE]>>) : h \in Stored} :
          /\ files = [f \in File |-> IF f = "file_name" THEN dimmer ELSE Missing]
          /\ kept = IF file_size(dimmer) = 0 THEN {} ELSE {dimmer.data[1].actual}
    /\ early = FALSE /\ torn = FALSE

\* The mains fail and come back, or the chip restarts after abort or after
\* an access to an object that is not there yet: only the files survive.
Restart ==
    /\ at' = PowerOn
    /\ settings' = [f \in ConfigFile |-> Unset]
    /\ listed' = {} /\ var' = Blank /\ fading' = FALSE /\ saving' = 0
    /\ torn' = (torn \/ \E f \in ConfigFile : file_size(files[f]) = 1)
    /\ UNCHANGED <<files, kept, early>>

-----------------------------------------------------------------------------
(* app_main: config.                                                       *)

\* open_default and home_default are the first fields of their structures:
\* the settings count as recorded when the first chunk is.
Recorded(setting) == setting[1] = "filled"

\* What comes when the settings of f are there.  (Seeded: the second file is
\* left out.)
AfterConfig_skip(f) == at' = Step("list", "file_name", 1)

AfterConfig(f) ==
    at' = IF f = "GLOBAL_FILE" THEN Step("read", "NETWORK_FILE", 1)
                               ELSE Step("list", "file_name", 1)

ReadConfig ==
    /\ at.step = "read"
    /\ settings' = [settings EXCEPT ![at.file] = read_file(files[at.file], @)]
    /\ IF Recorded(settings'[at.file]) THEN AfterConfig(at.file)
                             ELSE at' = [at EXCEPT !.step = "default"]
    /\ UNCHANGED <<listed, var, fading, saving, files, history>>

\* The flag of the structure is not filled in.
default_config_unset ==
    /\ at.step = "default"
    /\ settings' = [settings EXCEPT ![at.file] = <<"blank", "filled">>]
    /\ files' = [files EXCEPT ![at.file] = file_control(@)]
    /\ at' = [at EXCEPT !.step = "write"]
    /\ UNCHANGED <<listed, var, fading, saving, history>>

\* default_config and network_default_config up to file_control.
default_config ==
    /\ at.step = "default"
    /\ settings' = [settings EXCEPT ![at.file] = Set]
    /\ files' = [files EXCEPT ![at.file] = file_control(@)]
    /\ at' = [at EXCEPT !.step = "write"]
    /\ UNCHANGED <<listed, var, fading, saving, history>>

NextChunk(last) ==
    at' = IF at.chunk = 2 THEN [at EXCEPT !.step = last, !.chunk = 1]
                          ELSE [at EXCEPT !.chunk = @ + 1]

WriteConfig ==
    /\ at.step = "write"
    /\ files' = [files EXCEPT ![at.file] = write_chunk(@, settings[at.file], at.chunk)]
    /\ NextChunk("check")
    /\ UNCHANGED <<settings, listed, var, fading, saving, history>>

\* They are read again; FATAL_MSG aborts if the flag is not there.
CheckConfig ==
    /\ at.step = "check"
    /\ settings' = [settings EXCEPT ![at.file] = read_file(files[at.file], @)]
    /\ IF Recorded(settings'[at.file]) THEN AfterConfig(at.file)
                             ELSE at' = [at EXCEPT !.step = "abort"]
    /\ UNCHANGED <<listed, var, fading, saving, files, history>>

\* The list is made with FNM_PATHNAME.
list_pathname ==
    /\ at.step = "list"
    /\ listed' = {f \in File : /\ file_search(files[f])
                               /\ fnmatch(AllNames, Path(f), {"FNM_PERIOD", "FNM_PATHNAME"})}
    /\ Goto("initialize")
    /\ UNCHANGED <<settings, var, fading, saving, files, history>>

list ==
    /\ at.step = "list"
    /\ listed' = {f \in File : /\ file_search(files[f])
                               /\ fnmatch(AllNames, Path(f), {"FNM_PERIOD"})}
    /\ Goto("initialize")
    /\ UNCHANGED <<settings, var, fading, saving, files, history>>

-----------------------------------------------------------------------------
(* app_main: dali.initialize, dimmer.init, dimmer.start.                   *)

\* From here on packages are handed to dali_callback.
DaliInitialize ==
    /\ at.step = "initialize"
    /\ Goto("name")
    /\ UNCHANGED <<settings, listed, var, fading, saving, files, history>>

Receiving == at.step \in {"name", "size", "control", "save", "load", "start", "up"}

\* init sets disk and file_name.
InitName ==
    /\ at.step = "name"
    /\ Goto("size")
    /\ UNCHANGED <<settings, listed, var, fading, saving, files, history>>

\* It does not ask for the size.
InitSize_always ==
    /\ at.step = "size"
    /\ var' = Defaults /\ Goto("control")
    /\ UNCHANGED <<settings, listed, fading, saving, files, history>>

InitSize ==
    /\ at.step = "size"
    /\ IF file_size(files["file_name"]) = 0
       THEN var' = Defaults /\ Goto("control")
       ELSE Goto("load") /\ UNCHANGED var
    /\ UNCHANGED <<settings, listed, fading, saving, files, history>>

\* The size is asked again before anything is written.
InitControl_again ==
    /\ at.step = "control"
    /\ files' = [files EXCEPT !["file_name"] = file_control(@)]
    /\ Goto("size")
    /\ UNCHANGED <<settings, listed, var, fading, saving, history>>

InitControl ==
    /\ at.step = "control"
    /\ files' = [files EXCEPT !["file_name"] = file_control(@)]
    /\ Goto("save")
    /\ UNCHANGED <<settings, listed, var, fading, saving, history>>

\* write_file takes var as it is when the chunk is written.
InitSave ==
    /\ at.step = "save"
    /\ files' = [files EXCEPT !["file_name"] = write_chunk(@, var, at.chunk)]
    /\ NextChunk("load")
    /\ kept' = kept \cup {var[1].actual}
    /\ UNCHANGED <<settings, listed, var, fading, saving, early, torn>>

InitLoad ==
    /\ at.step = "load"
    /\ var' = read_file(files["file_name"], var)
    /\ fading' = FALSE
    /\ Goto("start")
    /\ UNCHANGED <<settings, listed, saving, files, history>>

\* Every level has a delay of at most 10000 us: the lamp counts as on.
Start ==
    /\ at.step = "start"
    /\ var' = << [var[1] EXCEPT !.actual = IF var[1].power_on = 255 THEN @
                                           ELSE var[1].power_on],
                 [lamp_on |-> TRUE] >>
    /\ Goto("up")
    /\ UNCHANGED <<settings, listed, fading, saving, files, history>>

app_main == \/ ReadConfig \/ default_config \/ WriteConfig \/ CheckConfig \/ list
            \/ DaliInitialize \/ InitName \/ InitSize \/ InitControl \/ InitSave
            \/ InitLoad \/ Start

-----------------------------------------------------------------------------
(* dali_callback.                                                          *)

is_short_address(addr) == var[1].short <= 64 /\ var[1].short = addr

\* Only the low bits of the number are looked at.
is_group_address_low(addr) ==
    addr <= 15 /\ var[1].groups # Groups /\ \E g \in var[1].groups : g % 8 = addr % 8

\* pow(2, addr) does not fit its uint8_t from 8 on, and the second byte is
\* asked from 9 on; a unit in every group is taken for one in none.
is_group_address(addr) ==
    addr <= 15 /\ var[1].groups # Groups /\ addr # 8 /\ addr \in var[1].groups

\* Neither the type of the package is looked at, nor which of the two kinds
\* of number it carries.
my_package(p) ==
    /\ p.to \in {"short", "group"}
    /\ is_short_address(p.number) \/ is_group_address(p.number)

ForUs(p) == p.to = "broadcast" \/ my_package(p)

Clamp(level) == IF level < var[1].min THEN var[1].min
                ELSE IF level > var[1].max THEN var[1].max ELSE level

direct_arc_power(level) ==
    /\ ~fading
    /\ var' = << [var[1] EXCEPT !.actual = Clamp(level)], [lamp_on |-> TRUE] >>
    /\ fading' = TRUE

command_off ==
    /\ var[2].lamp_on
    /\ var' = << [var[1] EXCEPT !.actual = 0], [lamp_on |-> FALSE] >>
    /\ UNCHANGED fading

\* A package is handed over and an operation begins; of all others nothing
\* comes.
dali_callback(p) ==
    /\ Receiving /\ saving = 0
    /\ ForUs(p)
    /\ \/ p.arc /\ direct_arc_power(p.data)
       \/ ~p.arc /\ p.data = 0 /\ command_off
    /\ saving' = 1
    /\ kept' = kept \cup {var'[1].actual}
    /\ early' = (early \/ at.step \notin {"start", "up"})
    /\ UNCHANGED <<at, settings, listed, files, torn>>

\* Only the part that has no level is written.
SaveVar_tail ==
    /\ saving > 0
    /\ files' = [files EXCEPT !["file_name"] =
                    IF file_size(@) = 2 THEN write_chunk(@, var, 2) ELSE @]
    /\ saving' = 0
    /\ kept' = {var[1].actual}
    /\ UNCHANGED <<at, settings, listed, var, fading, early, torn>>

\* write_file at the end of the operation.  Before init has come to it there
\* is no file_name: what fopen makes of it is a file that cannot be opened,
\* or a crash, which is a Restart.
SaveVar ==
    /\ saving > 0
    /\ IF at.step = "name" \/ ~file_search(files["file_name"])
       THEN saving' = 0 /\ UNCHANGED <<files, kept>>
       ELSE /\ files' = [files EXCEPT !["file_name"] = write_chunk(@, var, saving)]
            /\ saving' = IF saving = 2 THEN 0 ELSE 2
            /\ kept' = IF saving = 2 THEN {var[1].actual} ELSE kept
    /\ UNCHANGED <<at, settings, listed, var, fading, early, torn>>

FadeOver ==
    /\ fading
    /\ fading' = FALSE
    /\ UNCHANGED <<at, settings, listed, var, saving, files, history>>

-----------------------------------------------------------------------------
Next == \/ app_main \/ Restart
        \/ \E p \in Packages : dali_callback(p)
        \/ SaveVar \/ FadeOver

Spec == Init /\ [][Next]_vars

\* app_main and sem_task are scheduled.
FairSpec == Spec /\ WF_vars(app_main) /\ WF_vars(SaveVar)

-----------------------------------------------------------------------------
(* Properties.                                                             *)

Steps == {"read", "default", "write", "check", "list", "initialize", "name", "size",
          "control", "save", "load", "start", "up", "abort"}

\* A file of at most two chunks, the first of A and the second of B.
Chunks(data, A, B) == \/ data = <<>>
                      \/ data \in [1..1 -> A]
                      \/ data \in A \X B

FileOK(file, A, B) == file.exists \in BOOLEAN /\ Chunks(file.data, A, B)

\* Every variable keeps its type; no file grows beyond its image.
TypeOK ==
    /\ at \in [step : Steps, file : File, chunk : Chunk]
    /\ settings \in [ConfigFile -> Fill \X Fill]
    /\ listed \subseteq File
    /\ var \in Image
    /\ fading \in BOOLEAN /\ saving \in 0..2
    /\ DOMAIN files = File
    /\ \A f \in ConfigFile : FileOK(files[f], Fill, Fill)
    /\ FileOK(files["file_name"], Heads, Tails)
    /\ kept \subseteq Level /\ early \in BOOLEAN /\ torn \in BOOLEAN

\* Whatever a mains failure has left of the files, and whatever comes over
\* the line, FATAL_MSG never aborts the start.
NeverAborts == at.step # "abort"

\* Unless the mains failed between the chunks of a file of settings, every
\* start ends with all settings in memory and on the disk.
SettingsWhole ==
    at.step = "up" /\ ~torn =>
        \A f \in ConfigFile : settings[f] = Set /\ files[f].data = Set

SettingsOf(head) == [head EXCEPT !.actual = 0]

\* What a unit was given (limits, power on level, address, groups) stays in
\* its file for ever, through every start, operation and mains failure, unless
\* an operation ran before init had read the file.
SettingsKept ==
    [][LET file == files["file_name"] IN
       file_size(file) > 0 /\ ~early' =>
           SettingsOf(files'["file_name"].data[1]) = SettingsOf(file.data[1])]_vars

\* A unit that was told to return to its last level returns to the one its
\* last complete operation set, or to one of an operation the mains cut off.
LevelKept ==
    at.step = "start" /\ ~early /\ var[1].power_on = 255 => var[1].actual \in kept

\* An operation is for this unit: the package was for all, or the number it
\* carries is the address or a group in the unit's own file.
OnlyItsOwn ==
    [][\A p \in Packages :
          dali_callback(p) /\ ~early' /\ p.to # "broadcast" =>
              LET head == files["file_name"].data[1] IN
              p.number \in {head.short} \cup head.groups]_vars

\* The list config makes shows all files there are at that time, though their
\* paths begin with a slash and list asks for leading periods.
ListShowsAll ==
    at.step = "initialize" => listed = {f \in File : file_search(files[f])}

\* If the mains stay, the unit comes up.
ComesUp == <>[][~Restart]_vars => <>[](at.step = "up")

\* The comment of dali_callback: where it calls an operation, an arc power or
\* a normal command has come, which are forward frames of 16 bits.
OnlyForwardFrames ==
    [][\A p \in Packages :
          dali_callback(p) /\ at.step = "up" => p.type = "BLOCK_16"]_vars
=============================================================================

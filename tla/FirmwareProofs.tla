--------------------------- MODULE FirmwareProofs ---------------------------
(***************************************************************************)
(* The start of the firmware, for all packages and all stored images, and  *)
(* what the pattern of its list matches.                                   *)
(***************************************************************************)
EXTENDS Firmware, SequenceTheorems, TLAPS

\* What is in a file of two chunks.
LEMMA ChunksLen ==
    ASSUME NEW A, NEW B, NEW data, Chunks(data, A, B)
    PROVE  /\ Len(data) \in 0..2
           /\ Len(data) = 0 <=> data = <<>>
           /\ Len(data) > 0 => data[1] \in A
           /\ Len(data) = 1 => data = <<data[1]>>
           /\ Len(data) = 2 => data \in A \X B /\ data[2] \in B
<1>1. CASE data = <<>>
  BY <1>1
<1>2. CASE data \in [1..1 -> A]
  <2>1. data[1] \in A /\ data = [i \in 1..1 |-> data[i]]
    BY <1>2
  <2>2. data = <<data[1]>>
    BY <2>1
  <2>3. Len(data) = 1
    BY <2>2
  <2> QED
    BY <2>1, <2>2, <2>3
<1>3. CASE data \in A \X B
  BY <1>3
<1> QED
  BY <1>1, <1>2, <1>3 DEF Chunks

\* What read_file leaves in a buffer of two chunks.
LEMMA ReadTwo ==
    ASSUME NEW A, NEW B, NEW file, Chunks(file.data, A, B), NEW buffer \in A \X B
    PROVE  /\ read_file(file, buffer) \in A \X B
           /\ read_file(file, buffer)[1] = IF Len(file.data) > 0 THEN file.data[1] ELSE buffer[1]
           /\ read_file(file, buffer)[2] = IF Len(file.data) > 1 THEN file.data[2] ELSE buffer[2]
<1> DEFINE r == read_file(file, buffer)
<1>1. Len(file.data) \in 0..2
      /\ (Len(file.data) > 0 => file.data[1] \in A)
      /\ (Len(file.data) > 1 => file.data[2] \in B)
  BY ChunksLen
<1>2. DOMAIN buffer = 1..2 /\ buffer[1] \in A /\ buffer[2] \in B
  OBVIOUS
<1>3. r = [i \in 1..2 |-> IF i <= Len(file.data) THEN file.data[i] ELSE buffer[i]]
  BY <1>2 DEF read_file
<1>4. r[1] \in A /\ r[2] \in B
  BY <1>1, <1>2, <1>3
<1>5. r = <<r[1], r[2]>>
  BY <1>3
<1>6. r \in A \X B
  BY <1>4, <1>5
<1> QED
  BY <1>1, <1>3, <1>6

\* What write_file makes of the file, for the chunk that comes next or one
\* that is there: its length and its first chunk ...
LEMMA WriteLen ==
    ASSUME NEW file, file_search(file), Len(file.data) \in 0..2, NEW image, NEW i \in 1..2
    PROVE  /\ file_search(write_chunk(file, image, i))
           /\ Len(write_chunk(file, image, i).data)
                = IF i > Len(file.data) THEN i ELSE Len(file.data)
           /\ write_chunk(file, image, i).data[1] = IF i = 1 THEN image[1] ELSE file.data[1]
<1> DEFINE d == write_chunk(file, image, i).data
           n == IF i > Len(file.data) THEN i ELSE Len(file.data)
<1>1. /\ write_chunk(file, image, i).exists
      /\ d = [j \in 1..n |-> IF j = i THEN image[i] ELSE file.data[j]]
  BY DEF write_chunk, FileWith
<1>2. n \in 1..2
  OBVIOUS
<1>3. d[1] = IF i = 1 THEN image[1] ELSE file.data[1]
  BY <1>1, <1>2
<1> HIDE DEF d
<1>4. Len(d) = n
  <2>1. CASE n = 1
    <3>1. d \in [1..1 -> {d[1]}]
      BY <1>1, <2>1
    <3> QED
      BY <2>1, <3>1, LenProperties
  <2>2. CASE n = 2
    <3>1. d = <<d[1], d[2]>>
      BY <1>1, <2>2
    <3> HIDE DEF n
    <3> QED
      BY <2>2, <3>1
  <2> QED
    BY <1>2, <2>1, <2>2
<1> QED
  BY <1>1, <1>3, <1>4 DEF d, file_search

\* ... and what is in it.
LEMMA WriteTwo ==
    ASSUME NEW A, NEW B, NEW file, file_search(file), Chunks(file.data, A, B),
           NEW image \in A \X B, NEW i \in 1..2, i <= Len(file.data) + 1
    PROVE  Chunks(write_chunk(file, image, i).data, A, B)
<1> DEFINE d == write_chunk(file, image, i).data
           n == IF i > Len(file.data) THEN i ELSE Len(file.data)
<1>1. /\ Len(file.data) \in 0..2
      /\ (Len(file.data) > 0 => file.data[1] \in A)
      /\ (Len(file.data) > 1 => file.data[2] \in B)
  BY ChunksLen
<1>2. image[1] \in A /\ image[2] \in B
  OBVIOUS
<1>3. d = [j \in 1..n |-> IF j = i THEN image[i] ELSE file.data[j]]
  BY DEF write_chunk, FileWith
<1>4. n \in 1..2
  BY <1>1
<1>5. CASE n = 1
  <2>1. d \in [1..1 -> A]
    BY <1>1, <1>2, <1>3, <1>5
  <2> QED
    BY <2>1 DEF Chunks
<1>6. CASE n = 2
  <2>1. d[1] = (IF i = 1 THEN image[1] ELSE file.data[1])
        /\ d[2] = (IF i = 2 THEN image[2] ELSE file.data[2])
    BY <1>3, <1>6
  <2>2. (i = 1 => Len(file.data) = 2) /\ (i = 2 => Len(file.data) \in 1..2)
    BY <1>1, <1>6
  <2>3. d[1] \in A /\ d[2] \in B
    BY <1>1, <1>2, <2>1, <2>2
  <2>4. d = <<d[1], d[2]>>
    <3>1. d = [j \in 1..2 |-> IF j = i THEN image[i] ELSE file.data[j]]
      BY <1>3, <1>6
    <3> HIDE DEF d, n
    <3> QED
      BY <3>1
  <2> HIDE DEF d
  <2>5. d \in A \X B
    BY <2>3, <2>4
  <2> QED
    BY <2>5 DEF d, Chunks
<1> QED
  BY <1>4, <1>5, <1>6

\* The same for a file of settings, ...
LEMMA ReadSettings ==
    ASSUME NEW file, FileOK(file, Fill, Fill), NEW buffer \in Fill \X Fill
    PROVE  /\ read_file(file, buffer) \in Fill \X Fill
           /\ read_file(file, buffer)[1]
                = IF file_size(file) > 0 THEN file.data[1] ELSE buffer[1]
<1>1. Chunks(file.data, Fill, Fill)
  BY DEF FileOK
<1>2. read_file(file, buffer) \in Fill \X Fill
  BY <1>1, ReadTwo, ZenonT(30)
<1>3. read_file(file, buffer)[1] = IF Len(file.data) > 0 THEN file.data[1] ELSE buffer[1]
  <2>1. Len(file.data) \in 0..2
    BY <1>1, ChunksLen, ZenonT(30)
  <2>2. 1 \in DOMAIN buffer
    OBVIOUS
  <2>3. read_file(file, buffer)[1] = IF 1 <= Len(file.data) THEN file.data[1] ELSE buffer[1]
    BY <2>2 DEF read_file
  <2> QED
    BY <2>1, <2>3
<1> QED
  BY <1>2, <1>3, Zenon DEF file_size

\* ... where all chunks are filled in, ...
LEMMA WriteSettings ==
    ASSUME NEW file, file_search(file), FileOK(file, Fill, Fill),
           file_size(file) > 0 => file.data[1] = "filled",
           file_size(file) > 1 => file.data = Set,
           NEW i \in 1..2, i <= file_size(file) + 1
    PROVE  /\ FileOK(write_chunk(file, Set, i), Fill, Fill)
           /\ file_search(write_chunk(file, Set, i))
           /\ file_size(write_chunk(file, Set, i))
                = IF i > file_size(file) THEN i ELSE file_size(file)
           /\ file_size(write_chunk(file, Set, i)) > 0 =>
                  write_chunk(file, Set, i).data[1] = "filled"
           /\ file_size(write_chunk(file, Set, i)) > 1 =>
                  write_chunk(file, Set, i).data = Set
<1> DEFINE n == IF i > Len(file.data) THEN i ELSE Len(file.data)
           d == write_chunk(file, Set, i).data
<1>1. Len(file.data) \in 0..2
  BY ChunksLen, ZenonT(30) DEF FileOK
<1>2. /\ write_chunk(file, Set, i).exists = TRUE
      /\ d = [j \in 1..n |-> IF j = i THEN Set[i] ELSE file.data[j]]
  BY DEF write_chunk, FileWith
<1>3. Set[1] = "filled" /\ Set[2] = "filled"
  BY DEF Set
<1>4. \A j \in 1..n : d[j] = "filled"
  <2> SUFFICES ASSUME NEW j \in 1..n, j # i PROVE file.data[j] = "filled"
    BY <1>2, <1>3
  <2>1. (j = 1 /\ Len(file.data) > 0) \/ (j = 2 /\ Len(file.data) = 2)
    <3> DEFINE m == Len(file.data)
    <3>1. i <= m + 1 /\ m \in 0..2
      BY <1>1 DEF file_size
    <3>2. j \in 1..n /\ (n = i \/ n = m)
      OBVIOUS
    <3> HIDE DEF m, n, d
    <3>3. j \in 1..2 /\ (j <= i \/ j <= m)
      BY <3>1, <3>2
    <3>4. (j = 1 /\ m > 0) \/ (j = 2 /\ m = 2)
      BY <3>1, <3>3
    <3> QED
      BY <3>4 DEF m
  <2> QED
    BY <1>1, <1>3, <2>1 DEF file_size
<1>5. n \in 1..2
  BY <1>1
<1>6. d = [j \in 1..n |-> "filled"]
  BY <1>2, <1>4
<1> HIDE DEF d, n
<1>7. CASE n = 1
  <2>1. d \in [1..1 -> Fill] /\ d[1] = "filled"
    BY <1>6, <1>7 DEF Fill
  <2>2. Len(d) = 1
    BY <2>1, LenProperties
  <2>3. file_size(write_chunk(file, Set, i)) = 1 /\ (i > file_size(file) => i = 1)
    BY <1>7, <2>2 DEF file_size, d, n
  <2>4. (IF i > file_size(file) THEN i ELSE file_size(file)) = 1
    BY <1>7 DEF file_size, n
  <2>5. FileOK(write_chunk(file, Set, i), Fill, Fill) /\ file_search(write_chunk(file, Set, i))
    BY <1>2, <2>1 DEF FileOK, Chunks, file_search, d
  <2> QED
    BY <2>1, <2>3, <2>4, <2>5 DEF d
<1>8. CASE n = 2
  <2>1. d = Set
    BY <1>6, <1>8 DEF Set
  <2>2. Set \in Fill \X Fill /\ Len(Set) = 2
    BY DEF Set, Fill
  <2> QED
    BY <1>2, <1>3, <1>8, <2>1, <2>2 DEF FileOK, Chunks, file_size, file_search, d, n
<1> QED
  BY <1>5, <1>7, <1>8

-----------------------------------------------------------------------------
(* Type correctness.                                                       *)

LEMMA InitTyped == Init => TypeOK
<1> SUFFICES ASSUME Init PROVE TypeOK
  OBVIOUS
<1>1. at \in [step : Steps, file : File, chunk : Chunk]
  BY DEF Init, PowerOn, Step, Steps, File, ConfigFile, Chunk
<1>2. settings \in [ConfigFile -> Fill \X Fill] /\ listed \subseteq File
  BY DEF Init, Unset, Fill
<1>3. BlankHead \in Heads
  BY DEF BlankHead, Heads, Level
<1>4. var \in Image
  BY <1>3 DEF Init, Blank, Image, Tails
<1>5. fading \in BOOLEAN /\ early \in BOOLEAN /\ torn \in BOOLEAN
  BY DEF Init
<1>6. saving \in 0..2
  BY DEF Init
<1>7. PICK dimmer \in {Missing} \cup {FileWith(<<h, [lamp_on |-> TRUE]>>) : h \in Stored} :
           /\ files = [f \in File |-> IF f = "file_name" THEN dimmer ELSE Missing]
           /\ kept = IF file_size(dimmer) = 0 THEN {} ELSE {dimmer.data[1].actual}
  BY DEF Init
<1>8. FileOK(dimmer, Heads, Tails) /\ (file_size(dimmer) # 0 => dimmer.data[1] \in Heads)
  <2>1. CASE dimmer = Missing
    BY <2>1 DEF FileOK, Chunks, Missing, file_size
  <2>2. CASE dimmer # Missing
    <3>1. PICK h \in Stored : dimmer = FileWith(<<h, [lamp_on |-> TRUE]>>)
      BY <1>7, <2>2
    <3>2. h \in Heads /\ [lamp_on |-> TRUE] \in Tails
      BY StoredAssumption DEF Tails
    <3> QED
      BY <3>1, <3>2 DEF FileOK, Chunks, FileWith
  <2> QED
    BY <2>1, <2>2
<1>9. FileOK(Missing, Fill, Fill)
  BY DEF FileOK, Chunks, Missing
<1>10. /\ DOMAIN files = File
       /\ \A f \in ConfigFile : FileOK(files[f], Fill, Fill)
       /\ FileOK(files["file_name"], Heads, Tails)
  BY <1>7, <1>8, <1>9 DEF File, ConfigFile
<1>11. kept \subseteq Level
  BY <1>7, <1>8 DEF Heads
<1> QED
  BY <1>1, <1>2, <1>4, <1>5, <1>6, <1>10, <1>11 DEF TypeOK

LEMMA ControlTyped ==
    ASSUME NEW A, NEW B, NEW file, FileOK(file, A, B)
    PROVE  /\ FileOK(file_control(file), A, B)
           /\ file_search(file_control(file))
           /\ file_search(file) => file_control(file) = file
           /\ file_size(file_control(file)) \in {0, file_size(file)}
           /\ file_search(file) \/ file_control(file).data = <<>>
BY DEF file_control, file_search, FileOK, Chunks, FileWith, file_size

-----------------------------------------------------------------------------
(* The invariant of the start.                                             *)

Dimmer == files["file_name"]

\* A write goes on where the file ends, or inside it; a file of settings
\* never holds a chunk that is not filled in; what is checked was written.
BootInv ==
    /\ at.step \in {"read", "default", "write", "check"} => at.file \in ConfigFile
    /\ at.step \in {"write", "check"} =>
           settings[at.file] = Set /\ file_search(files[at.file])
    /\ at.step = "write" => at.chunk <= file_size(files[at.file]) + 1
    /\ at.step \in {"read", "default", "control"} => at.chunk = 1
    /\ at.step = "check" => file_size(files[at.file]) = 2
    /\ at.step = "save" => file_search(Dimmer) /\ at.chunk <= file_size(Dimmer) + 1
    /\ saving <= file_size(Dimmer) + 1
    /\ file_search(Dimmer) \/ Dimmer.data = <<>>
    /\ \A f \in ConfigFile :
          /\ file_size(files[f]) > 0 => files[f].data[1] = "filled"
          /\ file_size(files[f]) > 1 => files[f].data = Set
    /\ NeverAborts

Inv == TypeOK /\ BootInv

LEMMA BootInitially == Init => BootInv
<1> SUFFICES ASSUME Init PROVE BootInv
  OBVIOUS
<1>1. PICK dimmer \in {Missing} \cup {FileWith(<<h, [lamp_on |-> TRUE]>>) : h \in Stored} :
           files = [f \in File |-> IF f = "file_name" THEN dimmer ELSE Missing]
  BY DEF Init
<1>2. \A f \in ConfigFile : files[f] = Missing
  BY <1>1 DEF File, ConfigFile
<1>3. file_size(Dimmer) \in 0..2
  BY InitTyped, ChunksLen DEF TypeOK, FileOK, Dimmer, file_size
<1>4. file_search(Dimmer) \/ Dimmer.data = <<>>
  BY <1>1 DEF Dimmer, File, Missing, FileWith, file_search
<1> QED
  BY <1>2, <1>3, <1>4 DEF Init, BootInv, PowerOn, Step, ConfigFile, NeverAborts, Missing, file_size

\* What a change of one file leaves.
LEMMA OneFile ==
    ASSUME TypeOK, NEW f \in File, NEW file, files' = [files EXCEPT ![f] = file]
    PROVE  /\ DOMAIN files' = File /\ files'[f] = file
           /\ \A g \in File : g # f => files'[g] = files[g]
BY DEF TypeOK

\* The files that a step leaves alone.
LEMMA SameFiles ==
    ASSUME TypeOK, UNCHANGED files
    PROVE  /\ DOMAIN files' = File
           /\ \A f \in ConfigFile : FileOK(files'[f], Fill, Fill)
           /\ FileOK(files'["file_name"], Heads, Tails)
BY DEF TypeOK

\* The sizes of all files.
LEMMA Sizes ==
    ASSUME TypeOK
    PROVE  /\ \A f \in File : file_size(files[f]) \in 0..2
           /\ file_size(Dimmer) > 0 => Dimmer.data[1] \in Heads
<1>1. \A f \in ConfigFile : file_size(files[f]) \in 0..2
  BY ChunksLen DEF TypeOK, FileOK, file_size
<1>2. file_size(Dimmer) \in 0..2 /\ (file_size(Dimmer) > 0 => Dimmer.data[1] \in Heads)
  BY ChunksLen DEF TypeOK, FileOK, Dimmer, file_size
<1> QED
  BY <1>1, <1>2 DEF File, Dimmer

LEMMA ReadStep == Inv /\ (ReadConfig \/ CheckConfig) => Inv'
<1> SUFFICES ASSUME Inv, ReadConfig \/ CheckConfig PROVE Inv'
  OBVIOUS
<1> DEFINE f == at.file
           r == read_file(files[f], settings[f])
<1>1. f \in ConfigFile /\ FileOK(files[f], Fill, Fill) /\ settings[f] \in Fill \X Fill
  BY DEF Inv, BootInv, TypeOK, ReadConfig, CheckConfig
<1>2. settings' = [settings EXCEPT ![f] = r]
  BY DEF ReadConfig, CheckConfig
<1>3. r \in Fill \X Fill
      /\ r[1] = IF file_size(files[f]) > 0 THEN files[f].data[1] ELSE settings[f][1]
  <2> DEFINE file == files[f]
             buffer == settings[f]
  <2>1. FileOK(file, Fill, Fill) /\ buffer \in Fill \X Fill
    BY <1>1
  <2> HIDE DEF file, buffer, f
  <2>2. /\ read_file(file, buffer) \in Fill \X Fill
        /\ read_file(file, buffer)[1]
             = IF file_size(file) > 0 THEN file.data[1] ELSE buffer[1]
    BY <2>1, ReadSettings, Zenon
  <2> QED
    BY <2>2, Zenon DEF file, buffer
<1>4. settings' \in [ConfigFile -> Fill \X Fill] /\ settings'[f] = r
  BY <1>1, <1>2, <1>3 DEF Inv, TypeOK
<1>5. CheckConfig => Recorded(settings'[f])
  BY <1>1, <1>3, <1>4 DEF CheckConfig, Inv, BootInv, Recorded
<1>6. UNCHANGED <<listed, var, fading, saving, files, history>>
  BY DEF ReadConfig, CheckConfig
<1>7. \/ at' \in {Step("read", "NETWORK_FILE", 1), Step("list", "file_name", 1)}
      \/ at.step = "read" /\ at' = [at EXCEPT !.step = "default"]
  BY <1>5 DEF ReadConfig, CheckConfig, AfterConfig
<1>8. /\ at'.chunk = 1 \/ (at.step = "read" /\ at'.chunk = at.chunk)
      /\ at' \in [step : Steps, file : File, chunk : Chunk]
      /\ at'.step \in {"read", "list", "default"}
      /\ at'.step # "list" => at'.file \in ConfigFile
  <2>1. at \in [step : Steps, file : File, chunk : Chunk]
    BY DEF Inv, TypeOK
  <2>2. CASE at' \in {Step("read", "NETWORK_FILE", 1), Step("list", "file_name", 1)}
    <3>1. PICK s \in {"read", "list"}, g \in {"NETWORK_FILE", "file_name"} :
              at' = [step |-> s, file |-> g, chunk |-> 1] /\ (s = "read" => g = "NETWORK_FILE")
      BY <2>2 DEF Step
    <3> QED
      BY <3>1 DEF Steps, File, ConfigFile, Chunk
  <2>3. CASE at.step = "read" /\ at' = [at EXCEPT !.step = "default"]
    BY <1>1, <2>1, <2>3 DEF Steps
  <2> QED
    BY <1>7, <2>2, <2>3
<1>9. TypeOK'
  BY <1>4, <1>6, <1>8, SameFiles DEF Inv, TypeOK, history
<1>10. BootInv'
  BY <1>6, <1>8 DEF Inv, BootInv, NeverAborts, Dimmer, file_size
<1> QED
  BY <1>9, <1>10 DEF Inv

\* A change of one file of settings.
LEMMA SettingsFile ==
    ASSUME Inv, NEW f \in ConfigFile, NEW file, FileOK(file, Fill, Fill),
           file_size(file) > 0 => file.data[1] = "filled",
           file_size(file) > 1 => file.data = Set,
           files' = [files EXCEPT ![f] = file]
    PROVE  /\ DOMAIN files' = File
           /\ \A g \in ConfigFile :
                 /\ FileOK(files'[g], Fill, Fill)
                 /\ file_size(files'[g]) > 0 => files'[g].data[1] = "filled"
                 /\ file_size(files'[g]) > 1 => files'[g].data = Set
           /\ files'[f] = file
           /\ files'["file_name"] = Dimmer
           /\ FileOK(files'["file_name"], Heads, Tails)
<1>1. f \in File /\ f # "file_name" /\ ConfigFile \subseteq File /\ "file_name" \in File
  BY DEF File, ConfigFile
<1>2. /\ DOMAIN files' = File /\ files'[f] = file
      /\ \A g \in File : g # f => files'[g] = files[g]
  BY <1>1, OneFile DEF Inv
<1> QED
  BY <1>1, <1>2 DEF Inv, TypeOK, BootInv, Dimmer

LEMMA DefaultStep == Inv /\ default_config => Inv'
<1> SUFFICES ASSUME Inv, default_config PROVE Inv'
  OBVIOUS
<1> DEFINE f == at.file
           file == file_control(files[f])
<1>1. f \in ConfigFile /\ FileOK(files[f], Fill, Fill)
  BY DEF Inv, BootInv, TypeOK, default_config
<1>2. /\ FileOK(file, Fill, Fill) /\ file_search(file)
      /\ file_size(file) > 0 => file = files[f]
      /\ file_size(file) \in 0..2
  <2>1. FileOK(file, Fill, Fill) /\ file_search(file)
    BY <1>1, ControlTyped
  <2>2. file_size(file) > 0 => file = files[f]
    BY <1>1 DEF file_control, FileWith, file_size
  <2>3. file_size(file) \in 0..2
    BY <2>1, ChunksLen DEF FileOK, file_size
  <2> QED
    BY <2>1, <2>2, <2>3
<1>3. /\ file_size(file) > 0 => file.data[1] = "filled"
      /\ file_size(file) > 1 => file.data = Set
  BY <1>1, <1>2 DEF Inv, BootInv
<1>4. files' = [files EXCEPT ![f] = file]
  BY DEF default_config
<1> HIDE DEF file
<1>5. /\ DOMAIN files' = File
      /\ \A g \in ConfigFile :
            /\ FileOK(files'[g], Fill, Fill)
            /\ file_size(files'[g]) > 0 => files'[g].data[1] = "filled"
            /\ file_size(files'[g]) > 1 => files'[g].data = Set
      /\ files'[f] = file
      /\ files'["file_name"] = Dimmer
      /\ FileOK(files'["file_name"], Heads, Tails)
  BY <1>1, <1>2, <1>3, <1>4, SettingsFile
<1>6. settings' = [settings EXCEPT ![f] = Set] /\ at' = [at EXCEPT !.step = "write"]
      /\ UNCHANGED <<listed, var, fading, saving, history>>
  BY DEF default_config
<1>7. settings' \in [ConfigFile -> Fill \X Fill] /\ settings'[f] = Set
  BY <1>1, <1>6 DEF Inv, TypeOK, Set, Fill
<1>8. /\ at' \in [step : Steps, file : File, chunk : Chunk]
      /\ at'.step = "write" /\ at'.file = f /\ at'.chunk \in 1..2
  BY <1>6 DEF Inv, TypeOK, Steps, Chunk
<1>9. at'.chunk = 1
  BY <1>6 DEF Inv, BootInv, default_config
<1>10. TypeOK'
  BY <1>5, <1>6, <1>7, <1>8 DEF Inv, TypeOK, history
<1>11. BootInv'
  BY <1>1, <1>2, <1>5, <1>6, <1>7, <1>8, <1>9 DEF Inv, BootInv, NeverAborts, Dimmer
<1> QED
  BY <1>10, <1>11 DEF Inv

LEMMA WriteStep == Inv /\ WriteConfig => Inv'
<1> SUFFICES ASSUME Inv, WriteConfig PROVE Inv'
  OBVIOUS
<1> DEFINE f == at.file
           old == files[f]
           file == write_chunk(old, Set, at.chunk)
<1>1. /\ f \in ConfigFile /\ FileOK(old, Fill, Fill) /\ settings[f] = Set
      /\ file_search(old) /\ at.chunk \in 1..2 /\ at.chunk <= file_size(old) + 1
      /\ file_size(old) > 0 => old.data[1] = "filled"
      /\ file_size(old) > 1 => old.data = Set
  BY DEF Inv, BootInv, TypeOK, WriteConfig, Chunk
<1>2. files' = [files EXCEPT ![f] = file]
  BY <1>1 DEF WriteConfig
<1>3. /\ FileOK(file, Fill, Fill) /\ file_search(file)
      /\ file_size(file) = IF at.chunk > file_size(old) THEN at.chunk ELSE file_size(old)
      /\ file_size(file) > 0 => file.data[1] = "filled"
      /\ file_size(file) > 1 => file.data = Set
  <2> HIDE DEF old, f, file
  <2> QED
    BY <1>1, WriteSettings DEF file
<1>4. file_size(old) \in 0..2
  BY <1>1, ChunksLen DEF FileOK, file_size
<1> HIDE DEF file
<1>7. /\ DOMAIN files' = File
      /\ \A g \in ConfigFile :
            /\ FileOK(files'[g], Fill, Fill)
            /\ file_size(files'[g]) > 0 => files'[g].data[1] = "filled"
            /\ file_size(files'[g]) > 1 => files'[g].data = Set
      /\ files'[f] = file
      /\ files'["file_name"] = Dimmer
      /\ FileOK(files'["file_name"], Heads, Tails)
  <2> HIDE DEF f, old
  <2> QED
    BY <1>1, <1>2, <1>3, SettingsFile
<1>8. UNCHANGED <<settings, listed, var, fading, saving, history>>
  BY DEF WriteConfig
<1>9. /\ at' \in [step : Steps, file : File, chunk : Chunk] /\ at'.file = f
      /\ \/ at.chunk = 1 /\ at'.step = "write" /\ at'.chunk = 2
         \/ at.chunk = 2 /\ at'.step = "check"
  <2>1. at \in [step : Steps, file : File, chunk : Chunk] /\ at.step = "write"
    BY DEF WriteConfig, Inv, TypeOK
  <2>2. CASE at.chunk = 1
    BY <2>1, <2>2 DEF WriteConfig, NextChunk, Steps, Chunk
  <2>3. CASE at.chunk = 2
    <3>1. at' = [at EXCEPT !.step = "check", !.chunk = 1]
      BY <2>1, <2>3 DEF WriteConfig, NextChunk
    <3>2. DOMAIN at' = DOMAIN at /\ at'.step = "check" /\ at'.chunk = 1 /\ at'.file = at.file
      BY <2>1, <3>1
    <3>3. at' = [step |-> at'.step, file |-> at'.file, chunk |-> at'.chunk]
      BY <2>1, <3>1
    <3> QED
      BY <2>1, <2>3, <3>2, <3>3 DEF Steps, Chunk
  <2> QED
    BY <1>1, <2>2, <2>3
<1>10. TypeOK'
  BY <1>7, <1>8, <1>9 DEF Inv, TypeOK, history
<1>11. BootInv'
  BY <1>1, <1>3, <1>4, <1>7, <1>8, <1>9 DEF Inv, BootInv, NeverAborts, Dimmer
<1> QED
  BY <1>10, <1>11 DEF Inv

-----------------------------------------------------------------------------
(* The steps that work on the file of the dimmer, or on none.              *)

\* A step that leaves the files of settings alone, and what it must show.
LEMMA DimmerFile ==
    ASSUME Inv, NEW file, FileOK(file, Heads, Tails),
           files' = [files EXCEPT !["file_name"] = file]
    PROVE  /\ DOMAIN files' = File
           /\ \A f \in ConfigFile : files'[f] = files[f]
           /\ files'["file_name"] = file
<1>1. "file_name" \in File /\ \A f \in ConfigFile : f \in File /\ f # "file_name"
  BY DEF File, ConfigFile
<1> QED
  BY <1>1, OneFile DEF Inv

\* What is left to show of such a step.
LEMMA OtherStep ==
    ASSUME Inv, UNCHANGED settings,
           DOMAIN files' = File, \A f \in ConfigFile : files'[f] = files[f],
           FileOK(files'["file_name"], Heads, Tails),
           at' \in [step : Steps, file : File, chunk : Chunk],
           at'.step \notin {"read", "default", "write", "check", "abort"},
           at'.step = "control" => at'.chunk = 1,
           at'.step = "save" => /\ file_search(files'["file_name"])
                                /\ at'.chunk <= file_size(files'["file_name"]) + 1,
           saving' \in 0..2, saving' <= file_size(files'["file_name"]) + 1,
           file_search(files'["file_name"]) \/ files'["file_name"].data = <<>>,
           listed' \subseteq File, var' \in Image, fading' \in BOOLEAN,
           kept' \subseteq Level, early' \in BOOLEAN, torn' \in BOOLEAN
    PROVE  Inv'
<1>1. TypeOK'
  BY DEF Inv, TypeOK
<1>2. BootInv'
  BY DEF Inv, BootInv, NeverAborts, Dimmer
<1> QED
  BY <1>1, <1>2 DEF Inv

\* Step makes a place of app_main.
LEMMA StepTyped ==
    ASSUME NEW s \in Steps
    PROVE  /\ Step(s, "file_name", 1) \in [step : Steps, file : File, chunk : Chunk]
           /\ Step(s, "file_name", 1).step = s /\ Step(s, "file_name", 1).chunk = 1
BY DEF Step, File, Chunk

\* Nothing but the place of app_main and memory changes.
LEMMA PlainStep ==
    Inv /\ (list \/ DaliInitialize \/ InitName \/ InitSize \/ InitLoad \/ Start) => Inv'
<1> SUFFICES ASSUME Inv, list \/ DaliInitialize \/ InitName \/ InitSize \/ InitLoad \/ Start
             PROVE  Inv'
  OBVIOUS
<1>1. UNCHANGED <<settings, saving, files, history>>
  BY DEF list, DaliInitialize, InitName, InitSize, InitLoad, Start
<1>2. \E s \in {"initialize", "name", "size", "control", "load", "start", "up"} :
          at' = Step(s, "file_name", 1)
  BY DEF list, DaliInitialize, InitName, InitSize, InitLoad, Start, Goto
<1>3. /\ at' \in [step : Steps, file : File, chunk : Chunk]
      /\ at'.step \in {"initialize", "name", "size", "control", "load", "start", "up"}
      /\ at'.chunk = 1
  BY <1>2, StepTyped DEF Steps
<1>4. listed' \subseteq File /\ fading' \in BOOLEAN
  BY DEF list, DaliInitialize, InitName, InitSize, InitLoad, Start, Inv, TypeOK
<1>5. var \in Image /\ FileOK(files["file_name"], Heads, Tails)
  BY DEF Inv, TypeOK
<1>6. var' \in Image
  <2>1. CASE list \/ DaliInitialize \/ InitName
    BY <1>5, <2>1 DEF list, DaliInitialize, InitName
  <2>2. CASE InitSize
    <3>1. DefaultHead \in Heads /\ [lamp_on |-> FALSE] \in Tails
      BY DEF DefaultHead, Heads, Tails, Level
    <3>2. Defaults \in Image
      BY <3>1 DEF Defaults, Image
    <3> QED
      BY <1>5, <2>2, <3>2 DEF InitSize
  <2>3. CASE InitLoad
    <3> DEFINE file == files["file_name"]
    <3>1. Chunks(file.data, Heads, Tails) /\ var \in Heads \X Tails
      BY <1>5 DEF FileOK, Image
    <3> HIDE DEF file
    <3>2. read_file(file, var) \in Heads \X Tails
      BY <3>1, ReadTwo, ZenonT(30)
    <3> QED
      BY <2>3, <3>2, Zenon DEF InitLoad, Image, file
  <2>4. CASE Start
    <3> DEFINE head == [var[1] EXCEPT !.actual = IF var[1].power_on = 255 THEN @
                                                ELSE var[1].power_on]
    <3>1. var[1] \in Heads
      BY <1>5 DEF Image
    <3>2. head \in Heads
      BY <3>1 DEF Heads
    <3>3. [lamp_on |-> TRUE] \in Tails
      BY DEF Tails
    <3>4. var' = <<head, [lamp_on |-> TRUE]>>
      BY <2>4 DEF Start
    <3> HIDE DEF head
    <3> QED
      BY <3>2, <3>3, <3>4 DEF Image
  <2> QED
    BY <2>1, <2>2, <2>3, <2>4
<1>7. DOMAIN files' = File /\ \A f \in ConfigFile : files'[f] = files[f]
  BY <1>1 DEF Inv, TypeOK
<1>8. /\ FileOK(files'["file_name"], Heads, Tails)
      /\ saving' \in 0..2 /\ saving' <= file_size(files'["file_name"]) + 1
      /\ file_search(files'["file_name"]) \/ files'["file_name"].data = <<>>
      /\ kept' \subseteq Level /\ early' \in BOOLEAN /\ torn' \in BOOLEAN
  BY <1>1 DEF Inv, TypeOK, BootInv, Dimmer, history
<1> QED
  BY <1>1, <1>3, <1>4, <1>6, <1>7, <1>8, OtherStep

\* A chunk of var is written into the file of the dimmer.
LEMMA WriteDimmer ==
    ASSUME Inv, NEW i \in 1..2, i <= file_size(Dimmer) + 1, file_search(Dimmer)
    PROVE  /\ FileOK(write_chunk(Dimmer, var, i), Heads, Tails)
           /\ file_search(write_chunk(Dimmer, var, i))
           /\ file_size(write_chunk(Dimmer, var, i))
                = IF i > file_size(Dimmer) THEN i ELSE file_size(Dimmer)
           /\ write_chunk(Dimmer, var, i).data[1] = IF i = 1 THEN var[1] ELSE Dimmer.data[1]
<1> DEFINE file == Dimmer
           image == var
<1>1. /\ Chunks(file.data, Heads, Tails) /\ image \in Heads \X Tails
      /\ file_search(file) /\ i <= Len(file.data) + 1
  BY DEF Inv, TypeOK, Image, FileOK, Dimmer, file_size
<1> HIDE DEF file, image
<1>2. Len(file.data) \in 0..2
  BY <1>1, ChunksLen, ZenonT(30)
<1>3. Chunks(write_chunk(file, image, i).data, Heads, Tails)
  BY <1>1, WriteTwo, ZenonT(30)
<1>4. /\ file_search(write_chunk(file, image, i))
      /\ Len(write_chunk(file, image, i).data)
           = IF i > Len(file.data) THEN i ELSE Len(file.data)
      /\ write_chunk(file, image, i).data[1] = IF i = 1 THEN image[1] ELSE file.data[1]
  BY <1>1, <1>2, WriteLen
<1>5. write_chunk(file, image, i).exists \in BOOLEAN
  BY <1>1 DEF write_chunk, FileWith, file_search
<1>6. FileOK(write_chunk(file, image, i), Heads, Tails)
  BY <1>3, <1>5, Zenon DEF FileOK
<1> QED
  BY <1>4, <1>6, Zenon DEF file, image, file_size

LEMMA ControlStep == Inv /\ InitControl => Inv'
<1> SUFFICES ASSUME Inv, InitControl PROVE Inv'
  OBVIOUS
<1> DEFINE file == file_control(Dimmer)
<1>1. FileOK(Dimmer, Heads, Tails) /\ (file_search(Dimmer) \/ Dimmer.data = <<>>)
  BY DEF Inv, TypeOK, BootInv, Dimmer
<1>2. FileOK(file, Heads, Tails) /\ file_search(file)
  BY <1>1, ControlTyped
<1>3. file_size(file) = file_size(Dimmer)
  BY <1>1 DEF file_control, FileWith, file_size
<1>4. file_size(Dimmer) \in 0..2
  BY <1>1, ChunksLen DEF FileOK, file_size
<1>5. files' = [files EXCEPT !["file_name"] = file]
  BY DEF InitControl, Dimmer
<1> HIDE DEF file
<1>6. /\ DOMAIN files' = File
      /\ \A f \in ConfigFile : files'[f] = files[f]
      /\ files'["file_name"] = file
  BY <1>2, <1>5, DimmerFile
<1>7. at' \in [step : Steps, file : File, chunk : Chunk] /\ at'.step = "save" /\ at'.chunk = 1
  BY StepTyped DEF InitControl, Goto, Steps
<1>8. /\ saving' \in 0..2 /\ saving' <= file_size(files'["file_name"]) + 1
      /\ listed' \subseteq File /\ var' \in Image /\ fading' \in BOOLEAN
      /\ kept' \subseteq Level /\ early' \in BOOLEAN /\ torn' \in BOOLEAN
      /\ UNCHANGED settings
  BY <1>3, <1>6 DEF InitControl, Inv, TypeOK, BootInv, history
<1> QED
  BY <1>2, <1>3, <1>4, <1>6, <1>7, <1>8, OtherStep

LEMMA SaveStep == Inv /\ InitSave => Inv'
<1> SUFFICES ASSUME Inv, InitSave PROVE Inv'
  OBVIOUS
<1> DEFINE file == write_chunk(Dimmer, var, at.chunk)
<1>1. /\ at \in [step : Steps, file : File, chunk : Chunk] /\ at.chunk \in 1..2
      /\ file_search(Dimmer) /\ at.chunk <= file_size(Dimmer) + 1
      /\ saving \in 0..2 /\ saving <= file_size(Dimmer) + 1
  BY DEF Inv, TypeOK, BootInv, InitSave, Chunk
<1>2. file_size(Dimmer) \in 0..2
  BY Sizes DEF Inv, Dimmer, File
<1>3. /\ FileOK(file, Heads, Tails) /\ file_search(file)
      /\ file_size(file) = IF at.chunk > file_size(Dimmer) THEN at.chunk ELSE file_size(Dimmer)
  BY <1>1, WriteDimmer
<1>4. files' = [files EXCEPT !["file_name"] = file]
  BY DEF InitSave, Dimmer
<1> HIDE DEF file
<1>5. /\ DOMAIN files' = File
      /\ \A f \in ConfigFile : files'[f] = files[f]
      /\ files'["file_name"] = file
  BY <1>3, <1>4, DimmerFile
<1>6. /\ at' \in [step : Steps, file : File, chunk : Chunk]
      /\ \/ at.chunk = 1 /\ at'.step = "save" /\ at'.chunk = 2
         \/ at.chunk = 2 /\ at'.step = "load"
  <2>1. CASE at.chunk = 1
    BY <1>1, <2>1 DEF InitSave, NextChunk, Chunk
  <2>2. CASE at.chunk = 2
    <3>1. at' = [at EXCEPT !.step = "load", !.chunk = 1]
      BY <2>2 DEF InitSave, NextChunk
    <3>2. at'.step = "load" /\ at'.chunk = 1 /\ at'.file = at.file
      BY <1>1, <3>1
    <3>3. at' = [step |-> at'.step, file |-> at'.file, chunk |-> at'.chunk]
      BY <1>1, <3>1
    <3> QED
      BY <1>1, <2>2, <3>2, <3>3 DEF Steps, Chunk
  <2> QED
    BY <1>1, <2>1, <2>2
<1>7. var[1].actual \in Level
  BY DEF Inv, TypeOK, Image, Heads
<1>8. kept' \subseteq Level
  BY <1>7 DEF InitSave, Inv, TypeOK
<1>9. /\ UNCHANGED settings /\ saving' \in 0..2
      /\ listed' \subseteq File /\ var' \in Image /\ fading' \in BOOLEAN
      /\ early' \in BOOLEAN /\ torn' \in BOOLEAN
  BY DEF InitSave, Inv, TypeOK
<1>10. saving' <= file_size(file) + 1 /\ (at'.step = "save" => at'.chunk <= file_size(file) + 1)
  BY <1>1, <1>2, <1>3, <1>6 DEF InitSave
<1> QED
  BY <1>3, <1>5, <1>6, <1>8, <1>9, <1>10, OtherStep

LEMMA SaveVarStep == Inv /\ SaveVar => Inv'
<1> SUFFICES ASSUME Inv, SaveVar PROVE Inv'
  OBVIOUS
<1>1. /\ saving \in 1..2 /\ saving <= file_size(Dimmer) + 1
      /\ FileOK(Dimmer, Heads, Tails) /\ (file_search(Dimmer) \/ Dimmer.data = <<>>)
      /\ at \in [step : Steps, file : File, chunk : Chunk]
  BY DEF Inv, TypeOK, BootInv, SaveVar, Dimmer
<1>2. file_size(Dimmer) \in 0..2
  BY Sizes DEF Inv, Dimmer, File
<1>3. UNCHANGED <<at, settings, listed, var, fading, early, torn>>
  BY DEF SaveVar
<1>4. CASE at.step = "name" \/ ~file_search(Dimmer)
  <2>1. saving' = 0 /\ UNCHANGED <<files, kept>>
    BY <1>4 DEF SaveVar, Dimmer
  <2>2. TypeOK'
    BY <1>3, <2>1, SameFiles DEF Inv, TypeOK
  <2>3. BootInv'
    BY <1>1, <1>2, <1>3, <2>1 DEF Inv, BootInv, NeverAborts, Dimmer
  <2> QED
    BY <2>2, <2>3 DEF Inv
<1>5. CASE ~(at.step = "name" \/ ~file_search(Dimmer))
  <2> DEFINE file == write_chunk(Dimmer, var, saving)
  <2>1. /\ FileOK(file, Heads, Tails) /\ file_search(file)
        /\ file_size(file) = IF saving > file_size(Dimmer) THEN saving ELSE file_size(Dimmer)
    BY <1>1, <1>5, WriteDimmer
  <2>2. /\ files' = [files EXCEPT !["file_name"] = file]
        /\ saving' = IF saving = 2 THEN 0 ELSE 2
        /\ kept' = IF saving = 2 THEN {var[1].actual} ELSE kept
    BY <1>5 DEF SaveVar, Dimmer
  <2> HIDE DEF file
  <2>3. /\ DOMAIN files' = File
        /\ \A f \in ConfigFile : files'[f] = files[f]
        /\ files'["file_name"] = file
    BY <2>1, <2>2, DimmerFile
  <2>4. var[1].actual \in Level
    BY DEF Inv, TypeOK, Image, Heads
  <2>5. kept' \subseteq Level
    BY <2>2, <2>4 DEF Inv, TypeOK
  <2>6. saving' \in 0..2 /\ saving' <= file_size(file) + 1 /\ file_size(file) >= file_size(Dimmer)
    BY <1>1, <1>2, <2>1, <2>2
  <2>7. /\ settings' \in [ConfigFile -> Fill \X Fill] /\ listed' \subseteq File
        /\ var' \in Image /\ fading' \in BOOLEAN /\ early' \in BOOLEAN /\ torn' \in BOOLEAN
        /\ at' \in [step : Steps, file : File, chunk : Chunk]
    BY <1>3 DEF Inv, TypeOK
  <2>8. TypeOK'
    BY <2>1, <2>3, <2>5, <2>6, <2>7 DEF Inv, TypeOK
  <2>9. at.step = "save" => at.chunk <= file_size(file) + 1
    BY <1>1, <1>2, <2>6, <2>1 DEF Inv, BootInv, Chunk
  <2>10. BootInv'
    BY <1>1, <1>2, <1>3, <2>1, <2>3, <2>6, <2>9 DEF Inv, BootInv, NeverAborts, Dimmer
  <2> QED
    BY <2>8, <2>10 DEF Inv
<1> QED
  BY <1>4, <1>5

\* A clamped level is a level.
LEMMA ClampTyped ==
    ASSUME NEW level \in Level, var \in Image
    PROVE  Clamp(level) \in Level
<1>1. var[1].min \in Level /\ var[1].max \in Level
  BY DEF Image, Heads
<1> QED
  BY <1>1 DEF Clamp

LEMMA CallbackStep == ASSUME Inv, NEW p \in Packages, dali_callback(p) PROVE Inv'
<1>1. var \in Image /\ var[1] \in Heads
  BY DEF Inv, TypeOK, Image
<1>2. p.data \in Level
  BY PackagesAssumption DEF PackageSet
<1>3. \E head \in Heads, tail \in Tails : var' = <<head, tail>>
  <2>1. CASE direct_arc_power(p.data)
    <3>1. [var[1] EXCEPT !.actual = Clamp(p.data)] \in Heads
      BY <1>1, <1>2, ClampTyped DEF Heads
    <3> QED
      BY <2>1, <3>1 DEF direct_arc_power, Tails
  <2>2. CASE command_off
    <3>1. [var[1] EXCEPT !.actual = 0] \in Heads
      BY <1>1 DEF Heads, Level
    <3> QED
      BY <2>2, <3>1 DEF command_off, Tails
  <2> QED
    BY <2>1, <2>2 DEF dali_callback
<1>4. var' \in Image
  BY <1>3 DEF Image
<1>5. fading' \in BOOLEAN
  BY DEF dali_callback, direct_arc_power, command_off, Inv, TypeOK
<1>6. UNCHANGED <<at, settings, listed, files, torn>> /\ saving' = 1
  BY DEF dali_callback
<1>7. var'[1].actual \in Level
  BY <1>4 DEF Image, Heads
<1>8. kept' \subseteq Level /\ early' \in BOOLEAN
  BY <1>7 DEF dali_callback, Inv, TypeOK
<1>9. file_size(Dimmer) \in 0..2
  BY Sizes DEF Inv, Dimmer, File
<1>10. TypeOK'
  BY <1>4, <1>5, <1>6, <1>8 DEF Inv, TypeOK
<1>11. BootInv'
  BY <1>6, <1>9 DEF Inv, BootInv, NeverAborts, Dimmer
<1> QED
  BY <1>10, <1>11 DEF Inv

LEMMA FadeOverStep == Inv /\ FadeOver => Inv'
BY DEF Inv, TypeOK, BootInv, NeverAborts, Dimmer, FadeOver, history

LEMMA RestartStep == Inv /\ Restart => Inv'
<1> SUFFICES ASSUME Inv, Restart PROVE Inv'
  OBVIOUS
<1>1. PowerOn \in [step : Steps, file : File, chunk : Chunk]
  BY DEF PowerOn, Step, Steps, File, ConfigFile, Chunk
<1>2. Blank \in Image
  <2>1. BlankHead \in Heads /\ [lamp_on |-> FALSE] \in Tails
    BY DEF BlankHead, Heads, Tails, Level
  <2> QED
    BY <2>1 DEF Blank, Image
<1>3. [f \in ConfigFile |-> Unset] \in [ConfigFile -> Fill \X Fill]
  BY DEF Unset, Fill
<1>4. TypeOK'
  <2>1. torn' \in BOOLEAN
    BY Zenon DEF Restart
  <2>2. /\ at' = PowerOn /\ settings' = [f \in ConfigFile |-> Unset] /\ listed' = {}
        /\ var' = Blank /\ fading' = FALSE /\ saving' = 0
        /\ UNCHANGED <<files, kept, early>>
    BY DEF Restart
  <2>3. fading' \in BOOLEAN /\ early' \in BOOLEAN
    BY <2>2, Zenon DEF Inv, TypeOK
  <2> QED
    BY <1>1, <1>2, <1>3, <2>1, <2>2, <2>3, SameFiles DEF Inv, TypeOK
<1>5. file_size(Dimmer) \in 0..2
  BY Sizes DEF Inv, Dimmer, File
<1>6. BootInv'
  BY <1>5 DEF Restart, Inv, BootInv, NeverAborts, Dimmer, PowerOn, Step, ConfigFile
<1> QED
  BY <1>4, <1>6 DEF Inv

LEMMA InvStep == Inv /\ [Next]_vars => Inv'
<1> SUFFICES ASSUME Inv, [Next]_vars PROVE Inv'
  OBVIOUS
<1>1. CASE app_main
  BY <1>1, ReadStep, DefaultStep, WriteStep, PlainStep, ControlStep, SaveStep DEF app_main
<1>2. CASE Restart
  BY <1>2, RestartStep
<1>3. CASE \E p \in Packages : dali_callback(p)
  BY <1>3, CallbackStep
<1>4. CASE SaveVar
  BY <1>4, SaveVarStep
<1>5. CASE FadeOver
  BY <1>5, FadeOverStep
<1>6. CASE UNCHANGED vars
  BY <1>6 DEF vars, memory, history, Inv, TypeOK, BootInv, NeverAborts, Dimmer
<1> QED
  BY <1>1, <1>2, <1>3, <1>4, <1>5, <1>6 DEF Next

LEMMA InvAlways == Spec => []Inv
<1>1. Init => Inv
  BY InitTyped, BootInitially DEF Inv
<1> QED
  BY <1>1, InvStep, PTL DEF Spec

\* The firmware keeps its types: no file grows beyond its image, and no
\* level, address or group leaves its range, whatever comes over the line and
\* whenever the mains fail.
THEOREM TypeCorrect == Spec => []TypeOK
<1>1. Inv => TypeOK
  BY DEF Inv
<1> QED
  BY <1>1, InvAlways, PTL

\* FATAL_MSG never aborts the start: what config checks is always there.
THEOREM StartNeverAborts == Spec => []NeverAborts
<1>1. Inv => NeverAborts
  BY DEF Inv, BootInv
<1> QED
  BY <1>1, InvAlways, PTL

-----------------------------------------------------------------------------
(* What a unit was given stays given.                                      *)

InMemory == at.step \in {"start", "up"}

\* As long as no operation has run too early, none is being saved before the
\* file has been read; the defaults are only written into a file that holds
\* nothing; and once the file has been read, its settings are in var.
KeptInv ==
    ~early =>
        /\ saving > 0 => InMemory
        /\ at.step = "control" => var = Defaults /\ file_size(Dimmer) = 0
        /\ at.step = "save" =>
              /\ var = Defaults
              /\ at.chunk = 1 => file_size(Dimmer) = 0
              /\ at.chunk = 2 => file_size(Dimmer) > 0
        /\ at.step = "load" => file_size(Dimmer) > 0
        /\ InMemory => /\ file_size(Dimmer) > 0
                       /\ SettingsOf(var[1]) = SettingsOf(Dimmer.data[1])

\* Settings do not depend on the level.
LEMMA SameSettings ==
    ASSUME NEW head \in Heads, NEW level
    PROVE  SettingsOf([head EXCEPT !.actual = level]) = SettingsOf(head)
BY DEF SettingsOf, Heads

LEMMA KeptConfig ==
    Inv /\ KeptInv /\ (\/ ReadConfig \/ default_config \/ WriteConfig \/ CheckConfig
                       \/ list \/ DaliInitialize \/ InitName) => KeptInv'
<1> SUFFICES ASSUME Inv, KeptInv,
                    \/ ReadConfig \/ default_config \/ WriteConfig \/ CheckConfig
                    \/ list \/ DaliInitialize \/ InitName
             PROVE  KeptInv'
  OBVIOUS
<1>1. UNCHANGED <<saving, early>> /\ at.step \notin {"start", "up"}
  BY DEF ReadConfig, default_config, WriteConfig, CheckConfig, list, DaliInitialize, InitName,
         history
<1>2. at \in [step : Steps, file : File, chunk : Chunk]
  BY DEF Inv, TypeOK
<1>3. at'.step \in {"read", "default", "write", "check", "list", "initialize", "name", "size", "abort"}
  <2>1. CASE ReadConfig \/ CheckConfig
    BY <1>2, <2>1 DEF ReadConfig, CheckConfig, AfterConfig, Step
  <2>2. CASE default_config
    BY <1>2, <2>2 DEF default_config
  <2>3. CASE WriteConfig
    BY <1>2, <2>3 DEF WriteConfig, NextChunk
  <2>4. CASE list \/ DaliInitialize \/ InitName
    BY <2>4 DEF list, DaliInitialize, InitName, Goto, Step
  <2> QED
    BY <2>1, <2>2, <2>3, <2>4
<1> QED
  BY <1>1, <1>3 DEF KeptInv, InMemory

LEMMA KeptInit ==
    Inv /\ KeptInv /\ (InitSize \/ InitControl \/ InitSave \/ InitLoad \/ Start) => KeptInv'
<1>0. (InitSize \/ InitControl \/ InitSave \/ InitLoad \/ Start) => early' = early
  BY DEF InitSize, InitControl, InitSave, InitLoad, Start, history
<1> SUFFICES ASSUME Inv, KeptInv, ~early,
                    InitSize \/ InitControl \/ InitSave \/ InitLoad \/ Start
             PROVE  KeptInv'
  BY <1>0, Zenon DEF KeptInv
<1>1. /\ var \in Image /\ var[1] \in Heads
      /\ at \in [step : Steps, file : File, chunk : Chunk]
      /\ file_size(Dimmer) \in 0..2 /\ FileOK(Dimmer, Heads, Tails)
      /\ file_search(Dimmer) \/ Dimmer.data = <<>>
  BY Sizes DEF Inv, TypeOK, BootInv, Image, File, Dimmer
<1>2. CASE InitSize
  <2>1. CASE file_size(Dimmer) = 0
    BY <1>2, <2>1 DEF InitSize, Goto, Step, KeptInv, InMemory, Dimmer
  <2>2. CASE file_size(Dimmer) # 0
    BY <1>1, <1>2, <2>2 DEF InitSize, Goto, Step, KeptInv, InMemory, Dimmer
  <2> QED
    BY <2>1, <2>2
<1>3. CASE InitControl
  <2>1. file_size(file_control(Dimmer)) = file_size(Dimmer)
    BY <1>1 DEF file_control, FileWith, file_size
  <2>2. Dimmer' = file_control(Dimmer)
    BY <1>3 DEF InitControl, Dimmer, Inv, TypeOK, File
  <2> QED
    BY <1>3, <2>1, <2>2 DEF InitControl, Goto, Step, KeptInv, InMemory
<1>4. CASE InitSave
  <2> DEFINE file == write_chunk(Dimmer, var, at.chunk)
  <2>1. at.chunk \in 1..2 /\ at.chunk <= file_size(Dimmer) + 1 /\ file_search(Dimmer)
    BY <1>4 DEF InitSave, Inv, TypeOK, BootInv, Chunk
  <2>2. file_size(file) = IF at.chunk > file_size(Dimmer) THEN at.chunk ELSE file_size(Dimmer)
    BY <2>1, WriteDimmer
  <2>3. Dimmer' = file
    BY <1>4 DEF InitSave, Dimmer, Inv, TypeOK, File
  <2> HIDE DEF file
  <2>4. file_size(Dimmer') > 0
    BY <1>1, <2>1, <2>2, <2>3
  <2>5. at'.step \in {"save", "load"} /\ (at'.step = "save" => at'.chunk = 2)
    BY <1>1, <1>4, <2>1 DEF InitSave, NextChunk
  <2> QED
    BY <1>4, <2>4, <2>5 DEF InitSave, KeptInv, InMemory
<1>5. CASE InitLoad
  <2> DEFINE file == files["file_name"]
  <2>1. Len(file.data) > 0
    BY <1>5 DEF InitLoad, KeptInv, Dimmer, file_size
  <2>2. var'[1] = file.data[1]
    <3>1. 1 \in DOMAIN var
      BY <1>1 DEF Image
    <3>2. var' = [i \in DOMAIN var |-> IF i <= Len(file.data) THEN file.data[i] ELSE var[i]]
      BY <1>5 DEF InitLoad, read_file
    <3>3. Len(file.data) \in 0..2
      BY <1>1 DEF Dimmer, file_size
    <3> HIDE DEF file
    <3> QED
      BY <2>1, <3>1, <3>2, <3>3
  <2> QED
    BY <1>5, <2>1, <2>2 DEF InitLoad, Goto, Step, KeptInv, InMemory, Dimmer, file_size
<1>6. CASE Start
  <2> DEFINE head == [var[1] EXCEPT !.actual = IF var[1].power_on = 255 THEN @
                                              ELSE var[1].power_on]
  <2>1. SettingsOf(head) = SettingsOf(var[1])
    BY <1>1 DEF SettingsOf, Heads
  <2>2. var'[1] = head
    BY <1>6 DEF Start
  <2> HIDE DEF head
  <2> QED
    BY <1>6, <2>1, <2>2 DEF Start, Goto, Step, KeptInv, InMemory, Dimmer, history
<1> QED
  BY <1>2, <1>3, <1>4, <1>5, <1>6

LEMMA KeptCallback ==
    ASSUME Inv, KeptInv, NEW p \in Packages, dali_callback(p)
    PROVE  KeptInv'
<1>1. early' = (early \/ at.step \notin {"start", "up"}) /\ UNCHANGED <<at, files>>
  BY DEF dali_callback
<1> SUFFICES ASSUME ~early' PROVE KeptInv'
  BY DEF KeptInv
<1>2. ~early /\ InMemory /\ var[1] \in Heads
  BY <1>1 DEF InMemory, Inv, TypeOK, Image
<1>3. SettingsOf(var'[1]) = SettingsOf(var[1])
  <2>1. CASE direct_arc_power(p.data)
    BY <1>2, <2>1, SameSettings DEF direct_arc_power
  <2>2. CASE command_off
    BY <1>2, <2>2, SameSettings DEF command_off
  <2> QED
    BY <2>1, <2>2 DEF dali_callback
<1> QED
  BY <1>1, <1>2, <1>3 DEF KeptInv, InMemory, Dimmer

LEMMA KeptSaveVar == Inv /\ KeptInv /\ SaveVar => KeptInv'
<1>0. SaveVar => early' = early
  BY DEF SaveVar
<1> SUFFICES ASSUME Inv, KeptInv, SaveVar, ~early PROVE KeptInv'
  BY <1>0, Zenon DEF KeptInv
<1>1. UNCHANGED <<at, var, early>> /\ InMemory /\ file_size(Dimmer) > 0
      /\ SettingsOf(var[1]) = SettingsOf(Dimmer.data[1])
  BY DEF SaveVar, KeptInv
<1>2. CASE UNCHANGED files
  BY <1>1, <1>2 DEF KeptInv, InMemory, Dimmer
<1>3. CASE /\ file_search(Dimmer)
           /\ files' = [files EXCEPT !["file_name"] = write_chunk(Dimmer, var, saving)]
  <2> DEFINE file == write_chunk(Dimmer, var, saving)
  <2>1. /\ saving \in 1..2 /\ saving <= file_size(Dimmer) + 1
        /\ file_size(Dimmer) \in 0..2
    BY Sizes DEF Inv, TypeOK, BootInv, SaveVar, Dimmer, File
  <2>2. /\ file_size(file) = IF saving > file_size(Dimmer) THEN saving ELSE file_size(Dimmer)
        /\ file.data[1] = IF saving = 1 THEN var[1] ELSE Dimmer.data[1]
    BY <1>3, <2>1, WriteDimmer
  <2>3. Dimmer' = file
    BY <1>3 DEF Dimmer, Inv, TypeOK, File
  <2> HIDE DEF file
  <2>4. file_size(Dimmer') > 0 /\ SettingsOf(var[1]) = SettingsOf(Dimmer'.data[1])
    BY <1>1, <2>1, <2>2, <2>3
  <2> QED
    BY <1>1, <2>4 DEF KeptInv, InMemory
<1> QED
  BY <1>2, <1>3 DEF SaveVar, Dimmer

LEMMA KeptStep == Inv /\ KeptInv /\ [Next]_vars => KeptInv'
<1> SUFFICES ASSUME Inv, KeptInv, [Next]_vars PROVE KeptInv'
  OBVIOUS
<1>1. CASE app_main
  BY <1>1, KeptConfig, KeptInit DEF app_main
<1>2. CASE Restart
  BY <1>2 DEF Restart, KeptInv, InMemory, PowerOn, Step
<1>3. CASE \E p \in Packages : dali_callback(p)
  BY <1>3, KeptCallback
<1>4. CASE SaveVar
  BY <1>4, KeptSaveVar
<1>5. CASE FadeOver
  BY <1>5 DEF FadeOver, KeptInv, InMemory, Dimmer, history
<1>6. CASE UNCHANGED vars
  BY <1>6 DEF vars, memory, history, KeptInv, InMemory, Dimmer
<1> QED
  BY <1>1, <1>2, <1>3, <1>4, <1>5, <1>6 DEF Next

LEMMA KeptAlways == Spec => [](Inv /\ KeptInv)
<1>1. Init => KeptInv
  BY DEF Init, KeptInv, InMemory, PowerOn, Step
<1> QED
  BY <1>1, InvAlways, KeptStep, PTL DEF Spec

\* Only three steps write to the file of the dimmer.
LEMMA FileWritten ==
    ASSUME Inv, [Next]_vars
    PROVE  \/ Dimmer' = Dimmer
           \/ InitControl /\ Dimmer' = file_control(Dimmer)
           \/ InitSave
           \/ /\ SaveVar /\ file_search(Dimmer)
              /\ Dimmer' = write_chunk(Dimmer, var, saving)
<1>1. "file_name" \in DOMAIN files
  BY DEF Inv, TypeOK, File
<1>2. CASE default_config \/ WriteConfig
  <2>1. at.file # "file_name"
    BY <1>2 DEF default_config, WriteConfig, Inv, BootInv, ConfigFile
  <2> QED
    BY <1>1, <1>2, <2>1 DEF default_config, WriteConfig, Dimmer
<1>3. CASE InitControl
  BY <1>1, <1>3 DEF InitControl, Dimmer
<1>4. CASE SaveVar
  BY <1>1, <1>4 DEF SaveVar, Dimmer
<1>5. CASE UNCHANGED files
  BY <1>5 DEF Dimmer
<1>6. (\/ ReadConfig \/ CheckConfig \/ list \/ DaliInitialize \/ InitName \/ InitSize
       \/ InitLoad \/ Start \/ FadeOver \/ Restart \/ UNCHANGED vars
       \/ \E p \in Packages : dali_callback(p)) => UNCHANGED files
  BY DEF ReadConfig, CheckConfig, list, DaliInitialize, InitName, InitSize, InitLoad, Start,
         FadeOver, Restart, vars, dali_callback
<1> QED
  BY <1>2, <1>3, <1>4, <1>5, <1>6 DEF Next, app_main

LEMMA SettingsStep ==
    ASSUME Inv, KeptInv, [Next]_vars, file_size(Dimmer) > 0, ~early'
    PROVE  SettingsOf(Dimmer'.data[1]) = SettingsOf(Dimmer.data[1])
<1>1. CASE Dimmer' = Dimmer
  BY <1>1
<1>2. CASE InitControl /\ Dimmer' = file_control(Dimmer)
  <2>1. file_search(Dimmer)
    BY DEF Inv, BootInv, file_size
  <2> QED
    BY <1>2, <2>1 DEF file_control
<1>3. CASE InitSave
  <2>1. ~early /\ file_search(Dimmer) /\ at.chunk \in 1..2 /\ at.chunk <= file_size(Dimmer) + 1
    BY <1>3 DEF InitSave, Inv, BootInv, TypeOK, Chunk
  <2>2. at.chunk = 2
    BY <1>3, <2>1 DEF InitSave, KeptInv
  <2>3. write_chunk(Dimmer, var, at.chunk).data[1] = Dimmer.data[1]
    BY <2>1, <2>2, WriteDimmer
  <2>4. Dimmer' = write_chunk(Dimmer, var, at.chunk)
    BY <1>3 DEF InitSave, Dimmer, Inv, TypeOK, File
  <2> QED
    BY <2>3, <2>4
<1>4. CASE /\ SaveVar /\ file_search(Dimmer)
           /\ Dimmer' = write_chunk(Dimmer, var, saving)
  <2>1. /\ saving \in 1..2 /\ saving <= file_size(Dimmer) + 1
    BY <1>4 DEF SaveVar, Inv, TypeOK, BootInv
  <2>2. ~early /\ SettingsOf(var[1]) = SettingsOf(Dimmer.data[1])
    BY <1>4 DEF SaveVar, KeptInv
  <2>3. write_chunk(Dimmer, var, saving).data[1] = IF saving = 1 THEN var[1] ELSE Dimmer.data[1]
    BY <1>4, <2>1, WriteDimmer
  <2> QED
    BY <1>4, <2>2, <2>3
<1> QED
  BY <1>1, <1>2, <1>3, <1>4, FileWritten

\* Through every start, operation and mains failure a unit keeps the limits,
\* power on level, address and groups it was given, unless an operation ran
\* before init had read them.
THEOREM GivenIsKept == Spec => SettingsKept
<1>1. Inv /\ KeptInv /\ [Next]_vars =>
          LET file == files["file_name"] IN
          file_size(file) > 0 /\ ~early' =>
              SettingsOf(files'["file_name"].data[1]) = SettingsOf(file.data[1])
  BY SettingsStep DEF Dimmer
<1>2. [][Next]_vars /\ [](Inv /\ KeptInv) => SettingsKept
  BY <1>1, PTL DEF SettingsKept
<1> QED
  BY <1>2, KeptAlways, PTL DEF Spec

LEMMA OwnStep ==
    ASSUME Inv, KeptInv, NEW p \in Packages, dali_callback(p), ~early', p.to # "broadcast"
    PROVE  p.number \in {Dimmer.data[1].short} \cup Dimmer.data[1].groups
<1>1. ~early /\ InMemory
  BY DEF dali_callback, InMemory
<1>2. file_size(Dimmer) > 0 /\ SettingsOf(var[1]) = SettingsOf(Dimmer.data[1])
  BY <1>1 DEF KeptInv
<1>3. var[1] \in Heads /\ Dimmer.data[1] \in Heads
  BY <1>2, Sizes DEF Inv, TypeOK, Image
<1>4. var[1].short = Dimmer.data[1].short /\ var[1].groups = Dimmer.data[1].groups
  BY <1>2, <1>3 DEF SettingsOf, Heads
<1>5. p.number \in {var[1].short} \cup var[1].groups
  BY DEF dali_callback, ForUs, my_package, is_short_address, is_group_address
<1> QED
  BY <1>4, <1>5

\* A package that is not for all moves the lamp only of a unit that has its
\* number, as address or group, in its own file, unless one came before init
\* had read the file.
THEOREM PackageForUs == Spec => OnlyItsOwn
<1>1. Inv /\ KeptInv /\ [Next]_vars =>
          \A p \in Packages :
              dali_callback(p) /\ ~early' /\ p.to # "broadcast" =>
                  LET head == files["file_name"].data[1] IN
                  p.number \in {head.short} \cup head.groups
  BY OwnStep DEF Dimmer
<1>2. [][Next]_vars /\ [](Inv /\ KeptInv) => OnlyItsOwn
  BY <1>1, PTL DEF OnlyItsOwn
<1> QED
  BY <1>2, KeptAlways, PTL DEF Spec
-----------------------------------------------------------------------------
(* The last level.  kept names the levels the file may come back with; the *)
(* file is one of them, and so is var once it has been read.  Between the  *)
(* two chunks of an operation the first one is already in the file.        *)

LevelInv ==
    ~early =>
        /\ file_size(Dimmer) > 0 /\ Dimmer.data[1].power_on = 255
               => Dimmer.data[1].actual \in kept
        /\ InMemory /\ var[1].power_on = 255 => var[1].actual \in kept
        /\ saving = 2 /\ var[1].power_on = 255 => Dimmer.data[1].actual = var[1].actual

\* What is in memory has the power on level of the file.
LEMMA SamePowerOn ==
    ASSUME Inv, KeptInv, ~early, InMemory
    PROVE  file_size(Dimmer) > 0 /\ var[1].power_on = Dimmer.data[1].power_on
<1>1. file_size(Dimmer) > 0 /\ SettingsOf(var[1]) = SettingsOf(Dimmer.data[1])
  BY DEF KeptInv
<1>2. var[1] \in Heads /\ Dimmer.data[1] \in Heads
  BY <1>1, Sizes DEF Inv, TypeOK, Image
<1> QED
  BY <1>1, <1>2 DEF SettingsOf, Heads

\* Before the file has been read no operation is being saved, so only the file
\* counts.
LEMMA LevelBefore ==
    ASSUME KeptInv, LevelInv, ~early, ~InMemory, ~InMemory', UNCHANGED <<saving, kept>>,
           Dimmer'.data = Dimmer.data
    PROVE  LevelInv'
<1>1. saving \notin 1..2
  BY DEF KeptInv
<1> QED
  BY <1>1 DEF LevelInv, file_size

LEMMA LevelConfig ==
    ASSUME Inv, KeptInv, LevelInv, ~early,
           \/ ReadConfig \/ default_config \/ WriteConfig \/ CheckConfig
           \/ list \/ DaliInitialize \/ InitName \/ InitSize \/ InitControl
    PROVE  LevelInv'
<1>1. /\ at \in [step : Steps, file : File, chunk : Chunk] /\ "file_name" \in DOMAIN files
      /\ file_search(Dimmer) \/ Dimmer.data = <<>>
  BY DEF Inv, TypeOK, BootInv, File
<1>2. CASE ReadConfig \/ CheckConfig
  BY <1>1, <1>2, LevelBefore
     DEF ReadConfig, CheckConfig, AfterConfig, Step, InMemory, Dimmer, history
<1>3. CASE default_config \/ WriteConfig
  <2>1. at.file # "file_name"
    BY <1>3 DEF default_config, WriteConfig, Inv, BootInv, ConfigFile
  <2>2. Dimmer' = Dimmer
    BY <1>1, <1>3, <2>1 DEF default_config, WriteConfig, Dimmer
  <2>3. ~InMemory /\ ~InMemory' /\ UNCHANGED <<saving, kept>>
    BY <1>1, <1>3 DEF default_config, WriteConfig, NextChunk, InMemory, history
  <2> QED
    BY <2>2, <2>3, LevelBefore
<1>4. CASE list \/ DaliInitialize \/ InitName \/ InitSize
  BY <1>1, <1>4, LevelBefore
     DEF list, DaliInitialize, InitName, InitSize, Goto, Step, InMemory, Dimmer, history
<1>5. CASE InitControl
  <2>1. Dimmer'.data = Dimmer.data
    BY <1>1, <1>5 DEF InitControl, Dimmer, file_control, FileWith
  <2> QED
    BY <1>5, <2>1, LevelBefore DEF InitControl, Goto, Step, InMemory, history
<1> QED
  BY <1>2, <1>3, <1>4, <1>5

\* The defaults that init saves do not ask for the last level.
LEMMA LevelSave ==
    ASSUME Inv, KeptInv, LevelInv, ~early, InitSave
    PROVE  LevelInv'
<1>1. /\ at \in [step : Steps, file : File, chunk : Chunk] /\ at.chunk \in 1..2
      /\ file_search(Dimmer) /\ at.chunk <= file_size(Dimmer) + 1
      /\ file_size(Dimmer) \in 0..2
  BY Sizes DEF Inv, TypeOK, BootInv, InitSave, Chunk, File, Dimmer
<1>2. /\ at.chunk = 1 => var = Defaults
      /\ at.chunk = 2 => file_size(Dimmer) > 0
      /\ saving \notin 1..2
  BY DEF InitSave, KeptInv, InMemory
<1>3. Dimmer' = write_chunk(Dimmer, var, at.chunk)
  BY DEF InitSave, Dimmer, Inv, TypeOK, File
<1>4. Dimmer'.data[1] = IF at.chunk = 1 THEN var[1] ELSE Dimmer.data[1]
  BY <1>1, <1>3, WriteDimmer
<1>5. at.chunk = 1 => Dimmer'.data[1].power_on # 255
  BY <1>2, <1>4 DEF Defaults, DefaultHead
<1>6. at'.step \in {"save", "load"} /\ saving' = saving /\ kept \subseteq kept'
  BY <1>1 DEF InitSave, NextChunk
<1> QED
  BY <1>1, <1>2, <1>4, <1>5, <1>6 DEF LevelInv, InMemory

LEMMA LevelLoad ==
    ASSUME Inv, KeptInv, LevelInv, ~early, InitLoad
    PROVE  LevelInv'
<1>1. at'.step = "start" /\ UNCHANGED <<saving, files, kept>> /\ saving \notin 1..2
  BY DEF InitLoad, Goto, Step, history, KeptInv, InMemory
<1>2. KeptInv' /\ Inv'
  BY KeptInit, PlainStep
<1>3. var'[1] = Dimmer.data[1] /\ file_size(Dimmer) > 0
  <2> DEFINE file == Dimmer
  <2>1. Chunks(file.data, Heads, Tails) /\ var \in Heads \X Tails /\ file_size(file) > 0
    BY DEF Inv, TypeOK, FileOK, Image, Dimmer, InitLoad, KeptInv
  <2>2. var' = read_file(file, var)
    BY DEF InitLoad, Dimmer
  <2> HIDE DEF file
  <2>3. Len(file.data) \in 0..2 /\ Len(file.data) > 0
    BY <2>1, ChunksLen, ZenonT(30) DEF file_size
  <2>4. 1 \in DOMAIN var
    BY <2>1
  <2>5. var'[1] = file.data[1]
    BY <2>2, <2>3, <2>4 DEF read_file
  <2> QED
    BY <2>1, <2>5 DEF file
<1> QED
  BY <1>1, <1>3 DEF LevelInv, Dimmer

LEMMA LevelMemory ==
    ASSUME Inv, KeptInv, LevelInv, ~early, ~early', [Next]_vars,
           \/ Start \/ FadeOver \/ Restart \/ UNCHANGED vars
           \/ \E p \in Packages : dali_callback(p)
    PROVE  LevelInv'
<1>1. CASE Start
  <2>1. /\ InMemory /\ UNCHANGED <<files, saving, kept>>
        /\ var[1] \in Heads
        /\ var'[1] = [var[1] EXCEPT !.actual = IF var[1].power_on = 255 THEN @
                                               ELSE var[1].power_on]
    BY <1>1 DEF Start, InMemory, history, Inv, TypeOK, Image
  <2>2. /\ var'[1].power_on = var[1].power_on
        /\ var[1].power_on = 255 => var'[1].actual = var[1].actual
    BY <2>1 DEF Heads
  <2> QED
    BY <2>1, <2>2 DEF LevelInv, Dimmer
<1>2. CASE FadeOver \/ UNCHANGED vars
  BY <1>2 DEF FadeOver, vars, memory, history, LevelInv, InMemory, Dimmer
<1>3. CASE Restart
  BY <1>3 DEF Restart, PowerOn, Step, LevelInv, InMemory, Dimmer
<1>4. ASSUME NEW p \in Packages, dali_callback(p) PROVE LevelInv'
  <2>1. UNCHANGED files /\ saving' = 1 /\ kept' = kept \cup {var'[1].actual}
    BY <1>4 DEF dali_callback
  <2> QED
    BY <2>1 DEF LevelInv, Dimmer
<1> QED
  BY <1>1, <1>2, <1>3, <1>4

\* An operation writes its level with its first chunk, and with the last one
\* that is the only level left.
LEMMA LevelSaveVar ==
    ASSUME Inv, KeptInv, LevelInv, ~early, SaveVar
    PROVE  LevelInv'
<1>1. InMemory /\ UNCHANGED <<at, var>>
  BY DEF SaveVar, KeptInv
<1>2. /\ file_size(Dimmer) > 0 /\ var[1].power_on = Dimmer.data[1].power_on
      /\ file_search(Dimmer)
  BY <1>1, SamePowerOn DEF Inv, BootInv, file_size
<1>3. /\ files' = [files EXCEPT !["file_name"] = write_chunk(Dimmer, var, saving)]
      /\ saving' = IF saving = 2 THEN 0 ELSE 2
      /\ kept' = IF saving = 2 THEN {var[1].actual} ELSE kept
  BY <1>1, <1>2 DEF SaveVar, InMemory, Dimmer
<1>4. saving \in 1..2 /\ saving <= file_size(Dimmer) + 1
  BY DEF SaveVar, Inv, TypeOK, BootInv
<1>5. Dimmer' = write_chunk(Dimmer, var, saving)
  BY <1>3 DEF Dimmer, Inv, TypeOK, File
<1>6. Dimmer'.data[1] = IF saving = 1 THEN var[1] ELSE Dimmer.data[1]
  BY <1>2, <1>4, <1>5, WriteDimmer
<1>7. CASE saving = 1
  BY <1>1, <1>3, <1>6, <1>7 DEF LevelInv, InMemory
<1>8. CASE saving = 2
  BY <1>1, <1>2, <1>3, <1>6, <1>8 DEF LevelInv, InMemory
<1> QED
  BY <1>4, <1>7, <1>8

LEMMA LevelStep == Inv /\ KeptInv /\ LevelInv /\ [Next]_vars => LevelInv'
<1>0. [Next]_vars /\ early => early'
  BY DEF Next, app_main, ReadConfig, default_config, WriteConfig, CheckConfig, list,
         DaliInitialize, InitName, InitSize, InitControl, InitSave, InitLoad, Start,
         Restart, dali_callback, SaveVar, FadeOver, vars, history
<1> SUFFICES ASSUME Inv, KeptInv, LevelInv, [Next]_vars, ~early' PROVE LevelInv'
  BY DEF LevelInv
<1>1. ~early
  BY <1>0
<1> QED
  BY <1>1, LevelConfig, LevelSave, LevelLoad, LevelMemory, LevelSaveVar DEF Next, app_main

\* A unit that was told to return to its last level returns to the one its
\* last complete operation set, or to one of an operation the mains cut off,
\* however the chunks of its file, the starts and the packages fall together.
THEOREM LastLevelKept == Spec => []LevelKept
<1>1. Init => LevelInv
  <2> SUFFICES ASSUME Init PROVE LevelInv
    OBVIOUS
  <2>1. PICK dimmer \in {Missing} \cup {FileWith(<<h, [lamp_on |-> TRUE]>>) : h \in Stored} :
           /\ files = [f \in File |-> IF f = "file_name" THEN dimmer ELSE Missing]
           /\ kept = IF file_size(dimmer) = 0 THEN {} ELSE {dimmer.data[1].actual}
    BY DEF Init
  <2>2. Dimmer = dimmer
    BY <2>1 DEF Dimmer, File
  <2>3. file_size(Dimmer) > 0 => Dimmer.data[1].actual \in kept
    BY <2>1, <2>2
  <2> QED
    BY <2>3 DEF Init, LevelInv, InMemory, PowerOn, Step
<1>2. LevelInv => LevelKept
  BY DEF LevelInv, LevelKept, InMemory
<1> QED
  BY <1>1, <1>2, KeptAlways, LevelStep, PTL DEF Spec
-----------------------------------------------------------------------------
(* The settings.  Recorded asks for the first chunk only, so that half a   *)
(* file counts as settings; unless the mains failed inside one, there is   *)
(* half a file only while its second chunk is being written.               *)

AtConfig == at.step \in {"read", "default", "write", "check"}

\* app_main has come past the settings of f.
Past(f) == ~AtConfig \/ (f = "GLOBAL_FILE" /\ at.file = "NETWORK_FILE")

HalfWritten(f) == at.step = "write" /\ at.file = f /\ at.chunk = 2

FileWhole(f) == /\ file_size(files[f]) = 1 => HalfWritten(f)
                /\ Past(f) => settings[f] = Set /\ files[f].data = Set

SettingsInv ==
    ~torn =>
        /\ at.step = "read" => settings[at.file] = Unset
        /\ AtConfig /\ at.file = "GLOBAL_FILE" => settings["NETWORK_FILE"] = Unset
        /\ \A f \in ConfigFile : FileWhole(f)

\* What config reads is there wholly, or not at all.
LEMMA ReadWhole ==
    ASSUME Inv, NEW f \in ConfigFile, file_size(files[f]) # 1,
           settings[f] \in {Unset, Set}
    PROVE  LET r == read_file(files[f], settings[f])
           IN  /\ file_size(files[f]) = 2 => r = Set
               /\ file_size(files[f]) = 0 => r = settings[f]
               /\ Recorded(r) /\ settings[f] = Unset
                    => file_size(files[f]) = 2
<1> DEFINE file == files[f]
           buffer == settings[f]
           r == read_file(file, buffer)
<1>1. file_size(file) \in 0..2 /\ (file_size(file) > 1 => file.data = Set)
  BY Sizes DEF Inv, BootInv, File
<1>2. buffer = <<buffer[1], buffer[2]>> /\ DOMAIN buffer = 1..2
  BY DEF Unset, Set
<1> HIDE DEF file, buffer
<1>3. r = [i \in 1..2 |-> IF i <= file_size(file) THEN file.data[i] ELSE buffer[i]]
  BY <1>2 DEF read_file, file_size
<1>4. CASE file_size(file) = 2
  <2>1. r = [i \in 1..2 |-> Set[i]]
    BY <1>1, <1>3, <1>4
  <2>2. r = Set
    BY <2>1 DEF Set
  <2> QED
    BY <1>4, <2>2 DEF file, buffer
<1>5. CASE file_size(file) = 0
  <2>1. r = [i \in 1..2 |-> buffer[i]]
    BY <1>3, <1>5
  <2>2. r = buffer
    BY <1>2, <2>1
  <2>3. buffer = Unset => ~Recorded(r)
    BY <2>2 DEF Recorded, Unset
  <2> QED
    BY <1>5, <2>2, <2>3 DEF file, buffer
<1> QED
  BY <1>1, <1>4, <1>5 DEF file, buffer

\* Where a read that finds the settings leaves app_main: past them.
LEMMA SettingsFound ==
    ASSUME Inv, SettingsInv, ~torn, NEW f \in ConfigFile, AtConfig, at.file = f,
           settings' = [settings EXCEPT ![f] = Set], AfterConfig(f),
           UNCHANGED <<files, torn>>, files[f].data = Set
    PROVE  SettingsInv'
<1>1. /\ settings'[f] = Set /\ \A g \in ConfigFile \ {f} : settings'[g] = settings[g]
      /\ file_size(files[f]) = 2
  BY DEF Inv, TypeOK, Set, file_size
<1>2. CASE f = "GLOBAL_FILE"
  <2>1. at'.step = "read" /\ at'.file = "NETWORK_FILE"
    BY <1>2 DEF AfterConfig, Step
  <2>2. settings'["NETWORK_FILE"] = Unset
    BY <1>1, <1>2 DEF SettingsInv, ConfigFile
  <2>3. \A g \in ConfigFile : FileWhole(g)'
    BY <1>1, <1>2, <2>1 DEF SettingsInv, FileWhole, HalfWritten, Past, AtConfig, ConfigFile
  <2> QED
    BY <2>1, <2>2, <2>3 DEF SettingsInv
<1>3. CASE f = "NETWORK_FILE"
  <2>1. at'.step = "list"
    BY <1>3 DEF AfterConfig, Step
  <2>2. Past("GLOBAL_FILE")
    BY <1>3 DEF Past
  <2>3. settings["GLOBAL_FILE"] = Set /\ files["GLOBAL_FILE"].data = Set
        /\ file_size(files["GLOBAL_FILE"]) = 2
    BY <2>2 DEF SettingsInv, FileWhole, ConfigFile, Set, file_size
  <2>4. \A g \in ConfigFile : FileWhole(g)'
    BY <1>1, <1>3, <2>1, <2>3 DEF FileWhole, ConfigFile
  <2> QED
    BY <2>1, <2>4 DEF SettingsInv, AtConfig
<1> QED
  BY <1>2, <1>3 DEF ConfigFile

LEMMA WholeRead ==
    ASSUME Inv, SettingsInv, ~torn, ReadConfig
    PROVE  SettingsInv'
<1> DEFINE f == at.file
           r == read_file(files[f], settings[f])
<1>1. /\ at \in [step : Steps, file : File, chunk : Chunk]
      /\ f \in ConfigFile /\ at.step = "read" /\ AtConfig /\ settings[f] = Unset
      /\ file_size(files[f]) # 1
  BY DEF ReadConfig, Inv, TypeOK, BootInv, AtConfig, SettingsInv, FileWhole, HalfWritten
<1>2. UNCHANGED <<files, torn>> /\ settings' = [settings EXCEPT ![f] = r]
  BY DEF ReadConfig, history
<1>3. settings'[f] = r
  BY <1>1, <1>2 DEF Inv, TypeOK
<1>4. file_size(files[f]) \in 0..2 /\ (file_size(files[f]) = 2 => files[f].data = Set)
  BY <1>1, Sizes DEF Inv, BootInv, File
<1>5. /\ file_size(files[f]) = 2 => r = Set
      /\ file_size(files[f]) = 0 => r = Unset
  BY <1>1, ReadWhole
<1>6. CASE file_size(files[f]) = 2
  <2>1. Recorded(settings'[f])
    BY <1>3, <1>5, <1>6 DEF Recorded, Set
  <2>2. AfterConfig(f)
    BY <2>1 DEF ReadConfig
  <2>3. settings' = [settings EXCEPT ![f] = Set]
    BY <1>2, <1>5, <1>6
  <2> QED
    BY <1>1, <1>2, <1>4, <1>6, <2>2, <2>3, SettingsFound
<1>7. CASE file_size(files[f]) = 0
  <2>1. ~Recorded(settings'[f])
    BY <1>3, <1>5, <1>7 DEF Recorded, Unset
  <2>2. at'.step = "default" /\ at'.file = at.file
    BY <1>1, <2>1 DEF ReadConfig
  <2>3. settings' = settings
    BY <1>1, <1>2, <1>5, <1>7 DEF Inv, TypeOK
  <2> QED
    BY <1>1, <1>2, <2>2, <2>3 DEF SettingsInv, FileWhole, HalfWritten, Past, AtConfig
<1> QED
  BY <1>1, <1>4, <1>6, <1>7

LEMMA WholeDefault ==
    ASSUME Inv, SettingsInv, ~torn, default_config
    PROVE  SettingsInv'
<1> DEFINE f == at.file
<1>1. /\ at \in [step : Steps, file : File, chunk : Chunk]
      /\ f \in ConfigFile /\ at.step = "default" /\ f \in File
  BY DEF default_config, Inv, TypeOK, BootInv, File
<1>2. /\ at'.step = "write" /\ at'.file = f /\ UNCHANGED torn
      /\ settings'[f] = Set /\ \A g \in ConfigFile \ {f} : settings'[g] = settings[g]
  BY <1>1 DEF default_config, history, Inv, TypeOK
<1>3. /\ files'[f] = file_control(files[f])
      /\ \A g \in ConfigFile \ {f} : files'[g] = files[g]
  BY <1>1 DEF default_config, Inv, TypeOK, File
<1>4. file_size(files'[f]) # 1
  <2>1. file_size(files[f]) # 1
    BY <1>1 DEF SettingsInv, FileWhole, HalfWritten
  <2>2. file_size(FileWith(<<>>)) = 0
    BY DEF file_size, FileWith
  <2> QED
    BY <1>3, <2>1, <2>2 DEF file_control
<1>5. \A g \in ConfigFile : FileWhole(g)'
  BY <1>1, <1>2, <1>3, <1>4 DEF SettingsInv, FileWhole, HalfWritten, Past, AtConfig, ConfigFile
<1>6. at.file = "GLOBAL_FILE" => settings'["NETWORK_FILE"] = Unset
  BY <1>1, <1>2 DEF SettingsInv, AtConfig, ConfigFile
<1> QED
  BY <1>2, <1>5, <1>6 DEF SettingsInv

LEMMA WholeWrite ==
    ASSUME Inv, SettingsInv, ~torn, WriteConfig
    PROVE  SettingsInv'
<1>0. PICK f \in ConfigFile : at.file = f
  BY DEF WriteConfig, Inv, BootInv
<1> DEFINE old == files[f]
<1>1. /\ at \in [step : Steps, file : File, chunk : Chunk] /\ at.chunk \in 1..2
      /\ at.step = "write" /\ f \in File
      /\ settings[f] = Set /\ file_search(old) /\ at.chunk <= file_size(old) + 1
      /\ file_size(old) \in 0..2
  BY <1>0, Sizes DEF WriteConfig, Inv, TypeOK, BootInv, File, Chunk
<1>2. UNCHANGED <<settings, torn>> /\ files'[f] = write_chunk(old, Set, at.chunk)
      /\ \A g \in ConfigFile \ {f} : files'[g] = files[g]
  BY <1>0, <1>1 DEF WriteConfig, history, Inv, TypeOK, File
<1>3. file_size(files'[f]) = IF at.chunk > file_size(old) THEN at.chunk ELSE file_size(old)
  BY <1>1, <1>2, WriteLen DEF file_size
<1>4. /\ at'.file = f
      /\ at.chunk = 1 => at'.step = "write" /\ at'.chunk = 2
      /\ at.chunk = 2 => at'.step = "check"
  BY <1>0, <1>1 DEF WriteConfig, NextChunk
<1>5. file_size(files'[f]) = 1 => HalfWritten(f)'
  BY <1>1, <1>3, <1>4 DEF HalfWritten
<1>6. ~Past(f) /\ ~Past(f)'
  BY <1>0, <1>1, <1>4 DEF Past, AtConfig, ConfigFile
<1>7. ASSUME NEW g \in ConfigFile \ {f} PROVE FileWhole(g)'
  <2>1. Past(g)' => Past(g)
    BY <1>0, <1>1, <1>4 DEF Past, AtConfig
  <2>2. file_size(files[g]) # 1
    BY <1>0, <1>7 DEF SettingsInv, FileWhole, HalfWritten
  <2> QED
    BY <1>2, <2>1, <2>2 DEF SettingsInv, FileWhole
<1>8. FileWhole(f)'
  BY <1>5, <1>6 DEF FileWhole
<1>9. at.file = "GLOBAL_FILE" => settings'["NETWORK_FILE"] = Unset
  BY <1>1, <1>2 DEF SettingsInv, AtConfig, ConfigFile
<1> QED
  BY <1>0, <1>1, <1>4, <1>7, <1>8, <1>9 DEF SettingsInv

LEMMA WholeCheck ==
    ASSUME Inv, SettingsInv, ~torn, CheckConfig
    PROVE  SettingsInv'
<1> DEFINE f == at.file
           r == read_file(files[f], settings[f])
<1>1. /\ f \in ConfigFile /\ at.step = "check" /\ AtConfig /\ settings[f] = Set
      /\ file_size(files[f]) = 2
  BY DEF CheckConfig, Inv, BootInv, AtConfig
<1>2. files[f].data = Set /\ r = Set
  BY <1>1, ReadWhole DEF Inv, BootInv
<1>3. UNCHANGED <<files, torn>> /\ settings' = [settings EXCEPT ![f] = Set]
  BY <1>2 DEF CheckConfig, history
<1>4. settings'[f] = Set
  BY <1>1, <1>3 DEF Inv, TypeOK
<1>5. AfterConfig(f)
  BY <1>4 DEF CheckConfig, Recorded, Set
<1> QED
  BY <1>1, <1>2, <1>3, <1>5, SettingsFound

\* The other steps of app_main come after all settings, and touch neither
\* them nor their files; a restart in the middle of a file is what torn says.
LEMMA WholeOther ==
    ASSUME Inv, SettingsInv, ~torn', [Next]_vars,
           ~(ReadConfig \/ default_config \/ WriteConfig \/ CheckConfig)
    PROVE  SettingsInv'
<1>1. CASE Restart
  <2>1. /\ at' = PowerOn /\ settings' = [f \in ConfigFile |-> Unset] /\ UNCHANGED files
        /\ \A f \in ConfigFile : file_size(files[f]) # 1
    BY <1>1 DEF Restart
  <2>2. at'.step = "read" /\ at'.file = "GLOBAL_FILE"
    BY <2>1 DEF PowerOn, Step
  <2>3. \A f \in ConfigFile : settings'[f] = Unset /\ FileWhole(f)'
    BY <2>1, <2>2 DEF FileWhole, Past, AtConfig
  <2> QED
    BY <2>2, <2>3 DEF SettingsInv, ConfigFile
<1>2. CASE \/ list \/ DaliInitialize \/ InitName \/ InitSize \/ InitControl \/ InitSave
           \/ InitLoad \/ Start
  <2>1. UNCHANGED <<settings, torn>> /\ ~AtConfig
    BY <1>2 DEF list, DaliInitialize, InitName, InitSize, InitControl, InitSave, InitLoad,
                Start, AtConfig, history
  <2>2. ~AtConfig' /\ \A f \in ConfigFile : files'[f] = files[f]
    <3>1. /\ at \in [step : Steps, file : File, chunk : Chunk]
          /\ DOMAIN files = File /\ "file_name" \notin ConfigFile
      BY DEF Inv, TypeOK, ConfigFile
    <3>2. CASE InitSave
      BY <3>1, <3>2 DEF InitSave, NextChunk, AtConfig, File
    <3>3. CASE InitControl
      BY <3>1, <3>3 DEF InitControl, Goto, Step, AtConfig, File
    <3>4. CASE list \/ DaliInitialize \/ InitName \/ InitSize \/ InitLoad \/ Start
      BY <3>4 DEF list, DaliInitialize, InitName, InitSize, InitLoad, Start, Goto, Step,
                  AtConfig
    <3> QED
      BY <1>2, <3>2, <3>3, <3>4
  <2>3. \A f \in ConfigFile : FileWhole(f)'
    BY <2>1, <2>2 DEF SettingsInv, FileWhole, HalfWritten, Past, AtConfig
  <2> QED
    BY <2>1, <2>2, <2>3 DEF SettingsInv, AtConfig
<1>3. CASE \/ SaveVar \/ FadeOver \/ UNCHANGED vars
           \/ \E p \in Packages : dali_callback(p)
  <2>1. UNCHANGED <<at, settings, torn>> /\ \A f \in ConfigFile : files'[f] = files[f]
    <3>1. DOMAIN files = File /\ "file_name" \notin ConfigFile
      BY DEF Inv, TypeOK, ConfigFile
    <3> QED
      BY <1>3, <3>1 DEF SaveVar, FadeOver, dali_callback, vars, memory, history, File
  <2> QED
    BY <2>1 DEF SettingsInv, FileWhole, HalfWritten, Past, AtConfig
<1> QED
  BY <1>1, <1>2, <1>3 DEF Next, app_main

LEMMA SettingsInvStep == Inv /\ SettingsInv /\ [Next]_vars => SettingsInv'
<1>0. [Next]_vars /\ torn => torn'
  BY DEF Next, app_main, ReadConfig, default_config, WriteConfig, CheckConfig, list,
         DaliInitialize, InitName, InitSize, InitControl, InitSave, InitLoad, Start,
         Restart, dali_callback, SaveVar, FadeOver, vars, history
<1> SUFFICES ASSUME Inv, SettingsInv, [Next]_vars, ~torn' PROVE SettingsInv'
  BY DEF SettingsInv
<1>1. ~torn
  BY <1>0
<1> QED
  BY <1>1, WholeRead, WholeDefault, WholeWrite, WholeCheck, WholeOther

\* Every start that comes to its end has all settings in memory and on the
\* disk, whatever an earlier start left behind when the mains failed, as long
\* as they did not fail between the two chunks of a file of settings.
THEOREM SettingsAreWhole == Spec => []SettingsWhole
<1>1. Init => SettingsInv
  <2> SUFFICES ASSUME Init PROVE SettingsInv
    OBVIOUS
  <2>1. \A f \in ConfigFile : files[f] = Missing /\ settings[f] = Unset
    BY DEF Init, File, ConfigFile
  <2>2. at.step = "read" /\ at.file = "GLOBAL_FILE"
    BY DEF Init, PowerOn, Step
  <2>3. \A f \in ConfigFile : FileWhole(f)
    BY <2>1, <2>2 DEF FileWhole, Past, AtConfig, Missing, file_size
  <2> QED
    BY <2>1, <2>2, <2>3 DEF SettingsInv, ConfigFile
<1>2. SettingsInv => SettingsWhole
  BY DEF SettingsInv, SettingsWhole, FileWhole, Past, AtConfig
<1> QED
  BY <1>1, <1>2, InvAlways, SettingsInvStep, PTL DEF Spec
-----------------------------------------------------------------------------
(* What config lists.                                                      *)

\* The characters the match looks for are not the same.
LEMMA Characters == /\ EOS \notin {Star, Query, Open, Escape, Dot}
                    /\ Star \notin {EOS, Query, Open, Escape, Dot}
                    /\ Dot \notin {EOS, Star, Query, Open, Escape}
BY DEF EOS, Star, Query, Open, Escape, Dot

\* The end of the pattern matches the end of the string.
LEMMA MatchEnd ==
    ASSUME NEW pattern, NEW s, NEW flags, NEW m, NEW i, NEW j, NEW period,
           At(pattern, i) = EOS, "FNM_LEADING_DIR" \notin flags
    PROVE  MatchAt(pattern, s, flags, m, i, j, period) <=> At(s, j) = EOS
BY Characters, Zenon DEF MatchAt

\* A period matches a period.
LEMMA MatchDot ==
    ASSUME NEW pattern, NEW s, NEW flags, NEW m, NEW i, NEW j, NEW period,
           At(pattern, i) = Dot
    PROVE  MatchAt(pattern, s, flags, m, i, j, period)
               <=> At(s, j) = Dot /\ m[i + 1][j + 1][period]
BY Characters, Zenon DEF MatchAt

\* A star that ends the pattern matches what is left, ...
LEMMA MatchLastStar ==
    ASSUME NEW pattern, NEW s, NEW flags, NEW m, NEW i, NEW j, NEW period,
           At(pattern, i) = Star, "FNM_PATHNAME" \notin flags,
           At(pattern, Behind(pattern, i)) = EOS
    PROVE  MatchAt(pattern, s, flags, m, i, j, period) <=> ~Hidden(s, j, flags, period)
BY Characters, Zenon DEF MatchAt

\* ... and any other lets the rest of the pattern begin anywhere.
LEMMA MatchStar ==
    ASSUME NEW pattern, NEW s, NEW flags, NEW m, NEW i, NEW j, NEW period,
           At(pattern, i) = Star, "FNM_PATHNAME" \notin flags,
           At(pattern, Behind(pattern, i)) # EOS
    PROVE  MatchAt(pattern, s, flags, m, i, j, period)
               <=> /\ ~Hidden(s, j, flags, period)
                   /\ \E n \in j..Len(s) : m[Behind(pattern, i)][n][FALSE]
BY Characters, Zenon DEF MatchAt

\* The pattern of list, character by character.
LEMMA AllNamesAt ==
    /\ Len(AllNames) = 3
    /\ At(AllNames, 1) = Star /\ At(AllNames, 2) = Dot /\ At(AllNames, 3) = Star
    /\ At(AllNames, 4) = EOS /\ At(AllNames, 5) = EOS
BY DEF AllNames, At, Star, Dot, EOS

LEMMA AllNamesBehind == Behind(AllNames, 1) = 2 /\ Behind(AllNames, 3) = 4
<1>1. EOS # Star /\ Dot # Star
  BY DEF EOS, Star, Dot
<1>2. \A k \in 1..4 : (At(AllNames, k) # Star /\ \A n \in 1..(k - 1) : At(AllNames, n) = Star)
                          <=> k = 2
  BY <1>1, AllNamesAt
<1>3. \A k \in 3..4 : (At(AllNames, k) # Star /\ \A n \in 3..(k - 1) : At(AllNames, n) = Star)
                          <=> k = 4
  BY <1>1, AllNamesAt
<1> QED
  BY <1>2, <1>3, AllNamesAt DEF Behind

\* What each of its characters makes of a string.
LEMMA AllNamesMatch ==
    ASSUME NEW s, NEW m, NEW j, NEW p, NEW flags,
           "FNM_PATHNAME" \notin flags, "FNM_LEADING_DIR" \notin flags
    PROVE  LET M(i) == MatchAt(AllNames, s, flags, m, i, j, p)
           IN  /\ M(1) <=> /\ ~(p /\ At(s, j) = Dot /\ j = 1)
                           /\ \E n \in j..Len(s) : m[2][n][FALSE]
               /\ M(2) <=> At(s, j) = Dot /\ m[3][j + 1][p]
               /\ M(3) <=> ~(p /\ At(s, j) = Dot /\ j = 1)
               /\ (M(4) <=> At(s, j) = EOS) /\ (M(5) <=> At(s, j) = EOS)
<1> DEFINE M(i) == MatchAt(AllNames, s, flags, m, i, j, p)
<1>1. Hidden(s, j, flags, p) <=> p /\ At(s, j) = Dot /\ j = 1
  BY Zenon DEF Hidden
<1>2. M(1) <=> ~Hidden(s, j, flags, p) /\ \E n \in j..Len(s) : m[2][n][FALSE]
  BY MatchStar, AllNamesAt, AllNamesBehind, Characters, Zenon
<1>3. M(2) <=> At(s, j) = Dot /\ m[3][j + 1][p]
  <2>1. M(2) <=> At(s, j) = Dot /\ m[2 + 1][j + 1][p]
    BY MatchDot, AllNamesAt, Zenon
  <2> QED
    BY <2>1
<1>4. M(3) <=> ~Hidden(s, j, flags, p)
  BY MatchLastStar, AllNamesAt, AllNamesBehind, Zenon
<1>5. (M(4) <=> At(s, j) = EOS) /\ (M(5) <=> At(s, j) = EOS)
  BY MatchEnd, AllNamesAt, Zenon
<1> QED
  BY <1>1, <1>2, <1>3, <1>4, <1>5, Zenon

\* The match is a truth value, whatever comes of the places behind.
LEMMA MatchIsBoolean ==
    \A pattern, s, flags, m, i, j, p : MatchAt(pattern, s, flags, m, i, j, p) \in BOOLEAN
BY SMT DEF MatchAt

\* Equivalent truth values are the same.
LEMMA SameTruth == \A x, y \in BOOLEAN : (x <=> y) => x = y
BY Zenon

\* *.* matches what does not begin with a period and has one.
LEMMA AllNamesShown ==
    ASSUME NEW s, Len(s) \in Nat
    PROVE  fnmatch(AllNames, s, {"FNM_PERIOD"})
               <=> At(s, 1) # Dot /\ \E n \in 1..Len(s) : At(s, n) = Dot
<1> DEFINE flags     == {"FNM_PERIOD"}
           I         == 1..(Len(AllNames) + 2)
           J         == 1..(Len(s) + 1)
           Hid(j, p) == p /\ At(s, j) = Dot /\ j = 1
           Walk(m)   == [i \in I |-> [j \in J |-> [p \in BOOLEAN |->
                              MatchAt(AllNames, s, flags, m, i, j, p)]]]
           match     == CHOOSE m : m = Walk(m)
           Value(i, j, p) ==
               \/ i = 1 /\ ~Hid(j, p) /\ \E n \in j..Len(s) : At(s, n) = Dot
               \/ i = 2 /\ At(s, j) = Dot
               \/ i = 3 /\ ~Hid(j, p)
               \/ i \in {4, 5} /\ At(s, j) = EOS
           table     == [i \in I |-> [j \in J |-> [p \in BOOLEAN |-> Value(i, j, p)]]]
<1>1. fnmatch(AllNames, s, {"FNM_PERIOD"}) = match[1][1]["FNM_PERIOD" \in {"FNM_PERIOD"}]
  BY Zenon DEF fnmatch
<1>2. I = {1, 2, 3, 4, 5}
  BY AllNamesAt
<1>3. "FNM_PATHNAME" \notin flags /\ "FNM_LEADING_DIR" \notin flags /\ "FNM_PERIOD" \in flags
  OBVIOUS
<1>4. \A j \in J : At(s, j) = Dot => j \in 1..Len(s) /\ j + 1 \in J /\ j + 1 # 1
  BY DEF At, Dot, EOS
<1>5. /\ \A j, p : Value(1, j, p) <=> ~Hid(j, p) /\ \E n \in j..Len(s) : At(s, n) = Dot
      /\ \A j, p : Value(2, j, p) <=> At(s, j) = Dot
      /\ \A j, p : Value(3, j, p) <=> ~Hid(j, p)
      /\ \A j, p : (Value(4, j, p) <=> At(s, j) = EOS) /\ (Value(5, j, p) <=> At(s, j) = EOS)
  <2> HIDE DEF Hid
  <2> QED
    BY SMT
<1>6. \A i, j, p : Value(i, j, p) \in BOOLEAN
  BY SMT
<1> HIDE DEF flags, I, J, Value, Hid
<1>7. ASSUME NEW i \in I, NEW j \in J, NEW p \in BOOLEAN
      PROVE  MatchAt(AllNames, s, flags, table, i, j, p) = Value(i, j, p)
  <2>1. \A k \in I, l \in J, q \in BOOLEAN : table[k][l][q] = Value(k, l, q)
    BY Zenon
  <2>2. ASSUME NEW k \in J PROVE table[3][k][p] <=> ~Hid(k, p)
    BY <1>2, <1>5, <2>1, <2>2, Zenon
  <2>3. ASSUME NEW k \in J PROVE table[2][k][FALSE] <=> At(s, k) = Dot
    BY <1>2, <1>5, <2>1, <2>3, Zenon
  <2> HIDE DEF table
  <2> DEFINE A(k) == MatchAt(AllNames, s, flags, table, k, j, p)
  <2>4. /\ A(1) <=> ~Hid(j, p) /\ \E n \in j..Len(s) : table[2][n][FALSE]
        /\ A(2) <=> At(s, j) = Dot /\ table[3][j + 1][p]
        /\ A(3) <=> ~Hid(j, p)
        /\ (A(4) <=> At(s, j) = EOS) /\ (A(5) <=> At(s, j) = EOS)
    BY <1>3, AllNamesMatch, Zenon DEF Hid
  <2>5. A(1) <=> Value(1, j, p)
    <3>1. \A n \in j..Len(s) : n \in J
      BY DEF J
    <3> QED
      BY <1>5, <2>3, <2>4, <3>1, Zenon
  <2>6. A(2) <=> Value(2, j, p)
    <3>1. At(s, j) = Dot => j + 1 \in J /\ ~Hid(j + 1, p)
      BY <1>4 DEF Hid
    <3> QED
      BY <1>5, <2>2, <2>4, <3>1, Zenon
  <2>7. A(3) <=> Value(3, j, p)
    BY <1>5, <2>4, Zenon
  <2>8. (A(4) <=> Value(4, j, p)) /\ (A(5) <=> Value(5, j, p))
    BY <1>5, <2>4, Zenon
  <2>9. A(i) <=> Value(i, j, p)
    BY <1>2, <2>5, <2>6, <2>7, <2>8, Zenon
  <2>10. A(i) \in BOOLEAN
    BY MatchIsBoolean, Zenon
  <2>11. Value(i, j, p) \in BOOLEAN
    BY <1>6
  <2> QED
    BY <2>9, <2>10, <2>11, SameTruth, Zenon
<1>8. table = Walk(table)
  BY <1>7, Zenon
<1>9. match = Walk(match)
  BY <1>8, Zenon
<1>10. \A i \in I, j \in J, p \in BOOLEAN :
          match[i][j][p] = MatchAt(AllNames, s, flags, match, i, j, p)
  <2> HIDE DEF match
  <2>1. \A i \in I, j \in J, p \in BOOLEAN :
            Walk(match)[i][j][p] = MatchAt(AllNames, s, flags, match, i, j, p)
    BY Zenon
  <2> HIDE DEF Walk
  <2> QED
    BY <1>9, <2>1, Zenon
<1> HIDE DEF match
<1>11. 1 \in J /\ \A n \in 1..Len(s) : n \in J
  BY DEF J
<1>12. match[1][1][TRUE] <=> At(s, 1) # Dot /\ \E n \in 1..Len(s) : match[2][n][FALSE]
  <2>1. match[1][1][TRUE] = MatchAt(AllNames, s, flags, match, 1, 1, TRUE)
    BY <1>2, <1>10, <1>11, Zenon
  <2>2. MatchAt(AllNames, s, flags, match, 1, 1, TRUE)
            <=> ~(TRUE /\ At(s, 1) = Dot /\ 1 = 1) /\ \E n \in 1..Len(s) : match[2][n][FALSE]
    BY <1>3, AllNamesMatch, Zenon
  <2> QED
    BY <2>1, <2>2, Zenon
<1>13. ASSUME NEW n \in 1..Len(s) PROVE match[2][n][FALSE] <=> At(s, n) = Dot
  <2>1. match[2][n][FALSE] = MatchAt(AllNames, s, flags, match, 2, n, FALSE)
    BY <1>2, <1>10, <1>11, Zenon
  <2>2. MatchAt(AllNames, s, flags, match, 2, n, FALSE)
            <=> At(s, n) = Dot /\ match[3][n + 1][FALSE]
    BY <1>3, AllNamesMatch, Zenon
  <2>3. At(s, n) = Dot => match[3][n + 1][FALSE]
    <3>1. n + 1 \in J
      BY DEF J
    <3>2. match[3][n + 1][FALSE] = MatchAt(AllNames, s, flags, match, 3, n + 1, FALSE)
      BY <1>2, <1>10, <3>1, Zenon
    <3>3. MatchAt(AllNames, s, flags, match, 3, n + 1, FALSE)
              <=> ~(FALSE /\ At(s, n + 1) = Dot /\ n + 1 = 1)
      BY <1>3, AllNamesMatch, Zenon
    <3> QED
      BY <3>2, <3>3, Zenon
  <2> QED
    BY <2>1, <2>2, <2>3, Zenon
<1> QED
  BY <1>1, <1>3, <1>12, <1>13, Zenon DEF flags

\* The paths of all files are such strings.
LEMMA PathsShown ==
    \A f \in File : /\ Len(Path(f)) \in Nat /\ At(Path(f), 1) # Dot
                    /\ \E n \in 1..Len(Path(f)) : At(Path(f), n) = Dot
<1>1. ASSUME NEW x
      PROVE  LET s == <<Slash, 99, Slash, x, Dot, 98>>
             IN  /\ Len(s) \in Nat /\ At(s, 1) # Dot
                 /\ \E n \in 1..Len(s) : At(s, n) = Dot
  <2> DEFINE s == <<Slash, 99, Slash, x, Dot, 98>>
  <2>1. Len(s) = 6 /\ s[1] = Slash /\ s[5] = Dot
    OBVIOUS
  <2>2. At(s, 1) = Slash /\ At(s, 5) = Dot /\ 5 \in 1..Len(s) /\ Slash # Dot
    BY <2>1 DEF At, Slash, Dot
  <2> QED
    BY <2>1, <2>2
<1>2. ASSUME NEW f \in File PROVE \E x : Path(f) = <<Slash, 99, Slash, x, Dot, 98>>
  BY <1>2 DEF File, ConfigFile, Path
<1> QED
  BY <1>1, <1>2, Zenon

\* sem_task has nothing to write before packages are handed over; what was
\* listed is what there is until then.
ListInv == /\ saving > 0 => Receiving
           /\ ListShowsAll

LEMMA ListInvStep == Inv /\ ListInv /\ [Next]_vars => ListInv'
<1> SUFFICES ASSUME Inv, ListInv, [Next]_vars PROVE ListInv'
  OBVIOUS
<1>0. at \in [step : Steps, file : File, chunk : Chunk]
  BY DEF Inv, TypeOK
<1>1. CASE list
  <2>1. \A f \in File : fnmatch(AllNames, Path(f), {"FNM_PERIOD"})
    BY AllNamesShown, PathsShown
  <2>2. listed' = {f \in File : file_search(files[f])} /\ UNCHANGED <<saving, files>>
    BY <1>1, <2>1 DEF list
  <2>3. ~(saving > 0)
    BY <1>1 DEF list, ListInv, Receiving
  <2> QED
    BY <2>2, <2>3 DEF ListInv, ListShowsAll
<1>2. CASE ReadConfig \/ default_config \/ WriteConfig \/ CheckConfig
  <2>1. at.step \in {"read", "default", "write", "check"} /\ saving' = saving
    BY <1>2 DEF ReadConfig, default_config, WriteConfig, CheckConfig
  <2>2. at'.step # "initialize"
    <3>1. CASE ReadConfig \/ CheckConfig
      BY <1>0, <3>1 DEF ReadConfig, CheckConfig, AfterConfig, Step
    <3>2. CASE default_config
      BY <1>0, <3>2 DEF default_config
    <3>3. CASE WriteConfig
      BY <1>0, <3>3 DEF WriteConfig, NextChunk
    <3> QED
      BY <1>2, <3>1, <3>2, <3>3
  <2> QED
    BY <2>1, <2>2 DEF ListInv, ListShowsAll, Receiving
<1>3. CASE DaliInitialize \/ InitName \/ InitSize \/ InitControl \/ InitSave \/ InitLoad \/ Start
  <2>1. at'.step \in {"name", "size", "control", "save", "load", "start", "up"}
    <3>1. CASE InitSave
      BY <1>0, <3>1 DEF InitSave, NextChunk
    <3>2. CASE InitSize
      BY <3>2 DEF InitSize, Goto, Step
    <3> QED
      BY <1>3, <3>1, <3>2 DEF DaliInitialize, InitName, InitControl, InitLoad, Start, Goto, Step
  <2> QED
    BY <2>1 DEF ListInv, ListShowsAll, Receiving
<1>4. CASE Restart
  BY <1>4 DEF Restart, PowerOn, Step, ListInv, ListShowsAll
<1>5. CASE \E p \in Packages : dali_callback(p)
  BY <1>5 DEF dali_callback, ListInv, ListShowsAll, Receiving
<1>6. CASE SaveVar
  BY <1>6 DEF SaveVar, ListInv, ListShowsAll, Receiving
<1>7. CASE FadeOver \/ UNCHANGED vars
  BY <1>7 DEF FadeOver, vars, memory, history, ListInv, ListShowsAll, Receiving
<1> QED
  BY <1>1, <1>2, <1>3, <1>4, <1>5, <1>6, <1>7 DEF Next, app_main

\* The list that config makes shows every file there is at that time and no
\* other, whatever an earlier start has left: the paths begin with a slash and
\* not with the period that FNM_PERIOD would want written out, and the stars
\* reach over the other slashes.
THEOREM AllFilesListed == Spec => []ListShowsAll
<1>1. Init => ListInv
  BY DEF Init, PowerOn, Step, ListInv, ListShowsAll
<1>2. ListInv => ListShowsAll
  BY DEF ListInv
<1> QED
  BY <1>1, <1>2, InvAlways, ListInvStep, PTL DEF Spec
=============================================================================

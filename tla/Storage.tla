------------------------------ MODULE Storage ------------------------------
(***************************************************************************)
(* The file operations of main/comp/storage.cpp.  A file holds an image,   *)
(* cut into the chunks of 128 bytes in which newlib hands a long fwrite to *)
(* the file system; a mains failure may fall between two of them, so a     *)
(* write is a step for each chunk.                                         *)
(***************************************************************************)
EXTENDS Integers, Sequences

Missing == [exists |-> FALSE, data |-> <<>>]

FileWith(image) == [exists |-> TRUE, data |-> image]

file_search(file) == file.exists

\* A missing file is created empty, one that is there is left as it is.
file_control(file) == IF file_search(file) THEN file ELSE FileWith(<<>>)

file_size(file) == Len(file.data)

\* Seeded fault: fopen with a.
write_chunk_append(file, image, i) ==
    IF ~file_search(file) THEN file ELSE FileWith(Append(file.data, image[i]))

\* fopen with r+ opens a file that is there and does not shorten it: what is
\* not overwritten stays.
write_chunk(file, image, i) ==
    IF ~file_search(file) THEN file
    ELSE FileWith([j \in 1..(IF i > Len(file.data) THEN i ELSE Len(file.data)) |->
                       IF j = i THEN image[i] ELSE file.data[j]])

\* fread fills what the file has; the rest of the buffer, and all of it when
\* the file is missing, keeps what it held.
read_file(file, buffer) ==
    [i \in DOMAIN buffer |-> IF i <= Len(file.data) THEN file.data[i] ELSE buffer[i]]
=============================================================================

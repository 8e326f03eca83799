-------------------------------- MODULE VDLS --------------------------------
(***************************************************************************)
(* The value store, src/lib/VDLS.hpp: records are copied one after the     *)
(* other into a memory-mapped data file of MaxFileSize bytes; a record     *)
(* that does not fit goes to the start of the next file.  The caller keeps *)
(* the <<file, offset, size>> it gets back (in a leaf node of the trie)    *)
(* and reads the value with it, through one read mapping that is replaced  *)
(* when a location names another file.                                     *)
(*                                                                         *)
(* Bytes: byte i of record r is the pair <<r, i>>, and NUL is a byte       *)
(* nobody wrote.  Both mappings are MAP_SHARED, so the read mapping sees   *)
(* what the write mapping holds and one copy of the files is enough.       *)
(***************************************************************************)
EXTENDS Integers, Sequences

CONSTANTS
    Record,       \* the triples <<version, key, value>> a client may write
    SizeOf,       \* SizeOf[r]: length of "version,key,value\n"
    TextOf,       \* TextOf[r]: what the getline calls of ReadValue extract
                  \* from the record: the value up to its first newline
    MaxFileSize,  \* 64 MiB in the code
    MaxRecords,   \* bound: records written per behaviour
    NUL,          \* a byte of a file nobody has written
    Garbled,      \* the answer when the bytes read are not one whole record
    NoReply       \* no read has answered since the last write

ASSUME FileSizeAssumption == MaxFileSize \in Nat \ {0}
ASSUME RecordBoundAssumption == MaxRecords \in Nat
\* A record larger than a file would be copied past the end of the mapping.
ASSUME SizeAssumption == SizeOf \in [Record -> 1..MaxFileSize]

VARIABLES
    current_fileID,   \* file being written
    current_offset,   \* first free byte of that file
    disk,             \* disk[f][o]: byte o of data_file_f.dat
    read_map_fileID,  \* file mapped for reading, -1 before the first read
    issued,           \* the locations returned so far, each with its record
    reply             \* the last read's index in issued and its answer

vars == <<current_fileID, current_offset, disk, read_map_fileID, issued, reply>>

Byte == {<<r, i>> : r \in Record, i \in 0..MaxFileSize} \cup {NUL}
Text == {TextOf[r] : r \in Record} \cup {Garbled}

\* The bytes of record r as a read of its location should find them.
Image(r) == [i \in 0..(SizeOf[r] - 1) |-> <<r, i>>]

\* open(O_CREAT) and ftruncate(MaxFileSize): old contents stay, the rest is NUL.
OpenAndMapWriteFile(d, f) ==
    [g \in DOMAIN d \cup {f} |->
        IF g # f THEN d[g]
        ELSE [o \in 0..(MaxFileSize - 1) |->
                IF f \in DOMAIN d THEN IF o \in DOMAIN d[f] THEN d[f][o] ELSE NUL
                ELSE NUL]]

\* The constructor: always file 0, offset 0, whatever files the directory holds.
Init ==
    /\ current_fileID = 0
    /\ current_offset = 0
    /\ disk = [g \in {0} |-> [o \in 0..(MaxFileSize - 1) |-> NUL]]
    /\ read_map_fileID = -1
    /\ issued = <<>>
    /\ reply = NoReply

-----------------------------------------------------------------------------
(* Writing *)

\* Mutant: the file is closed only once its write offset has reached the end.
RotatesLate(r) == current_offset >= MaxFileSize

Rotates(r) == current_offset + SizeOf[r] > MaxFileSize

\* Mutant: the offset is reset for the new file, which is never opened.
SameFile(r) == current_fileID

FileFor(r) == IF Rotates(r) THEN current_fileID + 1 ELSE current_fileID

\* Mutant: the offset is not reset when a file is opened.
OffsetKept(r) == current_offset

OffsetFor(r) == IF Rotates(r) THEN 0 ELSE current_offset

\* memcpy of record r to offset o of the mapping of file f.
Copied(d, f, o, r) ==
    [g \in DOMAIN d |->
        IF g # f THEN d[g]
        ELSE [p \in DOMAIN d[g] |->
                IF p \in o..(o + SizeOf[r] - 1) THEN <<r, p - o>> ELSE d[g][p]]]

LocationOf(r) == [file |-> FileFor(r), offset |-> OffsetFor(r), size |-> SizeOf[r]]

WriteValue(r) ==
    /\ Len(issued) < MaxRecords
    /\ LET opened == IF Rotates(r) THEN OpenAndMapWriteFile(disk, FileFor(r)) ELSE disk
       IN  disk' = Copied(opened, FileFor(r), OffsetFor(r), r)
    /\ current_fileID' = FileFor(r)
    /\ current_offset' = OffsetFor(r) + SizeOf[r]
    /\ issued' = Append(issued, [loc |-> LocationOf(r), rec |-> r])
    /\ reply' = NoReply
    /\ UNCHANGED read_map_fileID

-----------------------------------------------------------------------------
(* Reading *)

\* Mutant: an existing read mapping is used whatever file the location names.
StaleMap(loc) == IF read_map_fileID = -1 THEN loc.file ELSE read_map_fileID

\* The file the read mapping shows once ReadValue has looked at the location.
MappedFor(loc) == loc.file

BytesAt(f, loc) == [i \in 0..(loc.size - 1) |-> disk[f][loc.offset + i]]

Parse(bytes) ==
    IF \E r \in Record : bytes = Image(r)
    THEN TextOf[CHOOSE r \in Record : bytes = Image(r)]
    ELSE Garbled

ReadValue(k) ==
    LET loc == issued[k].loc IN
    /\ read_map_fileID' = MappedFor(loc)
    /\ reply' = [of |-> k, text |-> Parse(BytesAt(MappedFor(loc), loc))]
    /\ UNCHANGED <<current_fileID, current_offset, disk, issued>>

Next ==
    \/ \E r \in Record : WriteValue(r)
    \/ \E k \in DOMAIN issued : ReadValue(k)

Spec == Init /\ [][Next]_vars

-----------------------------------------------------------------------------
(* Opening the store again: a new VDLS object over the files of the last   *)
(* one.  The trie's leaves on disk still hold the locations issued before. *)

Reopen ==
    /\ current_fileID' = 0
    /\ current_offset' = 0
    /\ disk' = OpenAndMapWriteFile(disk, 0)
    /\ read_map_fileID' = -1
    /\ reply' = NoReply
    /\ UNCHANGED issued

SpecReopen == Init /\ [][Next \/ Reopen]_vars

-----------------------------------------------------------------------------
(* Properties *)

TypeOK ==
    /\ current_fileID \in Nat
    /\ current_offset \in 0..MaxFileSize
    /\ disk \in [0..current_fileID -> [0..(MaxFileSize - 1) -> Byte]]
    /\ read_map_fileID \in {-1} \cup Nat
    /\ issued \in Seq([loc : [file : Nat, offset : Nat, size : Nat], rec : Record])
    /\ reply \in {NoReply} \cup [of : DOMAIN issued, text : Text]

\* Where an issued location may lie: wholly inside a file already closed, or
\* below the first free byte of the one being written.
BehindTheEnd(loc) ==
    /\ loc.offset + loc.size <= MaxFileSize
    /\ \/ loc.file < current_fileID
       \/ loc.file = current_fileID /\ loc.offset + loc.size <= current_offset

\* The inductive core of IssuedIntact.
IssuedBehindTheEnd ==
    \A k \in DOMAIN issued :
        /\ issued[k].loc.size = SizeOf[issued[k].rec]
        /\ BehindTheEnd(issued[k].loc)

\* Every location WriteValue ever returned still holds exactly the bytes of
\* the record it was returned for, however many records and files followed.
IssuedIntact ==
    \A k \in DOMAIN issued :
        LET loc == issued[k].loc IN
        /\ loc.file \in DOMAIN disk
        /\ loc.offset + loc.size <= MaxFileSize
        /\ BytesAt(loc.file, loc) = Image(issued[k].rec)

\* A byte of a data file, once written, is never written again.
NeverOverwritten ==
    [][\A f \in DOMAIN disk : \A o \in DOMAIN disk[f] :
          disk[f][o] # NUL => disk'[f][o] = disk[f][o]]_vars

\* The store implements the append-only log: the log is the sequence of
\* records in the order of their locations.
Log == INSTANCE AppendLog WITH log <- [k \in DOMAIN issued |-> issued[k].rec]

ImplementsAppendLog == Log!Spec
=============================================================================

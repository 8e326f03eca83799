----------------------------- MODULE VDLSProofs -----------------------------
(***************************************************************************)
(* Proofs about VDLS.tla for every set of records, every file size and     *)
(* every bound: the type invariant, that issued locations keep their       *)
(* bytes, that no byte is written twice, and that the store implements the *)
(* append-only log.                                                        *)
(***************************************************************************)
EXTENDS VDLS, SequenceTheorems, TLAPS

\* A write fits in the file it goes to, at the offset it goes to.
LEMMA WriteFits ==
    ASSUME TypeOK, NEW r \in Record
    PROVE  /\ FileFor(r) \in Nat
           /\ FileFor(r) \in {current_fileID, current_fileID + 1}
           /\ OffsetFor(r) \in 0..MaxFileSize
           /\ OffsetFor(r) + SizeOf[r] \in 0..MaxFileSize
           /\ SizeOf[r] \in 1..MaxFileSize
           /\ FileFor(r) = current_fileID => OffsetFor(r) = current_offset
BY FileSizeAssumption, SizeAssumption DEF TypeOK, FileFor, OffsetFor, Rotates

\* The files a write leaves: those there were and the one it writes, each of
\* MaxFileSize bytes.
LEMMA WrittenFiles ==
    ASSUME TypeOK, NEW r \in Record,
           NEW opened,
           opened = IF Rotates(r) THEN OpenAndMapWriteFile(disk, FileFor(r)) ELSE disk
    PROVE  /\ opened \in [0..FileFor(r) -> [0..(MaxFileSize - 1) -> Byte]]
           /\ Copied(opened, FileFor(r), OffsetFor(r), r)
                \in [0..FileFor(r) -> [0..(MaxFileSize - 1) -> Byte]]
           /\ \A f \in 0..current_fileID : opened[f] = disk[f]
<1>1. DOMAIN disk = 0..current_fileID /\ NUL \in Byte
  BY DEF TypeOK, Byte
<1>2. opened \in [0..FileFor(r) -> [0..(MaxFileSize - 1) -> Byte]]
      /\ \A f \in 0..current_fileID : opened[f] = disk[f]
  <2>1. CASE Rotates(r)
    <3>1. FileFor(r) = current_fileID + 1 /\ FileFor(r) \notin DOMAIN disk
      BY <1>1, <2>1 DEF FileFor, TypeOK
    <3>2. DOMAIN disk \cup {FileFor(r)} = 0..FileFor(r)
      BY <1>1, <3>1 DEF TypeOK
    <3>3. opened = [g \in 0..FileFor(r) |->
                      IF g # FileFor(r) THEN disk[g]
                      ELSE [o \in 0..(MaxFileSize - 1) |-> NUL]]
      BY <2>1, <3>1, <3>2 DEF OpenAndMapWriteFile
    <3>4. \A g \in 0..FileFor(r) : g # FileFor(r) => g \in 0..current_fileID
      BY <3>1 DEF TypeOK
    <3>5. \A f \in 0..current_fileID : f # FileFor(r) /\ f \in 0..FileFor(r)
      BY <3>1 DEF TypeOK
    <3>6. [o \in 0..(MaxFileSize - 1) |-> NUL] \in [0..(MaxFileSize - 1) -> Byte]
      BY <1>1
    <3>7. \A f \in 0..current_fileID : disk[f] \in [0..(MaxFileSize - 1) -> Byte]
      BY DEF TypeOK
    <3> QED
      BY <3>3, <3>4, <3>5, <3>6, <3>7, Zenon
  <2>2. CASE ~Rotates(r)
    BY <1>1, <2>2 DEF FileFor, TypeOK
  <2> QED
    BY <2>1, <2>2
<1>3. Copied(opened, FileFor(r), OffsetFor(r), r)
        \in [0..FileFor(r) -> [0..(MaxFileSize - 1) -> Byte]]
  <2>1. \A p \in OffsetFor(r)..(OffsetFor(r) + SizeOf[r] - 1) : <<r, p - OffsetFor(r)>> \in Byte
    <3>1. \A p \in OffsetFor(r)..(OffsetFor(r) + SizeOf[r] - 1) : p - OffsetFor(r) \in 0..MaxFileSize
      BY WriteFits, FileSizeAssumption
    <3> QED
      BY <3>1 DEF Byte
  <2>2. \A g \in 0..FileFor(r) : opened[g] \in [0..(MaxFileSize - 1) -> Byte]
    BY <1>2
  <2>3. \A g \in 0..FileFor(r) :
          (IF g # FileFor(r) THEN opened[g]
           ELSE [p \in DOMAIN opened[g] |->
                   IF p \in OffsetFor(r)..(OffsetFor(r) + SizeOf[r] - 1)
                   THEN <<r, p - OffsetFor(r)>> ELSE opened[g][p]])
            \in [0..(MaxFileSize - 1) -> Byte]
    BY <2>1, <2>2
  <2>4. DOMAIN opened = 0..FileFor(r)
    BY <1>2
  <2> QED
    BY <2>3, <2>4 DEF Copied
<1> QED
  BY <1>2, <1>3

\* A returned location and its record have the types TypeOK gives them.
LEMMA IssuedShape ==
    ASSUME TypeOK, NEW k \in DOMAIN issued
    PROVE  /\ k \in 1..Len(issued)
           /\ issued[k] \in [loc : [file : Nat, offset : Nat, size : Nat], rec : Record]
           /\ issued[k].loc.file \in Nat
           /\ issued[k].loc.offset \in Nat
           /\ issued[k].loc.size \in Nat
           /\ issued[k].rec \in Record
<1>1. k \in 1..Len(issued)
  BY DEF TypeOK
<1>2. issued[k] \in [loc : [file : Nat, offset : Nat, size : Nat], rec : Record]
  BY <1>1, ElementOfSeq DEF TypeOK
<1> QED
  BY <1>1, <1>2

\* An opened store is well typed.
LEMMA TypeCorrectInit == Init => TypeOK
<1> SUFFICES ASSUME Init PROVE TypeOK
  OBVIOUS
<1>1. 0..0 = {0} /\ NUL \in Byte
  BY DEF Byte
<1>2. disk \in [0..current_fileID -> [0..(MaxFileSize - 1) -> Byte]]
  BY <1>1 DEF Init
<1> QED
  BY <1>2, FileSizeAssumption DEF Init, TypeOK

\* Writes and reads keep the store well typed.
LEMMA TypeCorrectStep == TypeOK /\ [Next]_vars => TypeOK'
<1> SUFFICES ASSUME TypeOK, [Next]_vars PROVE TypeOK'
  OBVIOUS
<1>1. ASSUME NEW r \in Record, WriteValue(r) PROVE TypeOK'
  <2>1. disk' \in [0..current_fileID' -> [0..(MaxFileSize - 1) -> Byte]]
    BY <1>1, WrittenFiles DEF WriteValue
  <2>2. current_fileID' \in Nat /\ current_offset' \in 0..MaxFileSize
    BY <1>1, WriteFits DEF WriteValue
  <2>3. read_map_fileID' \in {-1} \cup Nat
    BY <1>1 DEF WriteValue, TypeOK
  <2>4. issued' \in Seq([loc : [file : Nat, offset : Nat, size : Nat], rec : Record])
    BY <1>1, WriteFits DEF WriteValue, LocationOf, TypeOK
  <2>5. reply' \in {NoReply} \cup [of : DOMAIN issued', text : Text]
    BY <1>1 DEF WriteValue
  <2> QED
    BY <2>1, <2>2, <2>3, <2>4, <2>5 DEF TypeOK, Byte, Text
<1>2. ASSUME NEW k \in DOMAIN issued, ReadValue(k) PROVE TypeOK'
  <2>1. Parse(BytesAt(MappedFor(issued[k].loc), issued[k].loc)) \in Text
    BY DEF Parse, Text
  <2>2. reply' \in {NoReply} \cup [of : DOMAIN issued', text : Text]
    BY <1>2, <2>1 DEF ReadValue
  <2>3. read_map_fileID' \in {-1} \cup Nat
    <3>1. issued[k].loc.file \in Nat
      BY IssuedShape
    <3> QED
      BY <1>2, <3>1 DEF ReadValue, MappedFor
  <2>4. UNCHANGED <<current_fileID, current_offset, disk, issued>>
    BY <1>2 DEF ReadValue
  <2> QED
    BY <2>2, <2>3, <2>4 DEF TypeOK
<1>3. CASE UNCHANGED vars
  BY <1>3 DEF vars, TypeOK, Byte, Text
<1> QED
  BY <1>1, <1>2, <1>3 DEF Next

\* Type correctness of every state the store reaches.
THEOREM TypeCorrect == Spec => []TypeOK
BY TypeCorrectInit, TypeCorrectStep, PTL DEF Spec

-----------------------------------------------------------------------------
(* The inductive invariant: issued locations lie behind the end of the log *)
(* and keep their bytes, and no byte beyond the end is written yet.        *)

TailBlank ==
    \A o \in current_offset..(MaxFileSize - 1) : disk[current_fileID][o] = NUL

IInv == TypeOK /\ IssuedBehindTheEnd /\ IssuedIntact /\ TailBlank

\* A write changes no byte behind the end of the log.
LEMMA BytesKept ==
    ASSUME TypeOK, NEW r \in Record, WriteValue(r),
           NEW f \in 0..current_fileID, NEW p \in 0..(MaxFileSize - 1),
           f = current_fileID => p < current_offset
    PROVE  disk'[f][p] = disk[f][p]
<1> DEFINE opened == IF Rotates(r) THEN OpenAndMapWriteFile(disk, FileFor(r)) ELSE disk
<1>1. disk' = Copied(opened, FileFor(r), OffsetFor(r), r)
  BY DEF WriteValue
<1>2. /\ opened \in [0..FileFor(r) -> [0..(MaxFileSize - 1) -> Byte]]
      /\ opened[f] = disk[f]
  BY WrittenFiles
<1>3. f \in 0..FileFor(r)
  <2>1. current_fileID \in Nat
    BY DEF TypeOK
  <2> QED
    BY <2>1, WriteFits
<1>4. CASE f # FileFor(r)
  BY <1>1, <1>2, <1>3, <1>4 DEF Copied
<1>5. CASE f = FileFor(r)
  <2>1. f = current_fileID /\ OffsetFor(r) = current_offset
    BY <1>5, WriteFits DEF TypeOK
  <2>2. p \notin OffsetFor(r)..(OffsetFor(r) + SizeOf[r] - 1)
    BY <2>1, WriteFits DEF TypeOK
  <2>3. p \in DOMAIN opened[f] /\ f \in DOMAIN opened
    BY <1>2, <1>3
  <2>4. disk'[f] = [q \in DOMAIN opened[f] |->
                      IF q \in OffsetFor(r)..(OffsetFor(r) + SizeOf[r] - 1)
                      THEN <<r, q - OffsetFor(r)>> ELSE opened[f][q]]
    BY <1>1, <1>5, <2>3 DEF Copied
  <2> QED
    BY <1>2, <2>2, <2>3, <2>4
<1> QED
  BY <1>4, <1>5

\* A write leaves the record's bytes at the location it returns.
LEMMA BytesWritten ==
    ASSUME TypeOK, NEW r \in Record, WriteValue(r),
           NEW i \in 0..(SizeOf[r] - 1)
    PROVE  /\ FileFor(r) \in DOMAIN disk'
           /\ disk'[FileFor(r)][OffsetFor(r) + i] = <<r, i>>
<1> DEFINE opened == IF Rotates(r) THEN OpenAndMapWriteFile(disk, FileFor(r)) ELSE disk
<1>1. disk' = Copied(opened, FileFor(r), OffsetFor(r), r)
  BY DEF WriteValue
<1>2. opened \in [0..FileFor(r) -> [0..(MaxFileSize - 1) -> Byte]]
  BY WrittenFiles
<1>3. FileFor(r) \in DOMAIN opened
  BY <1>2, WriteFits
<1>4. /\ OffsetFor(r) + i \in 0..(MaxFileSize - 1)
      /\ OffsetFor(r) + i \in OffsetFor(r)..(OffsetFor(r) + SizeOf[r] - 1)
      /\ (OffsetFor(r) + i) - OffsetFor(r) = i
  BY WriteFits, FileSizeAssumption
<1>5. OffsetFor(r) + i \in DOMAIN opened[FileFor(r)]
  BY <1>2, <1>3, <1>4
<1>6. disk'[FileFor(r)] = [q \in DOMAIN opened[FileFor(r)] |->
                      IF q \in OffsetFor(r)..(OffsetFor(r) + SizeOf[r] - 1)
                      THEN <<r, q - OffsetFor(r)>> ELSE opened[FileFor(r)][q]]
  BY <1>1, <1>3 DEF Copied
<1>7. FileFor(r) \in DOMAIN disk'
  BY <1>1, <1>3 DEF Copied
<1> QED
  BY <1>4, <1>5, <1>6, <1>7

\* A write leaves the rest of the file it went to blank.
LEMMA TailKept ==
    ASSUME TypeOK, TailBlank, NEW r \in Record, WriteValue(r)
    PROVE  TailBlank'
<1> DEFINE opened == IF Rotates(r) THEN OpenAndMapWriteFile(disk, FileFor(r)) ELSE disk
<1> SUFFICES ASSUME NEW o \in (OffsetFor(r) + SizeOf[r])..(MaxFileSize - 1)
             PROVE  disk'[FileFor(r)][o] = NUL
  BY DEF TailBlank, WriteValue
<1>1. disk' = Copied(opened, FileFor(r), OffsetFor(r), r)
  BY DEF WriteValue
<1>2. opened \in [0..FileFor(r) -> [0..(MaxFileSize - 1) -> Byte]]
  BY WrittenFiles
<1>3. /\ FileFor(r) \in DOMAIN opened
      /\ o \in 0..(MaxFileSize - 1)
      /\ o \notin OffsetFor(r)..(OffsetFor(r) + SizeOf[r] - 1)
  BY <1>2, WriteFits, FileSizeAssumption
<1>4. disk'[FileFor(r)] = [q \in DOMAIN opened[FileFor(r)] |->
                      IF q \in OffsetFor(r)..(OffsetFor(r) + SizeOf[r] - 1)
                      THEN <<r, q - OffsetFor(r)>> ELSE opened[FileFor(r)][q]]
  BY <1>1, <1>3 DEF Copied
<1>5. disk'[FileFor(r)][o] = opened[FileFor(r)][o]
  BY <1>2, <1>3, <1>4
<1>6. opened[FileFor(r)][o] = NUL
  <2>1. CASE Rotates(r)
    <3>1. FileFor(r) \notin DOMAIN disk
      BY <2>1 DEF FileFor, TypeOK
    <3> QED
      BY <1>3, <2>1, <3>1 DEF OpenAndMapWriteFile
  <2>2. CASE ~Rotates(r)
    <3>1. opened = disk /\ FileFor(r) = current_fileID /\ OffsetFor(r) = current_offset
      BY <2>2 DEF FileFor, OffsetFor
    <3>2. o \in current_offset..(MaxFileSize - 1)
      BY <3>1, WriteFits DEF TypeOK
    <3> QED
      BY <3>1, <3>2 DEF TailBlank
  <2> QED
    BY <2>1, <2>2
<1> QED
  BY <1>5, <1>6

Location == [file : Nat, offset : Nat, size : Nat]

\* A write leaves a location behind the end of the log where it was, with the
\* bytes it had.
LEMMA WriteKeeps ==
    ASSUME TypeOK, NEW r \in Record, WriteValue(r),
           NEW loc \in Location, BehindTheEnd(loc)
    PROVE  /\ BehindTheEnd(loc)'
           /\ (loc.file \in DOMAIN disk)'
           /\ BytesAt(loc.file, loc)' = BytesAt(loc.file, loc)
<1>1. loc.file \in Nat /\ loc.offset \in Nat /\ loc.size \in Nat
  BY DEF Location
<1>2. /\ current_fileID \in Nat /\ current_offset \in 0..MaxFileSize
      /\ DOMAIN disk' = 0..current_fileID'
  BY TypeCorrectStep DEF TypeOK, Next
<1>3. loc.file \in 0..current_fileID
  BY <1>1, <1>2 DEF BehindTheEnd
<1>4. /\ current_fileID' \in {current_fileID, current_fileID + 1}
      /\ current_fileID' = current_fileID => current_offset' >= current_offset
  BY <1>2, WriteFits DEF WriteValue
<1>5. BehindTheEnd(loc)'
  <2>1. /\ current_offset' \in 0..MaxFileSize /\ MaxFileSize \in Nat
        /\ current_fileID' \in Nat
    BY WriteFits, FileSizeAssumption DEF WriteValue
  <2> QED
    BY <1>1, <1>2, <1>4, <2>1 DEF BehindTheEnd
<1>6. ASSUME NEW i \in 0..(loc.size - 1)
      PROVE  disk'[loc.file][loc.offset + i] = disk[loc.file][loc.offset + i]
  <2>1. loc.offset + i \in 0..(MaxFileSize - 1)
    BY <1>1, FileSizeAssumption DEF BehindTheEnd
  <2>2. loc.file = current_fileID => loc.offset + i < current_offset
    BY <1>1, <1>2 DEF BehindTheEnd
  <2> QED
    BY <1>3, <2>1, <2>2, BytesKept
<1>7. (loc.file \in DOMAIN disk)'
  BY <1>2, <1>3, <1>4
<1> QED
  BY <1>5, <1>6, <1>7 DEF BytesAt

\* The location a write returns lies behind the new end and holds the record.
LEMMA WriteIssues ==
    ASSUME TypeOK, NEW r \in Record, WriteValue(r),
           NEW loc, loc = LocationOf(r)
    PROVE  /\ loc \in Location
           /\ loc.size = SizeOf[r]
           /\ BehindTheEnd(loc)'
           /\ (loc.file \in DOMAIN disk)'
           /\ BytesAt(loc.file, loc)' = Image(r)
<1>1. /\ loc \in Location
      /\ loc.file = FileFor(r) /\ loc.offset = OffsetFor(r) /\ loc.size = SizeOf[r]
  BY WriteFits, FileSizeAssumption DEF LocationOf, Location
<1>2. BehindTheEnd(loc)'
  BY <1>1, WriteFits, FileSizeAssumption DEF BehindTheEnd, WriteValue
<1>3. 0 \in 0..(SizeOf[r] - 1)
  BY WriteFits
<1>4. \A i \in 0..(SizeOf[r] - 1) :
         FileFor(r) \in DOMAIN disk' /\ disk'[FileFor(r)][OffsetFor(r) + i] = <<r, i>>
  BY BytesWritten
<1>5. [i \in 0..(SizeOf[r] - 1) |-> disk'[FileFor(r)][OffsetFor(r) + i]] = Image(r)
  BY <1>4 DEF Image
<1>6. BytesAt(loc.file, loc)' = Image(r)
  BY <1>1, <1>5 DEF BytesAt
<1> QED
  BY <1>1, <1>2, <1>3, <1>4, <1>6

\* The inductive invariant holds throughout.
THEOREM Invariance == Spec => []IInv
<1>1. Init => IInv
  <2> SUFFICES ASSUME Init PROVE IInv
    OBVIOUS
  <2>1. TypeOK
    BY TypeCorrectInit
  <2> QED
    BY <2>1 DEF Init, IInv, IssuedBehindTheEnd, IssuedIntact, TailBlank
<1>2. IInv /\ [Next]_vars => IInv'
  <2> SUFFICES ASSUME IInv, [Next]_vars PROVE IInv'
    OBVIOUS
  <2>0. TypeOK /\ TypeOK'
    BY TypeCorrectStep DEF IInv
  <2>1. ASSUME NEW r \in Record, WriteValue(r) PROVE IInv'
    <3>1. TailBlank'
      BY <2>0, <2>1, TailKept DEF IInv
    <3>2. ASSUME NEW k \in DOMAIN issued'
          PROVE  LET loc == issued'[k].loc IN
                 /\ loc.size = SizeOf[issued'[k].rec]
                 /\ BehindTheEnd(issued[k].loc)'
                 /\ loc.file \in DOMAIN disk'
                 /\ BytesAt(issued[k].loc.file, issued[k].loc)' = Image(issued'[k].rec)
      <4>1. /\ issued' = Append(issued, [loc |-> LocationOf(r), rec |-> r])
            /\ k \in 1..(Len(issued) + 1)
            /\ Len(issued) \in Nat
            /\ DOMAIN issued = 1..Len(issued)
        <5>1. issued \in Seq([loc : Location, rec : Record])
          BY <2>0 DEF TypeOK, Location
        <5>2. issued' = Append(issued, [loc |-> LocationOf(r), rec |-> r])
          BY <2>1 DEF WriteValue
        <5> QED
          BY <5>1, <5>2
      <4>2. CASE k = Len(issued) + 1
        <5>1. issued'[k] = [loc |-> LocationOf(r), rec |-> r]
          BY <4>1, <4>2
        <5> QED
          BY <2>0, <2>1, <5>1, WriteIssues
      <4>3. CASE k \in DOMAIN issued
        <5>1. issued'[k] = issued[k]
          BY <4>1, <4>3
        <5>2. issued[k].loc \in Location
          BY <2>0, <4>3, IssuedShape DEF Location
        <5>3. /\ issued[k].loc.size = SizeOf[issued[k].rec]
              /\ BehindTheEnd(issued[k].loc)
              /\ BytesAt(issued[k].loc.file, issued[k].loc) = Image(issued[k].rec)
          BY <4>3 DEF IInv, IssuedBehindTheEnd, IssuedIntact
        <5>4. \A loc \in Location : BehindTheEnd(loc) =>
                  /\ BehindTheEnd(loc)'
                  /\ (loc.file \in DOMAIN disk)'
                  /\ BytesAt(loc.file, loc)' = BytesAt(loc.file, loc)
          BY <2>0, <2>1, WriteKeeps
        <5> QED
          BY <5>1, <5>2, <5>3, <5>4
      <4> QED
        BY <4>1, <4>2, <4>3
    <3>3. IssuedBehindTheEnd'
      BY <3>2 DEF IssuedBehindTheEnd
    <3>4. IssuedIntact'
      BY <3>2 DEF IssuedIntact, BehindTheEnd
    <3> QED
      BY <2>0, <3>1, <3>3, <3>4 DEF IInv
  <2>2. ASSUME NEW k \in DOMAIN issued, ReadValue(k) PROVE IInv'
    <3>1. UNCHANGED <<current_fileID, current_offset, disk, issued>>
      BY <2>2 DEF ReadValue
    <3> QED
      BY <2>0, <3>1 DEF IInv, IssuedBehindTheEnd, IssuedIntact, TailBlank, BehindTheEnd, BytesAt
  <2>3. CASE UNCHANGED vars
    BY <2>0, <2>3
       DEF vars, IInv, IssuedBehindTheEnd, IssuedIntact, TailBlank, BehindTheEnd, BytesAt
  <2> QED
    BY <2>1, <2>2, <2>3 DEF Next
<1> QED
  BY <1>1, <1>2, PTL DEF Spec

-----------------------------------------------------------------------------
(* What follows from the invariant. *)

\* Every location the store ever returned keeps the bytes of its record.
THEOREM LocationsStayIntact == Spec => []IssuedIntact
<1>1. IInv => IssuedIntact
  BY DEF IInv
<1> QED
  BY <1>1, Invariance, PTL

\* Issued locations lie inside a closed file or below the write offset.
THEOREM LocationsBehindTheEnd == Spec => []IssuedBehindTheEnd
<1>1. IInv => IssuedBehindTheEnd
  BY DEF IInv
<1> QED
  BY <1>1, Invariance, PTL

\* The data files are append-only: no step changes a byte written before.
THEOREM AppendOnly == Spec => NeverOverwritten
<1> DEFINE Kept == \A f \in DOMAIN disk : \A o \in DOMAIN disk[f] :
                      disk[f][o] # NUL => disk'[f][o] = disk[f][o]
<1>1. IInv /\ [Next]_vars => [Kept]_vars
  <2> SUFFICES ASSUME IInv, Next, NEW f \in DOMAIN disk, NEW o \in DOMAIN disk[f],
                      disk[f][o] # NUL
               PROVE  disk'[f][o] = disk[f][o]
    BY DEF vars
  <2>1. /\ f \in 0..current_fileID /\ o \in 0..(MaxFileSize - 1)
        /\ current_fileID \in Nat /\ current_offset \in Nat
        /\ TypeOK
    <3>1. TypeOK
      BY DEF IInv
    <3>2. f \in 0..current_fileID
      BY <3>1 DEF TypeOK
    <3>3. o \in 0..(MaxFileSize - 1)
      BY <3>1, <3>2 DEF TypeOK
    <3> QED
      BY <3>1, <3>2, <3>3, FileSizeAssumption DEF TypeOK
  <2>2. ASSUME NEW r \in Record, WriteValue(r) PROVE disk'[f][o] = disk[f][o]
    <3>1. f = current_fileID => o < current_offset
      BY <2>1, FileSizeAssumption DEF IInv, TailBlank
    <3> QED
      BY <2>1, <2>2, <3>1, BytesKept
  <2>3. ASSUME NEW k \in DOMAIN issued, ReadValue(k) PROVE disk'[f][o] = disk[f][o]
    BY <2>3 DEF ReadValue
  <2> QED
    BY <2>2, <2>3 DEF Next
<1> QED
  BY <1>1, Invariance, PTL DEF Spec, NeverOverwritten

\* The bytes of a record parse to the text of that record and of no other.
LEMMA ParseImage ==
    ASSUME NEW r \in Record
    PROVE  Parse(Image(r)) = TextOf[r]
<1>1. \A q \in Record : 0 \in 0..(SizeOf[q] - 1)
  BY SizeAssumption, FileSizeAssumption
<1>2. ASSUME NEW q \in Record, Image(r) = Image(q) PROVE q = r
  <2>1. Image(r)[0] = <<r, 0>> /\ Image(q)[0] = <<q, 0>>
    BY <1>1 DEF Image
  <2> QED
    BY <1>2, <2>1
<1> QED
  BY <1>2 DEF Parse

\* The store implements the append-only log of AppendLog.tla.
THEOREM Refinement == Spec => ImplementsAppendLog
<1> DEFINE log == [k \in DOMAIN issued |-> issued[k].rec]
<1>1. Init => Log!Init
  BY DEF Init, Log!Init
<1>2. IInv /\ [Next]_vars => [Log!Next]_(Log!vars)
  <2> SUFFICES ASSUME IInv, [Next]_vars PROVE [Log!Next]_(Log!vars)
    OBVIOUS
  <2>1. /\ TypeOK
        /\ issued \in Seq([loc : Location, rec : Record])
        /\ DOMAIN issued = 1..Len(issued) /\ Len(issued) \in Nat
    <3>1. issued \in Seq([loc : Location, rec : Record])
      BY DEF IInv, TypeOK, Location
    <3> QED
      BY <3>1 DEF IInv
  <2>2. /\ \A k \in 1..Len(issued) : issued[k].rec \in Record
        /\ DOMAIN log = 1..Len(issued)
        /\ log \in Seq(Record)
        /\ Len(log) = Len(issued)
    <3>1. \A k \in 1..Len(issued) : issued[k].rec \in Record
      BY <2>1, IssuedShape
    <3>2. log \in [1..Len(issued) -> Record]
      BY <2>1, <3>1
    <3> HIDE DEF log
    <3>3. log \in Seq(Record)
      BY <2>1, <3>2
    <3> QED
      BY <2>1, <3>1, <3>2, <3>3, LenProperties
  <2>3. ASSUME NEW r \in Record, WriteValue(r) PROVE Log!AppendRecord(r)
    <3>1. /\ issued' = Append(issued, [loc |-> LocationOf(r), rec |-> r])
          /\ Len(issued) < MaxRecords
          /\ reply' = NoReply
      BY <2>3 DEF WriteValue
    <3>2. /\ DOMAIN issued' = 1..(Len(issued) + 1)
          /\ \A k \in 1..Len(issued) : issued'[k] = issued[k]
          /\ issued'[Len(issued) + 1].rec = r
      BY <2>1, <3>1
    <3>3. /\ DOMAIN log' = 1..(Len(issued) + 1)
          /\ \A k \in 1..Len(issued) : log'[k] = log[k]
          /\ log'[Len(issued) + 1] = r
      BY <2>1, <3>2
    <3>4. log' = Append(log, r)
      <4>1. \A k \in 1..(Len(issued) + 1) : log'[k] \in Record
        BY <2>2, <3>2, <3>3
      <4>2. log' \in [1..(Len(issued) + 1) -> Record]
        BY <3>3, <4>1
      <4> HIDE DEF log
      <4>3. log' \in Seq(Record) /\ Len(log') = Len(issued) + 1
        BY <2>1, <3>3, <4>2, LenProperties
      <4>4. /\ Append(log, r) \in Seq(Record)
            /\ Len(Append(log, r)) = Len(issued) + 1
            /\ \A k \in 1..Len(issued) : Append(log, r)[k] = log[k]
            /\ Append(log, r)[Len(issued) + 1] = r
        BY <2>2, AppendProperties
      <4>5. \A k \in 1..Len(log') : log'[k] = Append(log, r)[k]
        BY <2>1, <3>3, <4>3, <4>4
      <4> QED
        BY <4>3, <4>4, <4>5, SeqEqual
    <3> QED
      BY <2>2, <3>1, <3>4 DEF Log!AppendRecord
  <2>4. ASSUME NEW k \in DOMAIN issued, ReadValue(k) PROVE Log!ReadRecord(k)
    <3>1. /\ UNCHANGED issued
          /\ reply' = [of |-> k, text |-> Parse(BytesAt(issued[k].loc.file, issued[k].loc))]
      BY <2>4 DEF ReadValue, MappedFor
    <3>2. BytesAt(issued[k].loc.file, issued[k].loc) = Image(issued[k].rec)
      BY DEF IInv, IssuedIntact
    <3>3. Parse(Image(issued[k].rec)) = TextOf[issued[k].rec]
      BY <2>1, <2>2, ParseImage
    <3> QED
      BY <3>1, <3>2, <3>3 DEF Log!ReadRecord
  <2>5. CASE UNCHANGED vars
    BY <2>5 DEF vars, Log!vars
  <2> QED
    BY <2>3, <2>4, <2>5 DEF Next, Log!Next
<1> QED
  BY <1>1, <1>2, Invariance, PTL DEF Spec, ImplementsAppendLog, Log!Spec
=============================================================================

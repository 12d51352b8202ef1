------------------------------ MODULE Multipart ------------------------------
(***************************************************************************)
(* upload_body_with_boundry of src/upload.rs: the parts of a multipart     *)
(* body that comes in fragments cut anywhere, and the files they end in.   *)
(* An action is one turn of the loop that a fragment is fed to; "fed" is   *)
(* where it returns.  A part's header lines are one symbol, the sanitized  *)
(* name of its file or Field; a file on disk is named by that base and the *)
(* counter that makes it unique.  A part's data end in a line break (else  *)
(* the slice of save_file_part panics); a failed write changes no file.    *)
(***************************************************************************)
EXTENDS Bytes, FiniteSetsExt

CONSTANTS
    Slack,       \* bytes kept unwritten beyond the boundary's length (10)
    DiskFaults   \* may writing a file fail?

VARIABLES
    upload,      \* the upload manager
    disk,        \* the upload directory: file name -> its content
    lost,        \* a write failed and what it would have written is gone
    pc           \* "upload" while the loop runs

vars == <<upload, disk, lost, pc>>

Boundary == <<"b">>
Delimiter == <<"-", "-">> \o Boundary    \* boundary_bytes
HeaderSep == CRLF \o CRLF
Field == "field"                         \* a part that names no file
NoFile == <<"", 0>>

NewUpload ==
    [state |-> "InProgress", multi_part_state |-> "Start", buffer |-> <<>>,
     current_pos |-> 0, data_start |-> 0, part |-> Field, current_file |-> NoFile,
     saved_filenames |-> <<>>]

At(state) == pc = "upload" /\ upload.multi_part_state = state
Fed == pc' = "fed" /\ UNCHANGED <<upload, disk, lost>>

-----------------------------------------------------------------------------
(* Start: the next delimiter, and whether another part follows it.  Until  *)
(* it is found only as much is kept as may be the beginning of it.         *)
Start == Find(upload.buffer, Delimiter, upload.current_pos)
PartStart == Start + Len(Delimiter) + 2

Arrived(n) == Len(upload.buffer) >= n

NextPart ==
    /\ At("Start") /\ Start # NotFound /\ Arrived(PartStart)
    /\ IF Slice(upload.buffer, PartStart - 2, PartStart) = <<"-", "-">>
       THEN upload' = [upload EXCEPT !.state = "Done"] /\ pc' = "fed"
       ELSE /\ upload' = [upload EXCEPT !.current_pos = PartStart,
                                        !.multi_part_state = "HeaderSep"]
            /\ UNCHANGED pc
    /\ UNCHANGED <<disk, lost>>

PartWait == At("Start") /\ Start # NotFound /\ ~Arrived(PartStart) /\ Fed

(* trim_buffer.                                                            *)
Kept == Len(Boundary) + 4
Trimmed ==
    IF Len(upload.buffer) > Kept
    THEN [upload EXCEPT !.buffer = Drain(@, Len(@) - Kept), !.current_pos = 0]
    ELSE upload

NoPart ==
    /\ At("Start") /\ Start = NotFound
    /\ upload' = Trimmed
    /\ pc' = "fed"
    /\ UNCHANGED <<disk, lost>>

(* HeaderSep: the header of a part, which ends in an empty line.           *)
HeaderEnd == Find(upload.buffer, HeaderSep, upload.current_pos)

Header ==
    LET data == HeaderEnd + 4 IN
    /\ At("HeaderSep") /\ HeaderEnd # NotFound
    /\ upload' = [upload EXCEPT !.part = upload.buffer[upload.current_pos + 1],
                                !.multi_part_state = "NextBoundary",
                                !.data_start = data, !.current_pos = data]
    /\ UNCHANGED <<disk, lost, pc>>

HeaderWait == At("HeaderSep") /\ HeaderEnd = NotFound /\ Fed

-----------------------------------------------------------------------------
(* NextBoundary: the data of a part.                                       *)
NextDelimiter == Find(upload.buffer, Delimiter, upload.data_start)

(* get_unique_path: a name no file has yet.                                *)
(* Mutant: an existing file is appended to.                                *)
UniqueName_Any(base) == <<base, 0>>
UniqueName(base) ==
    <<base, Min({k \in 0 .. Cardinality(DOMAIN disk) : <<base, k>> \notin DOMAIN disk})>>

Target(base) == IF upload.current_file = NoFile THEN UniqueName(base) ELSE upload.current_file

Appended(file, data) ==
    [f \in DOMAIN disk \cup {file} |->
        IF f # file THEN disk[f] ELSE (IF f \in DOMAIN disk THEN disk[f] ELSE <<>>) \o data]

(* save_file_part: a write that fails loses the part, silently.            *)
DataEnd ==
    IF NextDelimiter >= 2 /\ Slice(upload.buffer, NextDelimiter - 2, NextDelimiter) = CRLF THEN NextDelimiter - 2 ELSE NextDelimiter

(* Mutant: the offset of the part before is kept.                          *)
Cleaned_KeepsPos(u, n) ==
    [u EXCEPT !.buffer = Drain(@, n), !.current_file = NoFile, !.multi_part_state = "Start"]
Cleaned(u, n) ==
    [u EXCEPT !.buffer = Drain(@, n), !.current_pos = 0, !.current_file = NoFile,
              !.multi_part_state = "Start"]

FilePartEnd ==
    LET file == Target(upload.part) IN
    /\ At("NextBoundary") /\ NextDelimiter # NotFound /\ upload.part # Field
    /\ \/ /\ disk' = Appended(file, Slice(upload.buffer, upload.data_start, DataEnd))
          /\ upload' = Cleaned([upload EXCEPT !.saved_filenames = Append(@, file)], NextDelimiter)
          /\ UNCHANGED lost
       \/ /\ DiskFaults
          /\ upload' = Cleaned(upload, NextDelimiter) /\ lost' = TRUE
          /\ UNCHANGED disk
    /\ UNCHANGED pc

FieldEnd ==
    /\ At("NextBoundary") /\ NextDelimiter # NotFound /\ upload.part = Field
    /\ upload' = Cleaned(upload, NextDelimiter)
    /\ UNCHANGED <<disk, lost, pc>>

(* flush_partial_data: all but the tail is written, also that of a field,  *)
(* and a write that fails is ignored.                                      *)
(* Mutant: the tail may be shorter than a delimiter and its line break.    *)
SafetyMargin_Boundary == Len(Boundary)
SafetyMargin == Len(Boundary) + Slack
WriteEnd == Len(upload.buffer) - SafetyMargin

Flush ==
    LET file == Target(IF upload.part = Field THEN "tmp_upload" ELSE upload.part) IN
    /\ At("NextBoundary") /\ NextDelimiter = NotFound /\ WriteEnd > upload.data_start
    /\ \/ /\ disk' = Appended(file, Slice(upload.buffer, upload.data_start, WriteEnd))
          /\ UNCHANGED lost
       \/ DiskFaults /\ lost' = TRUE /\ UNCHANGED disk
    /\ upload' = [upload EXCEPT !.buffer = Drop(@, upload.data_start, WriteEnd),
                                !.current_pos = upload.data_start,
                                !.current_file = file]
    /\ pc' = "fed"

DataWait == At("NextBoundary") /\ NextDelimiter = NotFound /\ WriteEnd <= upload.data_start /\ Fed

Next ==
    \/ NextPart \/ PartWait \/ NoPart \/ Header \/ HeaderWait
    \/ FilePartEnd \/ FieldEnd \/ Flush \/ DataWait
=============================================================================

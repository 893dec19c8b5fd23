---------------------------- MODULE SealedBackup ----------------------------
(***************************************************************************)
(* An encrypted workspace backup: the file that writeWorkspaceBackup and   *)
(* its encryptedBackupWriter leave behind, whatever fails while it is      *)
(* written, and what a restore makes of that file through                  *)
(* encryptedBackupReader, whatever has happened to it since.               *)
(*                                                                         *)
(* The plaintext is the tar.gz stream, of which only the positions of its  *)
(* units count.  Sealing is ideal: a record opens under the archive's own  *)
(* password and the nonce it was sealed with, unchanged, or not at all.    *)
(***************************************************************************)
EXTENDS Naturals, Sequences

CONSTANTS
  Size,        \* units of the tar.gz stream
  TarEnd,      \* the unit with which the tar end marker is complete
  Chunk,       \* units in a full record (encryptedBackupChunkSize)
  MaxDamage    \* how often the file is damaged

ASSUME SizesType ==
  /\ Size \in Nat /\ TarEnd \in 1..Size
  /\ Chunk \in Nat \ {0}
  /\ MaxDamage \in Nat

VARIABLES
  writer,      \* the backup command
  file,        \* the archive: a sequence of pieces
  sealed,      \* every record ever sealed under the key of the archive
  damages,     \* how often the file has been damaged
  reader       \* the restore command

vars == <<writer, file, sealed, damages, reader>>

-----------------------------------------------------------------------------
(* The archive. *)

\* Units from..to of the stream, sealed under a nonce.  The final record is empty.
Record == [type : {"data", "final"}, nonce : Nat, from : Nat, to : Nat]

\* Magic, salt, nonce prefix and parameters come first, and then the records.  A
\* write that fails, or a damage, leaves bytes that are no record.
Prologue == [type |-> "prologue", nonce |-> 0, from |-> 0, to |-> 0]
Debris   == [type |-> "debris", nonce |-> 0, from |-> 0, to |-> 0]
Piece    == Record \cup {Prologue, Debris}

\* What a write that fails can leave in the file: nothing, or a part.
Partly == {file, Append(file, Debris)}

-----------------------------------------------------------------------------
(* The writer. *)

\* sent counts the units that Write has taken, buffered those it has not flushed;
\* sound says that no error has come up yet.
Writer ==
  [pc : {"prologue", "writing", "closing", "reported", "failed"},
   sent : 0..Size, buffered : 0..Chunk, counter : Nat, sound : BOOLEAN]

Becomes(pc) == writer' = [writer EXCEPT !.pc = pc]

NewWriter ==
  /\ writer.pc = "prologue"
  /\ file' = <<Prologue>>
  /\ Becomes("writing")
  /\ UNCHANGED <<sealed, damages, reader>>

\* Fault: Write takes whatever it is given.
FillWithoutRoom ==
  /\ writer.pc = "writing"
  /\ writer.sent < Size
  /\ writer' = [writer EXCEPT !.sent = @ + 1, !.buffered = @ + 1]
  /\ UNCHANGED <<file, sealed, damages, reader>>

\* Write takes what the buffer has room for.
Fill ==
  /\ writer.pc = "writing"
  /\ writer.sent < Size
  /\ writer.buffered < Chunk
  /\ writer' = [writer EXCEPT !.sent = @ + 1, !.buffered = @ + 1]
  /\ UNCHANGED <<file, sealed, damages, reader>>

\* The record that flush seals next: what is buffered, or nothing for the final one.
Sealing(type) ==
  [type |-> type, nonce |-> writer.counter,
   from |-> writer.sent - writer.buffered + 1, to |-> writer.sent]

\* Fault: the record is not counted.
FlushUncounted(type, pc) ==
  /\ sealed' = sealed \cup {Sealing(type)}
  /\ file' = Append(file, Sealing(type))
  /\ writer' = [writer EXCEPT !.pc = pc, !.buffered = 0]
  /\ UNCHANGED <<damages, reader>>

\* flush writes the record and then counts it.
Flush(type, pc) ==
  /\ sealed' = sealed \cup {Sealing(type)}
  /\ file' = Append(file, Sealing(type))
  /\ writer' = [writer EXCEPT !.pc = pc, !.buffered = 0, !.counter = @ + 1]
  /\ UNCHANGED <<damages, reader>>

\* The record is sealed, but writing it fails: neither the buffer nor the counter
\* has changed.
FlushFails(type, pc) ==
  /\ sealed' = sealed \cup {Sealing(type)}
  /\ file' \in Partly
  /\ writer' = [writer EXCEPT !.pc = pc, !.sound = FALSE]
  /\ UNCHANGED <<damages, reader>>

FlushChunk ==
  /\ writer.pc = "writing"
  /\ writer.buffered = Chunk
  /\ Flush("data", "writing") \/ FlushFails("data", "closing")

\* writeTarGzip ends: with the stream, or with a file of the workspace that cannot
\* be read.  Close is called in either case.
StreamEnds ==
  /\ writer.pc = "writing"
  /\ writer.buffered < Chunk
  /\ \/ writer.sent = Size /\ Becomes("closing")
     \/ writer' = [writer EXCEPT !.pc = "closing", !.sound = FALSE]
  /\ UNCHANGED <<file, sealed, damages, reader>>

\* Close flushes what is left.  After a failed flush that is the record which
\* failed, under the same nonce.
CloseTail ==
  /\ writer.pc = "closing"
  /\ writer.buffered > 0
  /\ Flush("data", "closing") \/ FlushFails("data", "failed")

\* Fault: Close writes the final record at once.
CloseWithoutTail ==
  /\ writer.pc = "closing"
  /\ \/ writer.sound /\ Flush("final", "reported")
     \/ Flush("final", "failed")
     \/ FlushFails("final", "failed")

\* The final record is written even if the stream is not complete; what is reported
\* is then the error of writeTarGzip.  Closing the file itself may fail as well.
CloseFinal ==
  /\ writer.pc = "closing"
  /\ writer.buffered = 0
  /\ \/ writer.sound /\ Flush("final", "reported")
     \/ Flush("final", "failed")
     \/ FlushFails("final", "failed")

\* The file cannot be created, or the command is interrupted, at any point.
Crash ==
  /\ writer.pc \in {"prologue", "writing", "closing"}
  /\ file' \in Partly
  /\ writer' = [writer EXCEPT !.pc = "failed", !.sound = FALSE]
  /\ UNCHANGED <<sealed, damages, reader>>

-----------------------------------------------------------------------------
(* The file lies on a disk, is copied, and is put together again. *)

\* Some pieces are lost, repeated or spoilt; i and j are where it happens.
Spoilt(i)    == [file EXCEPT ![i] = Debris]
Spliced(i,j) == SubSeq(file, 1, i) \o SubSeq(file, j, Len(file))

Damage ==
  /\ damages < MaxDamage
  /\ writer.pc \in {"reported", "failed"}
  /\ \/ \E i \in 1..Len(file) : file' = Spoilt(i)
     \/ \E i \in 0..Len(file), j \in 1..Len(file) + 1 : file' = Spliced(i, j)
  /\ damages' = damages + 1
  /\ reader' = [reader EXCEPT !.intact = FALSE]
  /\ UNCHANGED <<writer, sealed>>

-----------------------------------------------------------------------------
(* The reader. *)

\* at is the piece it reads next, counter its nonce; upto is the last unit that
\* went to the tar reader, and gap whether a unit was left out or repeated.  intact
\* and password say what the reader cannot know: that it reads a whole backup, with
\* the right password.
Reader ==
  [pc : {"idle", "reading", "restored", "refused"},
   password : BOOLEAN, intact : BOOLEAN,
   at : Nat \ {0}, counter : Nat, upto : Nat, gap : BOOLEAN]

NoReader ==
  [pc |-> "idle", password |-> FALSE, intact |-> FALSE,
   at |-> 1, counter |-> 0, upto |-> 0, gap |-> FALSE]

\* A restore begins, even while the backup is being written.  The prologue is read,
\* or is not there.
HasPrologue == Len(file) > 0 /\ file[1] = Prologue

NewReader ==
  /\ reader.pc # "reading"
  /\ \E password \in BOOLEAN :
       reader' = [NoReader EXCEPT
         !.pc = IF HasPrologue THEN "reading" ELSE "refused",
         !.at = 2, !.password = password,
         !.intact = writer.pc = "reported" /\ damages = 0]
  /\ UNCHANGED <<writer, file, sealed, damages>>

\* Fault: the nonce is taken from the record and not counted.
OpensAnywhere ==
  /\ reader.at <= Len(file)
  /\ file[reader.at] \in Record
  /\ reader.password

\* The next record is there, and opens.
Opens ==
  /\ reader.at <= Len(file)
  /\ file[reader.at] \in Record
  /\ file[reader.at].nonce = reader.counter
  /\ reader.password

\* A data record.  The tar reader stops at the end marker and leaves the rest of the
\* file unread.
ReadRecord ==
  /\ reader.pc = "reading"
  /\ Opens
  /\ file[reader.at].type = "data"
  /\ reader' = [reader EXCEPT
       !.pc = IF file[reader.at].to >= TarEnd THEN "restored" ELSE "reading",
       !.at = @ + 1, !.counter = @ + 1,
       !.upto = file[reader.at].to,
       !.gap = @ \/ file[reader.at].from # reader.upto + 1]
  /\ UNCHANGED <<writer, file, sealed, damages>>

\* The file ends, the next record does not open, or it is the final one: gzip then
\* finds that its stream stops too early.
Refuse ==
  /\ reader.pc = "reading"
  /\ Opens => file[reader.at].type = "final"
  /\ reader' = [reader EXCEPT !.pc = "refused"]
  /\ UNCHANGED <<writer, file, sealed, damages>>

-----------------------------------------------------------------------------

Init ==
  /\ writer = [pc |-> "prologue", sent |-> 0, buffered |-> 0, counter |-> 0, sound |-> TRUE]
  /\ file = << >>
  /\ sealed = {}
  /\ damages = 0
  /\ reader = NoReader

WriterStep == NewWriter \/ Fill \/ FlushChunk \/ StreamEnds \/ CloseTail \/ CloseFinal \/ Crash
ReaderStep == NewReader \/ ReadRecord \/ Refuse

Next == WriterStep \/ Damage \/ ReaderStep

Spec == Init /\ [][Next]_vars

-----------------------------------------------------------------------------
(* What an encrypted backup promises. *)

\* Every variable holds a value of its kind.
TypeOK ==
  /\ writer \in Writer
  /\ file \in Seq(Piece)
  /\ sealed \subseteq Record
  /\ damages \in 0..MaxDamage
  /\ reader \in Reader

\* "giving every AES-GCM record a unique nonce for the derived key" (store.go:711): a
\* nonce seals one plaintext as one type of record, even if writing the record fails
\* and Close seals it again.
NonceUsedOnce == \A r, s \in sealed : r.nonce = s.nonce => r = s

\* What is restored is the stream from its beginning to the end of the tar archive,
\* with nothing left out, repeated or moved, whatever failed while the backup was
\* made and whatever happened to the file.
RestoredIsWhole ==
  reader.pc = "restored" => ~reader.gap /\ reader.upto >= TarEnd

\* A backup that was reported as made, and not damaged since, is not refused.
ReportedRestores ==
  reader.pc = "refused" => ~(reader.intact /\ reader.password)

=============================================================================

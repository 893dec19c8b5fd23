------------------------- MODULE SealedBackupProofs -------------------------
(***************************************************************************)
(* Proofs about SealedBackup, for streams, records and damages of any      *)
(* number and size: a nonce seals one record, what is restored is whole,   *)
(* and a reported backup that is not damaged is not refused.               *)
(***************************************************************************)
EXTENDS SealedBackup, SequenceTheorems, TLAPS

-----------------------------------------------------------------------------
(* What can be in the file. *)

\* Pieces that a damage puts together were in the file before, or are debris.
LEMMA DamagedPieces ==
  ASSUME file \in Seq(Piece),
         \/ \E i \in 1..Len(file) : file' = Spoilt(i)
         \/ \E i \in 0..Len(file), j \in 1..Len(file) + 1 : file' = Spliced(i, j)
  PROVE  /\ file' \in Seq(Piece)
         /\ \A k \in 1..Len(file') :
              file'[k] = Debris \/ \E l \in 1..Len(file) : file'[k] = file[l]
<1>1. Debris \in Piece
  BY DEF Piece
<1>2. ASSUME NEW i \in 1..Len(file), file' = Spoilt(i)
      PROVE  /\ file' \in Seq(Piece)
             /\ \A k \in 1..Len(file') :
                  file'[k] = Debris \/ \E l \in 1..Len(file) : file'[k] = file[l]
  BY <1>1, <1>2, ExceptSeq DEF Spoilt
<1>3. ASSUME NEW i \in 0..Len(file), NEW j \in 1..Len(file) + 1, file' = Spliced(i, j)
      PROVE  /\ file' \in Seq(Piece)
             /\ \A k \in 1..Len(file') : \E l \in 1..Len(file) : file'[k] = file[l]
  <2> DEFINE head == SubSeq(file, 1, i)
             tail == SubSeq(file, j, Len(file))
  <2>1. Len(file) \in Nat /\ \A k \in 1..Len(file) : file[k] \in Piece
    BY ElementOfSeq, LenProperties
  <2>2. /\ head \in Seq(Piece)
        /\ Len(head) = i
        /\ \A k \in 1..i : head[k] = file[k]
    <3>1. \A k \in 1..i : file[k] \in Piece
      BY <2>1
    <3>. QED
      BY <3>1, SubSeqProperties
  <2>3. /\ tail \in Seq(Piece)
        /\ Len(tail) = Len(file) - j + 1
        /\ \A k \in 1..Len(tail) : tail[k] = file[j + k - 1]
    <3>1. \A k \in j..Len(file) : file[k] \in Piece
      BY <2>1
    <3>2. /\ SubSeq(file, j, Len(file)) \in Seq(Piece)
          /\ Len(SubSeq(file, j, Len(file))) = IF j <= Len(file) THEN Len(file) - j + 1 ELSE 0
          /\ \A k \in 1..Len(file) - j + 1 : SubSeq(file, j, Len(file))[k] = file[j + k - 1]
      BY <3>1, <2>1, SubSeqProperties
    <3>. QED
      BY <3>2, <2>1
  <2>. HIDE DEF head, tail
  <2>4. /\ head \o tail \in Seq(Piece)
        /\ Len(head \o tail) = Len(head) + Len(tail)
        /\ \A k \in 1..Len(head) + Len(tail) :
             (head \o tail)[k] = IF k <= Len(head) THEN head[k] ELSE tail[k - Len(head)]
    BY <2>2, <2>3, ConcatProperties
  <2>5. file' = head \o tail
    BY <1>3 DEF Spliced, head, tail
  <2>6. ASSUME NEW k \in 1..Len(file')
        PROVE  \E l \in 1..Len(file) : file'[k] = file[l]
    <3>1. CASE k <= i
      BY <3>1, <2>1, <2>2, <2>3, <2>4, <2>5
    <3>2. CASE k > i
      <4>1. file'[k] = file[j + (k - i) - 1] /\ j + (k - i) - 1 \in 1..Len(file)
        BY <3>2, <2>1, <2>2, <2>3, <2>4, <2>5
      <4>. QED
        BY <4>1
    <3>. QED
      BY <3>1, <3>2, <2>1
  <2>. QED
    BY <2>4, <2>5, <2>6
<1>. QED
  BY <1>2, <1>3

\* A write appends a piece.
LEMMA AppendedPieces ==
  ASSUME file \in Seq(Piece), NEW piece \in Piece
  PROVE  /\ Append(file, piece) \in Seq(Piece)
         /\ Len(Append(file, piece)) = Len(file) + 1
         /\ \A k \in 1..Len(file) : Append(file, piece)[k] = file[k]
         /\ Append(file, piece)[Len(file) + 1] = piece
BY AppendProperties

\* A write that fails leaves what was there, and at most debris after it.
LEMMA PartlyWritten ==
  ASSUME file \in Seq(Piece), file' \in Partly
  PROVE  /\ file' \in Seq(Piece)
         /\ \A k \in 1..Len(file') :
              file'[k] = Debris \/ (k \in 1..Len(file) /\ file'[k] = file[k])
<1>1. Debris \in Piece
  BY DEF Piece
<1>2. Len(file) \in Nat
  BY LenProperties
<1>3. CASE file' = file
  BY <1>3
<1>4. CASE file' = Append(file, Debris)
  <2>1. /\ file' \in Seq(Piece)
        /\ Len(file') = Len(file) + 1
        /\ \A k \in 1..Len(file) : file'[k] = file[k]
        /\ file'[Len(file) + 1] = Debris
    BY <1>1, <1>4, AppendedPieces
  <2>. QED
    BY <2>1, <1>2
<1>. QED
  BY <1>3, <1>4 DEF Partly

-----------------------------------------------------------------------------
(* Type correctness. *)

\* No more is buffered than Write has taken.
Buffered == writer.buffered <= writer.sent

IType == TypeOK /\ Buffered

\* What flush seals is a record: the buffer is a stretch of the stream.
LEMMA SealingType ==
  ASSUME IType, NEW type \in {"data", "final"}
  PROVE  Sealing(type) \in Record
BY SizesType DEF IType, TypeOK, Buffered, Writer, Sealing, Record

\* A flush, whether it succeeds or fails, keeps the types.
LEMMA FlushTyped ==
  ASSUME IType, NEW type \in {"data", "final"},
         NEW pc \in {"writing", "closing", "reported", "failed"},
         Flush(type, pc) \/ FlushFails(type, pc)
  PROVE  IType'
<1>1. Sealing(type) \in Record /\ Sealing(type) \in Piece
  BY SealingType DEF Piece
<1>2. file' \in Seq(Piece)
  <2>1. CASE Flush(type, pc)
    BY <2>1, <1>1, AppendedPieces DEF Flush, IType, TypeOK
  <2>2. CASE FlushFails(type, pc)
    BY <2>2, PartlyWritten DEF FlushFails, IType, TypeOK
  <2>. QED
    BY <2>1, <2>2
<1>3. writer' \in Writer /\ Buffered'
  <2>1. 0 \in 0..Chunk /\ writer.counter + 1 \in Nat
    BY SizesType DEF IType, TypeOK, Writer
  <2>2. CASE Flush(type, pc)
    <3>1. writer' \in Writer
      BY <2>1, <2>2 DEF IType, TypeOK, Writer, Flush
    <3>2. writer'.buffered = 0 /\ writer'.sent = writer.sent /\ writer.sent \in Nat
      BY <2>2, SizesType DEF IType, TypeOK, Writer, Flush
    <3>. QED
      BY <3>1, <3>2 DEF Buffered
  <2>3. CASE FlushFails(type, pc)
    BY <2>3 DEF IType, TypeOK, Buffered, Writer, FlushFails
  <2>. QED
    BY <2>2, <2>3
<1>. QED
  BY <1>1, <1>2, <1>3 DEF Flush, FlushFails, IType, TypeOK

\* A restore begins, and goes on, with values of the reader's types.
LEMMA ReaderTyped ==
  ASSUME IType, NewReader \/ ReadRecord
  PROVE  reader' \in Reader
<1>1. CASE NewReader
  <2>1. PICK password \in BOOLEAN :
          reader' = [NoReader EXCEPT
            !.pc = IF HasPrologue THEN "reading" ELSE "refused",
            !.at = 2, !.password = password,
            !.intact = writer.pc = "reported" /\ damages = 0]
    BY <1>1 DEF NewReader
  <2> DEFINE intact == writer.pc = "reported" /\ damages = 0
             pc == IF HasPrologue THEN "reading" ELSE "refused"
  <2>2. intact \in BOOLEAN /\ pc \in {"reading", "refused"} /\ 2 \in Nat \ {0}
    OBVIOUS
  <2>3. reader' = [NoReader EXCEPT
          !.pc = pc, !.at = 2, !.password = password, !.intact = intact]
    BY <2>1
  <2>. HIDE DEF intact, pc
  <2>4. \A r \in Reader :
          [r EXCEPT !.pc = pc, !.at = 2, !.password = password, !.intact = intact] \in Reader
    BY <2>2 DEF Reader
  <2>5. NoReader \in Reader
    BY DEF NoReader, Reader
  <2>. QED
    BY <2>3, <2>4, <2>5
<1>2. CASE ReadRecord
  <2> DEFINE gap == reader.gap \/ file[reader.at].from # reader.upto + 1
             pc == IF file[reader.at].to >= TarEnd THEN "restored" ELSE "reading"
  <2>1. gap \in BOOLEAN /\ pc \in {"restored", "reading"}
    OBVIOUS
  <2>2. reader.at + 1 \in Nat \ {0} /\ reader.counter + 1 \in Nat
    BY DEF IType, TypeOK, Reader
  <2>3. file[reader.at].to \in Nat
    BY <1>2 DEF ReadRecord, Opens, Record
  <2>4. reader' = [reader EXCEPT
          !.pc = pc, !.at = @ + 1, !.counter = @ + 1,
          !.upto = file[reader.at].to, !.gap = gap]
    BY <1>2 DEF ReadRecord
  <2>. HIDE DEF gap, pc
  <2>. QED
    BY <2>1, <2>2, <2>3, <2>4 DEF IType, TypeOK, Reader
<1>. QED
  BY <1>1, <1>2

\* A backup begins well typed.
LEMMA InitType == Init => IType
BY SizesType, EmptySeq DEF Init, IType, TypeOK, Buffered, Writer, Reader, NoReader

\* The inductive step of type correctness, action by action.
LEMMA NextType == IType /\ [Next]_vars => IType'
<1> SUFFICES ASSUME IType, [Next]_vars PROVE IType'
  OBVIOUS
<1> USE SizesType DEF IType, TypeOK
<1>1. CASE NewWriter
  <2>1. file' \in Seq(Piece)
    BY <1>1 DEF NewWriter, Piece
  <2>. QED
    BY <1>1, <2>1 DEF NewWriter, Becomes, Buffered, Writer
<1>2. CASE Fill
  <2>1. writer.sent + 1 \in 0..Size /\ writer.buffered + 1 \in 0..Chunk
    BY <1>2 DEF Fill, Writer
  <2>2. writer' \in Writer
    BY <1>2, <2>1 DEF Fill, Writer
  <2>3. Buffered'
    BY <1>2 DEF Fill, Buffered, Writer
  <2>. QED
    BY <1>2, <2>2, <2>3 DEF Fill
<1>3. CASE FlushChunk
  BY <1>3, FlushTyped DEF FlushChunk
<1>4. CASE StreamEnds
  BY <1>4 DEF StreamEnds, Becomes, Buffered, Writer
<1>5. CASE CloseTail
  BY <1>5, FlushTyped DEF CloseTail
<1>6. CASE CloseFinal
  BY <1>6, FlushTyped DEF CloseFinal
<1>7. CASE Crash
  <2>1. file' \in Seq(Piece)
    BY <1>7, PartlyWritten DEF Crash
  <2>. QED
    BY <1>7, <2>1 DEF Crash, Buffered, Writer
<1>8. CASE Damage
  <2>1. file' \in Seq(Piece)
    BY <1>8, DamagedPieces DEF Damage
  <2>2. reader' \in Reader
    BY <1>8 DEF Damage, Reader
  <2>. QED
    BY <1>8, <2>1, <2>2 DEF Damage, Buffered
<1>9. CASE NewReader
  BY <1>9, ReaderTyped DEF NewReader, Buffered
<1>10. CASE ReadRecord
  BY <1>10, ReaderTyped DEF ReadRecord, Buffered
<1>11. CASE Refuse
  BY <1>11 DEF Refuse, Buffered, Reader
<1>12. CASE UNCHANGED vars
  BY <1>12 DEF vars, Buffered
<1>. QED
  BY <1>1, <1>2, <1>3, <1>4, <1>5, <1>6, <1>7, <1>8, <1>9, <1>10, <1>11, <1>12
     DEF Next, WriterStep, ReaderStep

\* The backup, the file and the restore keep to their types, whatever the sizes.
THEOREM TypeCorrect == Spec => []TypeOK
<1>1. IType => TypeOK
  BY DEF IType
<1>. QED
  BY InitType, NextType, <1>1, PTL DEF Spec
-----------------------------------------------------------------------------
(* What has been sealed. *)

\* Sealed records lie end to end in the order of their nonces: the first one starts
\* the stream, and each starts where the one before it ends.
EndToEnd ==
  /\ \A r \in sealed : r.nonce = 0 => r.from = 1
  /\ \A r, s \in sealed : r.nonce = s.nonce + 1 => r.from = s.to + 1

\* No record is ahead of the counter.  One at the counter was sealed by a flush that
\* failed, and is what Close will seal again; the one before ends where the buffer
\* begins.
Counted ==
  /\ \A r \in sealed : r.nonce <= writer.counter
  /\ \A r \in sealed : r.nonce = writer.counter =>
       \/ writer.pc = "failed"
       \/ writer.pc = "closing" /\ writer.buffered > 0 /\ r = Sealing("data")
  /\ \A r \in sealed : r.nonce + 1 = writer.counter => r.to = writer.sent - writer.buffered
  /\ writer.counter = 0 => writer.sent = writer.buffered

ISealed == IType /\ NonceUsedOnce /\ EndToEnd /\ Counted

\* Sealing what is buffered, for the first time or again.
LEMMA SealingKeeps ==
  ASSUME ISealed, NEW type \in {"data", "final"},
         type = "final" => writer.buffered = 0,
         writer.pc \in {"writing", "closing"},
         sealed' = sealed \cup {Sealing(type)}
  PROVE  /\ NonceUsedOnce' /\ EndToEnd'
         /\ \A r \in sealed' : r.nonce <= writer.counter
         /\ \A r \in sealed' : r.nonce = writer.counter => r = Sealing(type)
         /\ \A r \in sealed' : r.nonce + 1 = writer.counter =>
              r.to = writer.sent - writer.buffered
<1> DEFINE new == Sealing(type)
<1>1. /\ new \in Record
      /\ new.nonce = writer.counter
      /\ new.from = writer.sent - writer.buffered + 1
      /\ new.to = writer.sent
  BY SealingType DEF Sealing, ISealed
<1>2. \A r \in sealed : r \in Record /\ r.nonce \in Nat
  BY DEF ISealed, IType, TypeOK, Record
<1>3. writer.counter \in Nat /\ writer.sent \in Nat /\ writer.buffered \in Nat
  BY SizesType DEF ISealed, IType, TypeOK, Writer
<1>4. \A r \in sealed : r.nonce = writer.counter => r = new
  <2>. SUFFICES ASSUME NEW r \in sealed, r.nonce = writer.counter
                PROVE  r = new
    OBVIOUS
  <2>1. writer.buffered > 0 /\ r = Sealing("data")
    BY DEF ISealed, Counted
  <2>2. type = "data"
    BY <2>1, <1>3
  <2>. QED
    BY <2>1, <2>2
<1>5. sealed' = sealed \cup {new}
  OBVIOUS
<1>. HIDE DEF new
<1>6. NonceUsedOnce'
  BY <1>1, <1>4, <1>5 DEF ISealed, NonceUsedOnce
<1>7. EndToEnd'
  <2>1. \A r \in sealed' : r.nonce = 0 => r.from = 1
    BY <1>1, <1>3, <1>5 DEF ISealed, EndToEnd, Counted
  <2>2. ASSUME NEW r \in sealed', NEW s \in sealed', r.nonce = s.nonce + 1
        PROVE  r.from = s.to + 1
    <3>1. r.nonce <= writer.counter /\ s.nonce <= writer.counter
      BY <1>1, <1>3, <1>5 DEF ISealed, Counted
    <3>2. s \in sealed /\ s.nonce # writer.counter
      BY <2>2, <3>1, <1>1, <1>2, <1>3, <1>5
    <3>3. CASE r \in sealed
      BY <2>2, <3>2, <3>3 DEF ISealed, EndToEnd
    <3>4. CASE r = new
      BY <2>2, <3>2, <3>4, <1>1, <1>2, <1>3 DEF ISealed, Counted
    <3>. QED
      BY <3>3, <3>4, <1>5
  <2>. QED
    BY <2>1, <2>2 DEF EndToEnd
<1>8. \A r \in sealed' : r.nonce <= writer.counter
  BY <1>1, <1>3, <1>5 DEF ISealed, Counted
<1>9. \A r \in sealed' : r.nonce + 1 = writer.counter => r.to = writer.sent - writer.buffered
  BY <1>1, <1>3, <1>5 DEF ISealed, Counted
<1>10. \A r \in sealed' : r.nonce = writer.counter => r = new
  BY <1>4, <1>5
<1>. QED
  BY <1>6, <1>7, <1>8, <1>9, <1>10 DEF new

\* A flush that succeeds counts its record, and no sealed record is at the counter.
LEMMA FlushKeeps ==
  ASSUME ISealed, NEW type \in {"data", "final"},
         type = "final" => writer.buffered = 0,
         writer.pc \in {"writing", "closing"},
         NEW pc \in {"writing", "closing", "reported", "failed"},
         Flush(type, pc)
  PROVE  NonceUsedOnce' /\ EndToEnd' /\ Counted'
<1>1. /\ NonceUsedOnce' /\ EndToEnd'
      /\ \A r \in sealed' : r.nonce <= writer.counter
      /\ \A r \in sealed' : r.nonce = writer.counter => r = Sealing(type)
  BY SealingKeeps DEF Flush
<1>2. /\ writer'.counter = writer.counter + 1
      /\ writer'.sent = writer.sent
      /\ writer'.buffered = 0
      /\ writer.counter \in Nat /\ writer.sent \in Nat
  BY SizesType DEF Flush, ISealed, IType, TypeOK, Writer
<1>3. \A r \in sealed' : r.nonce \in Nat
  BY SealingType DEF Flush, ISealed, IType, TypeOK, Record
<1>4. Sealing(type).to = writer.sent
  BY DEF Sealing
<1>5. Counted'
  <2>1. \A r \in sealed' : r.nonce < writer'.counter
    BY <1>1, <1>2, <1>3
  <2>2. \A r \in sealed' : r.nonce + 1 = writer'.counter =>
          r.to = writer'.sent - writer'.buffered
    BY <1>1, <1>2, <1>3, <1>4
  <2>. QED
    BY <2>1, <2>2, <1>2, <1>3 DEF Counted
<1>. QED
  BY <1>1, <1>5

\* After a flush that fails, the record at the counter is what Close seals again.
LEMMA FlushFailsKeeps ==
  ASSUME ISealed, NEW type \in {"data", "final"},
         type = "final" => writer.buffered = 0,
         writer.pc \in {"writing", "closing"},
         NEW pc \in {"closing", "failed"},
         pc = "closing" => type = "data" /\ writer.buffered > 0,
         FlushFails(type, pc)
  PROVE  NonceUsedOnce' /\ EndToEnd' /\ Counted'
<1>1. /\ NonceUsedOnce' /\ EndToEnd'
      /\ \A r \in sealed' : r.nonce <= writer.counter
      /\ \A r \in sealed' : r.nonce = writer.counter => r = Sealing(type)
      /\ \A r \in sealed' : r.nonce + 1 = writer.counter =>
           r.to = writer.sent - writer.buffered
  BY SealingKeeps DEF FlushFails
<1>2. /\ writer'.counter = writer.counter
      /\ writer'.sent = writer.sent
      /\ writer'.buffered = writer.buffered
      /\ writer'.pc = pc
  BY DEF FlushFails, ISealed, IType, TypeOK, Writer
<1>3. Sealing(type)' = Sealing(type)
  BY <1>2 DEF Sealing
<1>4. pc = "closing" => Sealing("data")' = Sealing(type)
  BY <1>3
<1>. QED
  BY <1>1, <1>2, <1>4 DEF Counted, ISealed

\* Every step keeps what is sealed end to end and under nonces of its own.
LEMMA NextSealed == ISealed /\ [Next]_vars => ISealed'
<1> SUFFICES ASSUME ISealed, [Next]_vars PROVE ISealed'
  OBVIOUS
<1>1. IType'
  BY NextType DEF ISealed
<1>2. writer.buffered \in Nat /\ writer.sent \in Nat /\ Chunk \in Nat \ {0}
  BY SizesType DEF ISealed, IType, TypeOK, Writer
<1>3. CASE /\ UNCHANGED sealed
           /\ writer'.counter = writer.counter
           /\ writer'.sent - writer'.buffered = writer.sent - writer.buffered
           /\ writer'.sent = writer'.buffered <=> writer.sent = writer.buffered
           /\ \/ writer'.pc = "failed"
              \/ writer.pc \in {"prologue", "writing"}
              \/ UNCHANGED writer
  <2>1. NonceUsedOnce' /\ EndToEnd'
    BY <1>3 DEF ISealed, NonceUsedOnce, EndToEnd
  <2>2. Counted'
    BY <1>3 DEF ISealed, Counted, Sealing
  <2>. QED
    BY <1>1, <2>1, <2>2 DEF ISealed
<1>4. CASE FlushChunk
  <2>1. writer.buffered > 0 /\ writer.pc = "writing"
    BY <1>2, <1>4 DEF FlushChunk
  <2>. QED
    BY <1>1, <1>4, <2>1, FlushKeeps, FlushFailsKeeps DEF FlushChunk, ISealed
<1>5. CASE CloseTail
  BY <1>1, <1>5, FlushKeeps, FlushFailsKeeps DEF CloseTail, ISealed
<1>6. CASE CloseFinal
  BY <1>1, <1>6, FlushKeeps, FlushFailsKeeps DEF CloseFinal, ISealed
<1>7. CASE Fill
  <2>1. /\ writer'.sent = writer.sent + 1
        /\ writer'.buffered = writer.buffered + 1
        /\ writer'.counter = writer.counter
        /\ writer.pc = "writing"
    BY <1>7 DEF Fill, ISealed, IType, TypeOK, Writer
  <2>2. /\ writer'.sent - writer'.buffered = writer.sent - writer.buffered
        /\ writer'.sent = writer'.buffered <=> writer.sent = writer.buffered
    BY <1>2, <2>1
  <2>. QED
    BY <1>3, <1>7, <2>1, <2>2 DEF Fill
<1>8. CASE NewWriter \/ StreamEnds \/ Crash
  <2>1. /\ writer'.sent = writer.sent
        /\ writer'.buffered = writer.buffered
        /\ writer'.counter = writer.counter
        /\ UNCHANGED sealed
        /\ writer'.pc = "failed" \/ writer.pc \in {"prologue", "writing"}
    BY <1>8 DEF NewWriter, StreamEnds, Crash, Becomes, ISealed, IType, TypeOK, Writer
  <2>. QED
    BY <1>3, <2>1
<1>9. CASE Damage \/ NewReader \/ ReadRecord \/ Refuse \/ UNCHANGED vars
  BY <1>3, <1>9 DEF Damage, NewReader, ReadRecord, Refuse, vars
<1>. QED
  BY <1>4, <1>5, <1>6, <1>7, <1>8, <1>9 DEF Next, WriterStep, ReaderStep

\* Nothing is sealed at first.
LEMMA InitSealed == Init => ISealed
BY InitType DEF Init, ISealed, NonceUsedOnce, EndToEnd, Counted

\* What is sealed, and under which nonces, at all times.
THEOREM SealedCorrect == Spec => []ISealed
BY InitSealed, NextSealed, PTL DEF Spec

\* A nonce seals one record, however often writing it fails.
THEOREM NoncesCorrect == Spec => []NonceUsedOnce
<1>1. ISealed => NonceUsedOnce
  BY DEF ISealed
<1>. QED
  BY SealedCorrect, <1>1, PTL

-----------------------------------------------------------------------------
(* What a restore receives. *)

\* Whatever has happened to the file, a record in it is one that was sealed.
FromSealed == \A k \in 1..Len(file) : file[k] \in Record => file[k] \in sealed

\* A restore has had the records with the nonces before its counter, and the last of
\* them ended where it is now.
Received ==
  /\ ~reader.gap
  /\ reader.pc = "restored" => reader.upto >= TarEnd
  /\ reader.counter = 0 => reader.upto = 0
  /\ reader.counter > 0 =>
       \E s \in sealed : s.nonce + 1 = reader.counter /\ s.to = reader.upto

IReceived == ISealed /\ FromSealed /\ Received

\* Neither debris nor the prologue is taken for a record.
LEMMA NoRecords == Debris \notin Record /\ Prologue \notin Record
BY DEF Debris, Prologue, Record

\* flush writes the record that it has sealed.
LEMMA FlushFromSealed ==
  ASSUME IReceived, NEW type \in {"data", "final"}, NEW pc,
         Flush(type, pc) \/ FlushFails(type, pc)
  PROVE  FromSealed'
<1>1. Sealing(type) \in Record /\ Sealing(type) \in Piece /\ file \in Seq(Piece)
  BY SealingType DEF IReceived, ISealed, IType, TypeOK, Piece
<1>2. Len(file) \in Nat
  BY <1>1, LenProperties
<1>3. CASE Flush(type, pc)
  <2>1. /\ Len(file') = Len(file) + 1
        /\ \A k \in 1..Len(file) : file'[k] = file[k]
        /\ file'[Len(file) + 1] = Sealing(type)
    BY <1>1, <1>3, AppendedPieces DEF Flush
  <2>2. sealed' = sealed \cup {Sealing(type)}
    BY <1>3 DEF Flush
  <2>. QED
    BY <2>1, <2>2, <1>2 DEF IReceived, FromSealed
<1>4. CASE FlushFails(type, pc)
  <2>1. \A k \in 1..Len(file') :
          file'[k] = Debris \/ (k \in 1..Len(file) /\ file'[k] = file[k])
    BY <1>1, <1>4, PartlyWritten DEF FlushFails
  <2>2. sealed \subseteq sealed'
    BY <1>4 DEF FlushFails
  <2>. QED
    BY <2>1, <2>2, NoRecords DEF IReceived, FromSealed
<1>. QED
  BY <1>3, <1>4

\* No step brings a record into the file that was not sealed.
LEMMA NextFromSealed ==
  ASSUME IReceived, [Next]_vars
  PROVE  FromSealed' /\ sealed \subseteq sealed'
<1>1. file \in Seq(Piece)
  BY DEF IReceived, ISealed, IType, TypeOK
<1>2. CASE FlushChunk \/ CloseTail \/ CloseFinal
  <2>1. PICK type \in {"data", "final"},
             pc \in {"writing", "closing", "reported", "failed"} :
               Flush(type, pc) \/ FlushFails(type, pc)
    BY <1>2 DEF FlushChunk, CloseTail, CloseFinal
  <2>. QED
    BY <2>1, FlushFromSealed DEF Flush, FlushFails
<1>3. CASE NewWriter
  BY <1>3, NoRecords DEF NewWriter, FromSealed
<1>4. CASE Crash
  <2>1. \A k \in 1..Len(file') :
          file'[k] = Debris \/ (k \in 1..Len(file) /\ file'[k] = file[k])
    BY <1>1, <1>4, PartlyWritten DEF Crash
  <2>. QED
    BY <2>1, <1>4, NoRecords DEF Crash, IReceived, FromSealed
<1>5. CASE Damage
  <2>1. \A k \in 1..Len(file') :
          file'[k] = Debris \/ \E l \in 1..Len(file) : file'[k] = file[l]
    BY <1>1, <1>5, DamagedPieces DEF Damage
  <2>. QED
    BY <2>1, <1>5, NoRecords DEF Damage, IReceived, FromSealed
<1>6. CASE Fill \/ StreamEnds \/ NewReader \/ ReadRecord \/ Refuse \/ UNCHANGED vars
  BY <1>6 DEF Fill, StreamEnds, NewReader, ReadRecord, Refuse, vars, IReceived, FromSealed
<1>. QED
  BY <1>2, <1>3, <1>4, <1>5, <1>6 DEF Next, WriterStep, ReaderStep

\* The next record a restore accepts continues where it is.
LEMMA ReadContinues ==
  ASSUME IReceived, ReadRecord
  PROVE  /\ file[reader.at] \in sealed
         /\ file[reader.at].from = reader.upto + 1
<1> DEFINE next == file[reader.at]
<1>1. next \in Record /\ next.nonce = reader.counter /\ reader.counter \in Nat
  BY DEF ReadRecord, Opens, IReceived, ISealed, IType, TypeOK, Reader
<1>2. reader.at \in 1..Len(file)
  <2>1. Len(file) \in Nat
    BY LenProperties DEF IReceived, ISealed, IType, TypeOK
  <2>. QED
    BY <2>1 DEF ReadRecord, Opens, IReceived, ISealed, IType, TypeOK, Reader
<1>3. next \in sealed
  BY <1>1, <1>2 DEF IReceived, FromSealed
<1>4. CASE reader.counter = 0
  BY <1>1, <1>3, <1>4 DEF IReceived, Received, ISealed, EndToEnd
<1>5. CASE reader.counter > 0
  <2>1. PICK s \in sealed : s.nonce + 1 = reader.counter /\ s.to = reader.upto
    BY <1>5 DEF IReceived, Received
  <2>. QED
    BY <1>1, <1>3, <2>1 DEF IReceived, ISealed, EndToEnd
<1>. QED
  BY <1>1, <1>3, <1>4, <1>5

\* No step of a restore leaves out or repeats a unit.
LEMMA NextReceived == IReceived /\ [Next]_vars => Received'
<1> SUFFICES ASSUME IReceived, [Next]_vars PROVE Received'
  OBVIOUS
<1>1. sealed \subseteq sealed'
  BY NextFromSealed
<1>2. CASE UNCHANGED reader
  BY <1>1, <1>2 DEF IReceived, Received
<1>3. CASE Damage \/ Refuse
  <2>1. /\ reader'.gap = reader.gap /\ reader'.upto = reader.upto
        /\ reader'.counter = reader.counter
        /\ reader'.pc = "restored" => reader.pc = "restored"
    BY <1>3 DEF Damage, Refuse, IReceived, ISealed, IType, TypeOK, Reader
  <2>. QED
    BY <1>1, <2>1 DEF IReceived, Received
<1>4. CASE NewReader
  <2>1. /\ reader'.gap = FALSE /\ reader'.upto = 0 /\ reader'.counter = 0
        /\ reader'.pc # "restored"
    BY <1>4 DEF NewReader, NoReader
  <2>. QED
    BY <2>1 DEF Received
<1>5. CASE ReadRecord
  <2> DEFINE next == file[reader.at]
  <2>1. /\ next \in sealed /\ next.from = reader.upto + 1
        /\ next.nonce = reader.counter /\ reader.counter \in Nat
    BY <1>5, ReadContinues
       DEF ReadRecord, Opens, IReceived, ISealed, IType, TypeOK, Reader
  <2>2. /\ reader'.gap = (reader.gap \/ next.from # reader.upto + 1)
        /\ reader'.upto = next.to
        /\ reader'.counter = reader.counter + 1
        /\ reader'.pc = "restored" => next.to >= TarEnd
    BY <1>5 DEF ReadRecord, IReceived, ISealed, IType, TypeOK, Reader
  <2>3. ~reader'.gap
    BY <2>1, <2>2 DEF IReceived, Received
  <2>. QED
    BY <1>1, <2>1, <2>2, <2>3 DEF Received
<1>. QED
  BY <1>2, <1>3, <1>4, <1>5
     DEF Next, WriterStep, ReaderStep, NewWriter, Fill, FlushChunk, StreamEnds, CloseTail,
         CloseFinal, Crash, Flush, FlushFails, vars

\* What the restores have received, at all times and from any file.
THEOREM ReceivedCorrect == Spec => []IReceived
<1>1. Init => IReceived
  BY InitSealed DEF Init, NoReader, IReceived, FromSealed, Received
<1>2. IReceived /\ [Next]_vars => IReceived'
  BY NextSealed, NextFromSealed, NextReceived DEF IReceived
<1>. QED
  BY <1>1, <1>2, PTL DEF Spec

\* What is restored is whole, for any sizes and any damage.
THEOREM RestoredCorrect == Spec => []RestoredIsWhole
<1>1. IReceived => RestoredIsWhole
  BY DEF IReceived, Received, RestoredIsWhole
<1>. QED
  BY ReceivedCorrect, <1>1, PTL

-----------------------------------------------------------------------------
(* A backup that is reported and not damaged. *)

\* As long as no error has come up, the file is the prologue and one record for every
\* nonce so far; the final record comes last, after the whole stream.
InOrder ==
  damages = 0 /\ writer.sound /\ writer.pc \in {"writing", "closing", "reported"} =>
    /\ Len(file) = writer.counter + 1
    /\ file[1] = Prologue
    /\ \A k \in 2..Len(file) :
         /\ file[k] \in sealed
         /\ file[k].nonce + 2 = k
         /\ file[k].type = "final" => writer.pc = "reported" /\ k = Len(file)
    /\ writer.pc = "closing" => writer.sent = Size
    /\ writer.pc = "reported" =>
         /\ Len(file) >= 2
         /\ file[Len(file)].type = "final"
         /\ file[Len(file)].from = Size + 1

\* Only a command without errors reports a backup, which begins with nonce 0; a restore of such a backup
\* has the final record before it until the tar archive is complete.
ReadsOn ==
  /\ writer.pc = "reported" => writer.sound
  /\ writer.pc = "prologue" => writer.counter = 0
  /\ reader.intact => writer.pc = "reported" /\ damages = 0
  /\ reader.intact /\ reader.pc = "reading" =>
       /\ reader.at = reader.counter + 2
       /\ reader.at <= Len(file)
       /\ reader.upto < TarEnd

IComplete == IReceived /\ InOrder /\ ReadsOn /\ ReportedRestores

\* As long as there are no errors, each flush puts the next record at the end.
LEMMA FlushInOrder ==
  ASSUME IComplete, NEW type \in {"data", "final"}, NEW pc \in {"writing", "closing", "reported"},
         writer.pc \in {"writing", "closing"},
         writer.pc = "closing" => pc # "writing",
         writer.pc = "writing" => pc = "writing",
         type = "final" <=> pc = "reported",
         type = "final" => writer.buffered = 0,
         writer.sound, damages = 0,
         Flush(type, pc)
  PROVE  InOrder'
<1> DEFINE new == Sealing(type)
<1>1. /\ new \in Record /\ new \in Piece /\ file \in Seq(Piece)
      /\ new.nonce = writer.counter /\ new.type = type
      /\ new.from = writer.sent - writer.buffered + 1
  BY SealingType DEF IComplete, IReceived, ISealed, IType, TypeOK, Piece, Sealing
<1>2. /\ Len(file) \in Nat
      /\ Len(file') = Len(file) + 1
      /\ \A k \in 1..Len(file) : file'[k] = file[k]
      /\ file'[Len(file) + 1] = new
  BY <1>1, AppendedPieces, LenProperties DEF Flush
<1>3. /\ writer'.pc = pc /\ writer'.sent = writer.sent
      /\ writer'.counter = writer.counter + 1
      /\ writer.counter \in Nat /\ writer.sent \in Nat
      /\ sealed' = sealed \cup {new}
  BY SizesType DEF Flush, IComplete, IReceived, ISealed, IType, TypeOK, Writer
<1>. HIDE DEF new
<1>4. /\ Len(file) = writer.counter + 1
      /\ file[1] = Prologue
      /\ \A k \in 2..Len(file) :
           /\ file[k] \in sealed
           /\ file[k].nonce + 2 = k
           /\ file[k].type # "final"
      /\ writer.pc = "closing" => writer.sent = Size
  BY DEF IComplete, InOrder
<1>5. Len(file') = writer'.counter + 1 /\ file'[1] = Prologue
  <2>1. 1 \in 1..Len(file)
    BY <1>3, <1>4
  <2>2. file'[1] = Prologue
    BY <2>1, <1>2, <1>4
  <2>. QED
    BY <2>2, <1>2, <1>3, <1>4
<1>6. ASSUME NEW k \in 2..Len(file')
      PROVE  /\ file'[k] \in sealed'
             /\ file'[k].nonce + 2 = k
             /\ file'[k].type = "final" => writer'.pc = "reported" /\ k = Len(file')
  <2>1. CASE k \in 2..Len(file)
    <3>1. file'[k] = file[k]
      BY <2>1, <1>2
    <3>2. file[k] \in sealed /\ file[k].nonce + 2 = k /\ file[k].type # "final"
      BY <2>1, <1>4
    <3>. QED
      BY <3>1, <3>2, <1>3
  <2>2. CASE k = Len(file) + 1
    BY <2>2, <1>1, <1>2, <1>3, <1>4
  <2>. QED
    BY <2>1, <2>2, <1>2
<1>7. writer'.pc = "closing" => writer'.sent = Size
  BY <1>3, <1>4
<1>8. writer'.pc = "reported" =>
        /\ Len(file') >= 2
        /\ file'[Len(file')].type = "final"
        /\ file'[Len(file')].from = Size + 1
  <2>. SUFFICES ASSUME pc = "reported"
                PROVE  /\ Len(file') >= 2
                       /\ file'[Len(file')].type = "final"
                       /\ file'[Len(file')].from = Size + 1
    BY <1>3
  <2>1. writer.pc = "closing" /\ writer.buffered = 0 /\ type = "final"
    OBVIOUS
  <2>. QED
    BY <2>1, <1>1, <1>2, <1>3, <1>4
<1>. QED
  BY <1>5, <1>6, <1>7, <1>8 DEF InOrder

\* Every step keeps the file of a backup without errors in order.
LEMMA NextInOrder == IComplete /\ [Next]_vars => InOrder'
<1> SUFFICES ASSUME IComplete, [Next]_vars PROVE InOrder'
  OBVIOUS
<1>1. /\ writer \in Writer /\ file \in Seq(Piece) /\ damages \in Nat
  BY SizesType DEF IComplete, IReceived, ISealed, IType, TypeOK
<1>2. CASE ~writer'.sound
  BY <1>2 DEF InOrder
<1>3. CASE UNCHANGED <<writer, file, sealed, damages>>
  BY <1>3 DEF IComplete, InOrder
<1>4. CASE NewWriter
  <2>1. /\ Len(file') = 1 /\ file'[1] = Prologue
        /\ writer'.pc = "writing" /\ writer'.counter = writer.counter
    BY <1>1, <1>4 DEF NewWriter, Becomes, Writer
  <2>2. writer.counter = 0
    BY <1>4 DEF NewWriter, IComplete, ReadsOn
  <2>. QED
    BY <2>1, <2>2 DEF InOrder
<1>5. CASE Fill
  <2>1. /\ writer'.pc = "writing" /\ writer.pc = "writing"
        /\ writer'.counter = writer.counter /\ writer'.sound = writer.sound
        /\ UNCHANGED <<file, sealed, damages>>
    BY <1>1, <1>5 DEF Fill, Writer
  <2>. QED
    BY <2>1 DEF IComplete, InOrder
<1>6. CASE FlushChunk \/ CloseTail \/ CloseFinal
  <2>1. CASE damages = 0 /\ writer.sound
    <3>1. writer'.pc = "failed" \/ ~writer'.sound
          \/ \E type \in {"data", "final"}, pc \in {"writing", "closing", "reported"} :
               /\ writer.pc \in {"writing", "closing"}
               /\ writer.pc = "closing" => pc # "writing"
               /\ writer.pc = "writing" => pc = "writing"
               /\ type = "final" <=> pc = "reported"
               /\ type = "final" => writer.buffered = 0
               /\ Flush(type, pc)
      <4>1. CASE FlushChunk
        BY <1>1, <4>1 DEF FlushChunk, FlushFails, Writer
      <4>2. CASE CloseTail
        BY <1>1, <4>2 DEF CloseTail, FlushFails, Writer
      <4>3. CASE CloseFinal
        <5>1. CASE Flush("final", "reported")
          BY <4>3, <5>1 DEF CloseFinal
        <5>2. CASE Flush("final", "failed") \/ FlushFails("final", "failed")
          BY <1>1, <5>2 DEF Flush, FlushFails, Writer
        <5>. QED
          BY <4>3, <5>1, <5>2 DEF CloseFinal
      <4>. QED
        BY <1>6, <4>1, <4>2, <4>3
    <3>. QED
      BY <2>1, <3>1, FlushInOrder DEF InOrder
  <2>2. CASE damages # 0 \/ ~writer.sound
    <3>1. damages' = damages /\ (writer'.sound => writer.sound)
      BY <1>1, <1>6 DEF FlushChunk, CloseTail, CloseFinal, Flush, FlushFails, Writer
    <3>. QED
      BY <2>2, <3>1 DEF InOrder
  <2>. QED
    BY <2>1, <2>2
<1>7. CASE StreamEnds
  <2>1. ~writer'.sound \/ (writer.pc = "writing" /\ writer.sent = Size /\ Becomes("closing"))
    BY <1>1, <1>7 DEF StreamEnds, Writer
  <2>2. UNCHANGED <<file, sealed, damages>> /\ writer.pc = "writing"
    BY <1>7 DEF StreamEnds
  <2>3. CASE Becomes("closing") /\ writer.sent = Size
    <3>1. /\ writer'.pc = "closing" /\ writer'.counter = writer.counter
          /\ writer'.sound = writer.sound /\ writer'.sent = Size
      BY <1>1, <2>3 DEF Becomes, Writer
    <3>. QED
      BY <2>2, <3>1 DEF IComplete, InOrder
  <2>. QED
    BY <1>2, <2>1, <2>3
<1>8. CASE Crash
  BY <1>1, <1>2, <1>8 DEF Crash, Writer
<1>9. CASE Damage
  BY <1>1, <1>9 DEF Damage, InOrder
<1>. QED
  BY <1>3, <1>4, <1>5, <1>6, <1>7, <1>8, <1>9
     DEF Next, WriterStep, ReaderStep, NewReader, ReadRecord, Refuse, vars

\* A restore of a reported backup finds the prologue, and one record after another.
LEMMA NextReadsOn ==
  ASSUME IComplete, [Next]_vars
  PROVE  ReadsOn' /\ ReportedRestores'
<1>1. /\ writer \in Writer /\ file \in Seq(Piece) /\ reader \in Reader
      /\ Len(file) \in Nat
  BY LenProperties DEF IComplete, IReceived, ISealed, IType, TypeOK
<1>2. CASE WriterStep
  <2>1. writer.pc \notin {"reported", "failed"} /\ UNCHANGED <<damages, reader>>
    BY <1>2 DEF WriterStep, NewWriter, Fill, FlushChunk, StreamEnds, CloseTail, CloseFinal,
                Crash, Flush, FlushFails
  <2>2. ~reader.intact
    BY <2>1 DEF IComplete, ReadsOn
  <2>3. writer'.pc = "reported" => writer'.sound
    BY <1>1, <1>2 DEF WriterStep, NewWriter, Fill, FlushChunk, StreamEnds, CloseTail,
                      CloseFinal, Crash, Flush, FlushFails, Becomes, Writer
  <2>4. writer'.pc # "prologue"
    BY <1>1, <1>2 DEF WriterStep, NewWriter, Fill, FlushChunk, StreamEnds, CloseTail,
                      CloseFinal, Crash, Flush, FlushFails, Becomes, Writer
  <2>. QED
    BY <2>1, <2>2, <2>3, <2>4 DEF ReadsOn, ReportedRestores
<1>3. CASE Damage
  <2>1. ~reader'.intact /\ UNCHANGED writer
    BY <1>1, <1>3 DEF Damage, Reader
  <2>. QED
    BY <2>1 DEF IComplete, ReadsOn, ReportedRestores
<1>4. CASE UNCHANGED vars
  BY <1>4 DEF vars, IComplete, ReadsOn, ReportedRestores
<1>5. CASE ReaderStep
  <2>1. UNCHANGED <<writer, file, sealed, damages>>
    BY <1>5 DEF ReaderStep, NewReader, ReadRecord, Refuse
  <2>2. reader'.intact => writer.pc = "reported" /\ damages = 0
    BY <1>1, <1>5 DEF ReaderStep, NewReader, ReadRecord, Refuse, NoReader, Reader,
                      IComplete, ReadsOn
  <2>3. CASE ~reader'.intact
    BY <2>1, <2>3 DEF IComplete, ReadsOn, ReportedRestores
  <2>4. CASE reader'.intact
    <3>1. /\ Len(file) = writer.counter + 1 /\ Len(file) >= 2
          /\ file[1] = Prologue
          /\ \A k \in 2..Len(file) : file[k] \in sealed /\ file[k].nonce + 2 = k
          /\ \A k \in 2..Len(file) : file[k].type = "final" => k = Len(file)
          /\ file[Len(file)].type = "final"
          /\ file[Len(file)].from = Size + 1
      BY <2>2, <2>4 DEF IComplete, InOrder, ReadsOn
    <3>2. CASE NewReader
      <4>1. HasPrologue
        BY <3>1 DEF HasPrologue
      <4>2. /\ reader'.pc = "reading" /\ reader'.at = 2
            /\ reader'.counter = 0 /\ reader'.upto = 0
        BY <3>2, <4>1 DEF NewReader, NoReader
      <4>. QED
        BY <2>1, <2>2, <3>1, <4>2, SizesType DEF IComplete, ReadsOn, ReportedRestores
    <3>3. ASSUME ReadRecord \/ Refuse
          PROVE  /\ reader.at = reader.counter + 2
                 /\ reader.at \in 2..Len(file)
                 /\ reader.upto < TarEnd
                 /\ reader.counter \in Nat
                 /\ file[reader.at] \in sealed
                 /\ file[reader.at] \in Record
                 /\ file[reader.at].nonce = reader.counter
      <4>1. reader.intact /\ reader.pc = "reading"
        BY <1>1, <2>4, <3>3 DEF ReadRecord, Refuse, Reader
      <4>2. /\ reader.at = reader.counter + 2
            /\ reader.at \in 2..Len(file)
            /\ reader.upto < TarEnd
            /\ reader.counter \in Nat
        BY <1>1, <4>1 DEF IComplete, ReadsOn, Reader
      <4>3. file[reader.at] \in sealed /\ file[reader.at].nonce + 2 = reader.at
        BY <3>1, <4>2
      <4>4. file[reader.at] \in Record
        BY <4>3 DEF IComplete, IReceived, ISealed, IType, TypeOK
      <4>5. file[reader.at].nonce \in Nat
        BY <4>4 DEF Record
      <4>. QED
        BY <4>2, <4>3, <4>4, <4>5
    <3>4. CASE ReadRecord
      <4>1. reader.at # Len(file)
        BY <3>1, <3>4 DEF ReadRecord
      <4>2. /\ reader'.at = reader.at + 1
            /\ reader'.counter = reader.counter + 1
            /\ reader'.upto = file[reader.at].to
            /\ reader'.pc = IF file[reader.at].to >= TarEnd THEN "restored" ELSE "reading"
        BY <1>1, <3>4 DEF ReadRecord, Reader
      <4>3. file[reader.at].to \in Nat /\ TarEnd \in Nat
        BY <3>3, <3>4, SizesType DEF Record
      <4>4. reader'.pc = "reading" => reader'.upto < TarEnd
        BY <4>2, <4>3
      <4>5. reader'.at = reader'.counter + 2 /\ reader'.at <= Len(file)
        BY <1>1, <3>3, <3>4, <4>1, <4>2
      <4>. QED
        BY <2>1, <2>2, <4>2, <4>4, <4>5 DEF IComplete, ReadsOn, ReportedRestores
    <3>5. CASE Refuse
      <4>. SUFFICES ASSUME reader.password PROVE FALSE
        BY <1>1, <2>1, <2>2, <3>5 DEF Refuse, Reader, IComplete, ReadsOn, ReportedRestores
      <4>1. Opens
        BY <3>3, <3>5 DEF Opens
      <4>2. reader.at = Len(file)
        BY <3>1, <3>3, <3>5, <4>1 DEF Refuse
      <4>3. file[reader.at].from = Size + 1
        BY <3>1, <4>2
      <4>4. file[reader.at].from = reader.upto + 1
        <5>1. CASE reader.counter = 0
          BY <3>3, <3>5, <5>1 DEF IComplete, IReceived, Received, ISealed, EndToEnd
        <5>2. CASE reader.counter > 0
          <6>1. PICK s \in sealed : s.nonce + 1 = reader.counter /\ s.to = reader.upto
            BY <5>2 DEF IComplete, IReceived, Received
          <6>. QED
            BY <3>3, <3>5, <6>1 DEF IComplete, IReceived, ISealed, EndToEnd
        <5>. QED
          BY <3>3, <3>5, <5>1, <5>2
      <4>. QED
        BY <1>1, <3>3, <3>5, <4>3, <4>4, SizesType DEF Reader
    <3>. QED
      BY <1>5, <3>2, <3>4, <3>5 DEF ReaderStep
  <2>. QED
    BY <2>3, <2>4
<1>. QED
  BY <1>2, <1>3, <1>4, <1>5 DEF Next

\* The state of a backup without errors, and of a restore that reads it.
THEOREM CompleteCorrect == Spec => []IComplete
<1>1. Init => IComplete
  <2>1. Init => IReceived
    BY InitSealed DEF Init, NoReader, IReceived, FromSealed, Received
  <2>. QED
    BY <2>1 DEF Init, NoReader, IComplete, InOrder, ReadsOn, ReportedRestores
<1>2. IComplete /\ [Next]_vars => IComplete'
  BY NextSealed, NextFromSealed, NextReceived, NextInOrder, NextReadsOn
     DEF IComplete, IReceived
<1>. QED
  BY <1>1, <1>2, PTL DEF Spec

\* A reported backup that is not damaged is never refused, whatever its size.
THEOREM ReportedCorrect == Spec => []ReportedRestores
<1>1. IComplete => ReportedRestores
  BY DEF IComplete
<1>. QED
  BY CompleteCorrect, <1>1, PTL

=============================================================================

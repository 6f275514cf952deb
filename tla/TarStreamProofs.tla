--------------------------- MODULE TarStreamProofs ---------------------------
(***************************************************************************)
(* For an archive of any size, tarStreamToS3 stores all of it or nothing,  *)
(* and reports success only when it is stored.                             *)
(***************************************************************************)
EXTENDS TarStream, TLAPS

\* While Exec runs, nothing has been said about its result; once it has
\* returned, no write is left waiting.
ExecInv ==
    /\ gor = "exec" => ~tarErr /\ wclosed = "open"
    /\ gor = "close" => wclosed = "open"
    /\ gor # "exec" => ~chunk
    /\ wclosed = "eof" => ~tarErr

\* Until StreamUpload returns, it has read all that was written, save the
\* chunk in the pipe; a tar that succeeded has then written everything.
ReadInv ==
    /\ main = "upload" => out = (IF chunk THEN got + 1 ELSE got) /\ ~rclosed
    /\ main = "closeRead" => ~rclosed
    /\ main = "upload" /\ gor # "exec" /\ ~tarErr => out = Size

\* An upload that reported success has stored the whole archive.
UploadInv == /\ NoTornArchive /\ SuccessIsStored
             /\ main # "upload" /\ ~putErr => object = Size
             /\ main # "done" => ret = "none"

IInv == TypeOK /\ ExecInv /\ ReadInv /\ UploadInv

\* One step of either goroutine keeps the types and the inductive invariant.
LEMMA Inductive == IInv /\ [Next]_vars => IInv'
<1> SUFFICES ASSUME IInv, [Next]_vars PROVE IInv'
  OBVIOUS
<1> USE SizeAssumption DEF IInv, TypeOK, ExecInv, ReadInv, UploadInv,
        NoTornArchive, SuccessIsStored, Nothing, goroutine, caller
<1>1. CASE TarWrite        BY <1>1 DEF TarWrite
<1>2. CASE TarExits        BY <1>2 DEF TarExits
<1>3. CASE TarFails        BY <1>3 DEF TarFails
<1>4. CASE WriteRefused    BY <1>4 DEF WriteRefused
<1>5. CASE CloseWithError  BY <1>5 DEF CloseWithError
<1>6. CASE SendExecErr     BY <1>6 DEF SendExecErr
<1>7. CASE ReadChunk       BY <1>7 DEF ReadChunk
<1>8. CASE ReadEOF         BY <1>8 DEF ReadEOF, Uploaded
<1>9. CASE ReadError       BY <1>9 DEF ReadError, Uploaded
<1>10. CASE UploadFails    BY <1>10 DEF UploadFails, Uploaded
<1>11. CASE CloseRead      BY <1>11 DEF CloseRead
<1>12. CASE Join           BY <1>12 DEF Join
<1>13. CASE UNCHANGED vars BY <1>13 DEF vars
<1> QED
  BY <1>1, <1>2, <1>3, <1>4, <1>5, <1>6, <1>7, <1>8, <1>9, <1>10, <1>11, <1>12,
     <1>13 DEF Next, Goroutine, Caller

\* The inductive invariant holds throughout every call.
LEMMA Invariance == Spec => []IInv
<1>1. ASSUME Init PROVE IInv
  <2>1. out = 0 /\ got = 0 /\ object = Nothing
    BY <1>1 DEF Init
  <2>2. out \in 0..Size /\ got \in 0..Size /\ object \in 0..Nothing
    BY <2>1, SizeAssumption DEF Nothing
  <2>3. TypeOK
    BY <1>1, <2>2, Zenon DEF Init, TypeOK
  <2>4. ExecInv /\ UploadInv
    BY <1>1 DEF Init, ExecInv, UploadInv, NoTornArchive, SuccessIsStored
  <2>5. ReadInv
    BY <1>1 DEF Init, ReadInv
  <2> QED BY <2>3, <2>4, <2>5 DEF IInv
<1> QED BY <1>1, Inductive, PTL DEF Spec

\* backup.go:182-187 and :195: an object in S3 is the whole archive, because
\* the pipe is closed with tar's error and not with EOF.
THEOREM ArchiveWhole == Spec => []NoTornArchive
<1>1. IInv => NoTornArchive
  BY DEF IInv, UploadInv
<1> QED BY <1>1, Invariance, PTL

\* backup.go:192-198: a nil result means that the whole archive is stored.
THEOREM SuccessStored == Spec => []SuccessIsStored
<1>1. IInv => SuccessIsStored
  BY DEF IInv, UploadInv
<1> QED BY <1>1, Invariance, PTL
=============================================================================

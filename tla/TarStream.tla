------------------------------ MODULE TarStream ------------------------------
(***************************************************************************)
(* Scheduler.tarStreamToS3 (backup.go): a goroutine execs tar in the pod   *)
(* and writes its output into one end of an io.Pipe, StreamUpload reads    *)
(* the other end into S3, and the caller joins the two over execErr, a     *)
(* channel of capacity one.                                                *)
(*                                                                         *)
(* The pipe has no buffer: a write waits until its chunk is read or the    *)
(* read end is closed.  The archive is Size chunks.  The SPDY executor and *)
(* the S3 uploader are external: Exec returns nil only for a tar that      *)
(* exited 0; after a refused write it may report either way, since         *)
(* remotecommand logs that error and waits for the command.                *)
(***************************************************************************)
EXTENDS Naturals

CONSTANT Size    \* chunks tar writes for the snapshot directory
ASSUME SizeAssumption == Size \in Nat

VARIABLES
    gor,         \* where the goroutine is
    out,         \* chunks it has handed to the pipe
    chunk,       \* a write waits on the pipe
    tarErr,      \* what Exec returned
    wclosed,     \* the write end: "open", "eof" or "err"
    rclosed,     \* the read end is closed
    chan,        \* the contents of execErr: "empty", "nil" or "err"
    main,        \* where the caller is
    got,         \* chunks StreamUpload has read
    putErr,      \* what StreamUpload returned
    object,      \* chunks of the object S3 stores, or Nothing
    ret          \* what tarStreamToS3 returned

vars == <<gor, out, chunk, tarErr, wclosed, rclosed, chan, main, got, putErr,
          object, ret>>

goroutine == <<gor, out, tarErr>>
caller    == <<main, got, putErr, object, ret>>

Nothing == Size + 1

Init ==
    /\ gor = "exec" /\ out = 0 /\ chunk = FALSE /\ tarErr = FALSE
    /\ wclosed = "open" /\ rclosed = FALSE /\ chan = "empty"
    /\ main = "upload" /\ got = 0 /\ putErr = FALSE
    /\ object = Nothing /\ ret = "none"

----------------------------------------------------------------------------
(* The goroutine.                                                           *)

\* Exec copies another chunk of tar's output into the pipe, and waits.
TarWrite ==
    /\ gor = "exec" /\ out < Size /\ ~chunk
    /\ chunk' = TRUE /\ out' = out + 1
    /\ UNCHANGED <<gor, tarErr, wclosed, rclosed, chan, caller>>

TarExits ==
    /\ gor = "exec" /\ out = Size /\ ~chunk
    /\ gor' = "close"
    /\ UNCHANGED <<out, chunk, tarErr, wclosed, rclosed, chan, caller>>

\* The directory is not on the pod, the pod goes, the connection breaks.
TarFails ==
    /\ gor = "exec" /\ ~chunk
    /\ gor' = "close" /\ tarErr' = TRUE
    /\ UNCHANGED <<out, chunk, wclosed, rclosed, chan, caller>>

\* The read end was closed under a write.
WriteRefused ==
    /\ gor = "exec" /\ chunk /\ rclosed
    /\ chunk' = FALSE /\ gor' = "close" /\ tarErr' \in BOOLEAN
    /\ UNCHANGED <<out, wclosed, rclosed, chan, caller>>

\* Mistake: the pipe is closed as if the archive had ended.
CloseWithErrorDropped ==
    /\ gor = "close"
    /\ wclosed' = "eof" /\ gor' = "send"
    /\ UNCHANGED <<out, tarErr, chunk, rclosed, chan, caller>>

\* Mistake: the write end is never closed.
CloseWithErrorSkipped ==
    /\ gor = "close"
    /\ gor' = "send"
    /\ UNCHANGED <<out, tarErr, chunk, wclosed, rclosed, chan, caller>>

\* pw.CloseWithError(err): a nil err is io.EOF to the reader.
CloseWithError ==
    /\ gor = "close"
    /\ wclosed' = (IF tarErr THEN "err" ELSE "eof") /\ gor' = "send"
    /\ UNCHANGED <<out, tarErr, chunk, rclosed, chan, caller>>

SendExecErr ==
    /\ gor = "send" /\ chan = "empty"
    /\ chan' = (IF tarErr THEN "err" ELSE "nil") /\ gor' = "exit"
    /\ UNCHANGED <<out, tarErr, chunk, wclosed, rclosed, caller>>

----------------------------------------------------------------------------
(* The caller, inside StreamUpload: manager.Uploader reads to the end of    *)
(* the body and only then completes the multipart upload.                   *)

Uploaded(stored, failed) ==
    /\ object' = stored /\ putErr' = failed /\ main' = "closeRead"
    /\ UNCHANGED <<goroutine, chunk, wclosed, rclosed, chan, got, ret>>

ReadChunk ==
    /\ main = "upload" /\ chunk
    /\ chunk' = FALSE /\ got' = got + 1
    /\ UNCHANGED <<goroutine, wclosed, rclosed, chan, main, putErr, object, ret>>

\* CompleteMultipartUpload; its reply may be lost.
ReadEOF ==
    /\ main = "upload" /\ ~chunk /\ wclosed = "eof"
    /\ \E lost \in BOOLEAN : Uploaded(got, lost)

ReadError ==
    /\ main = "upload" /\ ~chunk /\ wclosed = "err"
    /\ Uploaded(Nothing, TRUE)

\* S3 refuses a part: the uploader aborts without reading on.
UploadFails ==
    /\ main = "upload"
    /\ Uploaded(Nothing, TRUE)

\* Mistake: the read end is left open after a failed upload.
CloseReadSkipped ==
    /\ main = "closeRead"
    /\ main' = "join"
    /\ UNCHANGED <<goroutine, chunk, wclosed, rclosed, chan, got, putErr, object, ret>>

CloseRead ==
    /\ main = "closeRead"
    /\ rclosed' = TRUE /\ main' = "join"
    /\ UNCHANGED <<goroutine, chunk, wclosed, chan, got, putErr, object, ret>>

\* Mistake: only the goroutine's error is looked at.
JoinExecOnly ==
    /\ main = "join" /\ chan # "empty"
    /\ chan' = "empty" /\ main' = "done"
    /\ ret' = (IF chan = "err" THEN "error" ELSE "ok")
    /\ UNCHANGED <<goroutine, chunk, wclosed, rclosed, got, putErr, object>>

\* <-execErr, then the two results.
Join ==
    /\ main = "join" /\ chan # "empty"
    /\ chan' = "empty" /\ main' = "done"
    /\ ret' = (IF chan = "err" \/ putErr THEN "error" ELSE "ok")
    /\ UNCHANGED <<goroutine, chunk, wclosed, rclosed, got, putErr, object>>

----------------------------------------------------------------------------
Goroutine == TarWrite \/ TarExits \/ TarFails \/ WriteRefused \/ CloseWithError
             \/ SendExecErr
Caller    == ReadChunk \/ ReadEOF \/ ReadError \/ UploadFails \/ CloseRead \/ Join

Next == Goroutine \/ Caller

\* Both goroutines are scheduled, tar goes on writing until it exits and S3
\* takes what it is sent.  That tar or the upload fails is never certain, so
\* neither TarFails nor UploadFails helps a goroutine that is blocked.
Fairness ==
    /\ WF_vars(TarWrite \/ TarExits \/ WriteRefused \/ CloseWithError \/ SendExecErr)
    /\ WF_vars(ReadChunk \/ ReadEOF \/ ReadError \/ CloseRead \/ Join)

Spec == Init /\ [][Next]_vars /\ Fairness

TypeOK ==
    /\ gor \in {"exec", "close", "send", "exit"} /\ out \in 0..Size
    /\ chunk \in BOOLEAN /\ tarErr \in BOOLEAN
    /\ wclosed \in {"open", "eof", "err"} /\ rclosed \in BOOLEAN
    /\ chan \in {"empty", "nil", "err"}
    /\ main \in {"upload", "closeRead", "join", "done"} /\ got \in 0..Size
    /\ putErr \in BOOLEAN /\ object \in 0..Nothing
    /\ ret \in {"none", "ok", "error"}

\* S3 never holds a torn archive: an object under the backup's key has all of
\* tar's output, whichever of tar, the pipe and the upload failed first.
NoTornArchive == object # Nothing => object = Size

\* tarStreamToS3 returns nil only when the whole archive is in the bucket.
SuccessIsStored == ret = "ok" => object = Size

\* The call always returns and leaves no goroutine behind: closing the read end
\* after a failed upload frees the blocked writer, closing the write end after
\* tar has ended, well or not, the blocked reader.
Returns == <>(main = "done" /\ gor = "exit")
=============================================================================

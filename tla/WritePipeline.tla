--------------------------- MODULE WritePipeline ---------------------------
(***************************************************************************)
(* The streaming-upload path of one open file of curlftpfs (src/ftpfs.c).  *)
(*                                                                         *)
(* Two threads share one struct ftpfs_file:                                *)
(*   - the producer: the FUSE thread running the upcalls open/create,      *)
(*     write, flush, ftruncate and release on the handle;                  *)
(*   - the worker: ftpfs_write_thread, which runs curl_easy_perform on the *)
(*     handle's own upload connection; libcurl calls back write_data_bg    *)
(*     for every chunk of the upload body.                                 *)
(* They hand bytes over in stream_buf, synchronised by the four counting   *)
(* semaphores ready, data_avail, data_need and data_written.               *)
(*                                                                         *)
(* Data is abstracted to positions: the byte a caller writes at offset o   *)
(* is the value o, and a byte the remote file held before is OldByte. A   *)
(* dropped, duplicated or reordered byte is therefore visible in remote.   *)
(* The FTP server is the variable remote; libcurl's network behaviour is   *)
(* a nondeterministic success or failure at each point where              *)
(* curl_easy_perform can fail.                                             *)
(***************************************************************************)
EXTENDS Integers, Sequences, SequencesExt

CONSTANTS
  Producers,     \* FUSE threads that run upcalls on the handle
  MaxPos,        \* bound: no write may extend the file past MaxPos bytes
  WriteSizes,    \* sizes of write upcalls (the kernel never sends size 0)
  ReqSizes,      \* buffer sizes libcurl asks write_data_bg to fill
  TruncLens,     \* lengths passed to ftruncate
  InitRemote,    \* possible contents of the remote file at start
  NoFile,        \* model value: the remote path does not exist
  StartOutcomes, \* outcomes of start_write_thread that may happen
  AllocMayFail   \* whether buf_add_mem may fail with ENOMEM

ASSUME /\ MaxPos \in Nat \ {0}
       /\ WriteSizes \subseteq 1..MaxPos
       /\ ReqSizes \subseteq Nat \ {0}
       /\ TruncLens \subseteq Nat
       /\ "ok" \in StartOutcomes
       /\ StartOutcomes \subseteq {"ok", "init_fail", "create_fail"}
       /\ AllocMayFail \in BOOLEAN

OldByte == -1

\* The bytes a write of size bytes at offset carries.
Bytes(offset, size) == [i \in 1..size |-> offset + i - 1]

\* What the remote file must hold after n bytes were streamed from offset 0.
Expected(n) == Bytes(0, n)

Sems == {"ready", "data_avail", "data_need", "data_written"}

VARIABLES
  remote,            \* the file on the FTP server, or NoFile
  isOpen,            \* the ftpfs_file is allocated (fi->fh)
  pos,               \* fh->pos: bytes handed to the upload
  write_conn,        \* fh->write_conn # NULL
  write_may_start,   \* fh->write_may_start
  write_fail_cause,  \* "ok" (CURLE_OK), "curl" (a libcurl error), "size" (-999)
  isready, eof, written_flag,
  sem,               \* the counts of the four semaphores
  stream_buf,        \* fh->stream_buf
  ppc,               \* where each producer thread is
  op,                \* the upcall each producer is running
  wpc,               \* where the worker thread is; "none" if none exists
  curl_res,          \* result of the worker's curl_easy_perform
  sent,              \* bytes libcurl took from write_data_bg in this upload
  acked,             \* history: offsets of bytes a write reported written
  lastRet            \* history: the last upcall that returned, if it succeeded,
                     \* and if a write of this handle has returned an error

handle == <<isOpen, pos, write_conn, write_may_start, write_fail_cause>>
shared == <<isready, eof, written_flag, sem, stream_buf>>
worker == <<wpc, curl_res, sent>>
vars == <<remote, handle, shared, ppc, op, worker, acked, lastRet>>

Up(s, x) == [s EXCEPT ![x] = @ + 1]
Down(s, x) == [s EXCEPT ![x] = @ - 1]
NoSems == [x \in Sems |-> 0]

\* test_size(): the size from a directory listing, -ENOENT for a missing file.
RemoteSize == IF remote = NoFile THEN -1 ELSE Len(remote)

Return(p, kind, ok) ==
  /\ ppc' = [ppc EXCEPT ![p] = "idle"]
  /\ lastRet' = [kind |-> kind, ok |-> ok,
                 writeErr |-> /\ kind # "release"
                              /\ lastRet.writeErr \/ (kind = "write" /\ ~ok)]

\* The kernel runs write and ftruncate under the inode lock, and open and
\* release only while no other upcall uses the handle; flush (close() of
\* one of several descriptors of the open file) takes no lock and may run
\* beside a write or an ftruncate.
MayOverlap(k1, k2) == {k1, k2} \in {{"write", "flush"}, {"ftruncate", "flush"}}

Call(p, kind, offset, size, next) ==
  /\ ppc[p] = "idle"
  /\ \A q \in Producers \ {p} : ppc[q] # "idle" => MayOverlap(kind, op[q].kind)
  /\ op' = [op EXCEPT ![p] = [kind |-> kind, offset |-> offset, size |-> size]]
  /\ ppc' = [ppc EXCEPT ![p] = next]

\* free_ftpfs_file(), and the zeroed memory the next open gets from malloc.
FreeHandle ==
  /\ isOpen' = FALSE /\ pos' = 0 /\ write_conn' = FALSE
  /\ write_may_start' = FALSE /\ write_fail_cause' = "ok"
  /\ isready' = FALSE /\ eof' = FALSE /\ written_flag' = FALSE
  /\ sem' = NoSems /\ stream_buf' = <<>> /\ acked' = {}

\* start_write_thread(): reset the flags, sem_init all four semaphores,
\* curl_easy_init() and pthread_create(). On "create_fail" the connection
\* is leaked (the FIXME): write_conn stays set although no worker runs.
StartWriteThread(outcome) ==
  /\ isready' = FALSE /\ eof' = FALSE /\ written_flag' = FALSE
  /\ sem' = NoSems
  /\ write_conn' = (outcome # "init_fail")
  /\ wpc' = IF outcome = "ok" THEN "connect" ELSE "none"
  /\ curl_res' = "ok"
  /\ sent' = <<>>

Init ==
  /\ remote \in InitRemote
  /\ isOpen = FALSE /\ pos = 0 /\ write_conn = FALSE
  /\ write_may_start = FALSE /\ write_fail_cause = "ok"
  /\ isready = FALSE /\ eof = FALSE /\ written_flag = FALSE
  /\ sem = NoSems /\ stream_buf = <<>>
  /\ ppc = [p \in Producers |-> "idle"]
  /\ op = [p \in Producers |-> [kind |-> "none", offset |-> 0, size |-> 0]]
  /\ wpc = "none" /\ curl_res = "ok" /\ sent = <<>>
  /\ acked = {}
  /\ lastRet = [kind |-> "none", ok |-> TRUE, writeErr |-> FALSE]
-----------------------------------------------------------------------------
(***************************************************************************)
(* ftpfs_open_common for write opens (O_WRONLY). The kernel has already   *)
(* looked the path up, so an open without O_CREAT needs an existing file. *)
(***************************************************************************)
OpenFlags == {"creat", "creat_excl", "trunc", "plain", "append"}

\* O_APPEND is refused; O_EXCL fails when test_exists() finds the file.
OpenRejected(p, flags) ==
  /\ ~isOpen
  /\ Call(p, "open", 0, 0, "idle")
  /\ \/ flags = "append"
     \/ flags = "creat_excl" /\ remote # NoFile
  /\ Return(p, "open", FALSE)
  /\ UNCHANGED <<remote, handle, shared, worker, acked>>

\* Neither O_CREAT nor O_TRUNC: the upload waits for ftruncate(0).
OpenDeferred(p) ==
  /\ ~isOpen /\ remote # NoFile
  /\ Call(p, "open", 0, 0, "idle")
  /\ isOpen' = TRUE
  /\ Return(p, "open", TRUE)
  /\ UNCHANGED <<remote, pos, write_conn, write_may_start, write_fail_cause,
                 shared, worker, acked>>

CanStartOnOpen(flags) ==
  \/ flags = "creat"
  \/ flags = "creat_excl" /\ remote = NoFile
  \/ flags = "trunc" /\ remote # NoFile

\* O_CREAT or O_TRUNC: start the worker now and wait for it to be ready.
OpenStartUpload(p, flags) ==
  /\ ~isOpen /\ CanStartOnOpen(flags)
  /\ Call(p, "open", 0, 0, "open_ready")
  /\ isOpen' = TRUE /\ write_may_start' = TRUE
  /\ StartWriteThread("ok")
  /\ UNCHANGED <<remote, pos, write_fail_cause, stream_buf, acked, lastRet>>

\* start_write_thread() failed: the open returns EIO and frees the handle.
OpenStartFailed(p, flags) ==
  /\ ~isOpen /\ CanStartOnOpen(flags)
  /\ \E o \in StartOutcomes \ {"ok"} : TRUE
  /\ Call(p, "open", 0, 0, "idle")
  /\ Return(p, "open", FALSE)
  /\ UNCHANGED <<remote, handle, shared, worker, acked>>

\* sem_wait(ready); chmod (a command on the shared connection, which leaves
\* the contents alone); sem_post(data_need).
OpenReady(p) ==
  /\ ppc[p] = "open_ready" /\ sem["ready"] > 0
  /\ sem' = Up(Down(sem, "ready"), "data_need")
  /\ Return(p, "open", TRUE)
  /\ UNCHANGED <<remote, handle, isready, eof, written_flag, stream_buf,
                 op, worker, acked>>
-----------------------------------------------------------------------------
(***************************************************************************)
(* ftpfs_write(offset, size). The branches are tried in the code's order. *)
(***************************************************************************)
WriteArgs(offset, size) ==
  /\ isOpen
  /\ offset + size <= MaxPos

\* The upload may be started by this write: fresh at offset 0 on a file
\* truncated or created by this handle, or resumed (APPE) at pos.
StartsUpload(offset) ==
  \/ pos = 0 /\ offset = 0 /\ (write_may_start \/ RemoteSize = 0)
  \/ pos > 0 /\ offset = pos

\* An earlier failure is latched in write_fail_cause.
WriteLatched(p, offset, size) ==
  /\ WriteArgs(offset, size) /\ write_fail_cause # "ok"
  /\ Call(p, "write", offset, size, "idle")
  /\ Return(p, "write", FALSE)
  /\ UNCHANGED <<remote, handle, shared, worker, acked>>

\* First write at offset 0 without a previous truncate: refused unless the
\* remote file is empty.
WriteStartRefused(p, offset, size) ==
  /\ WriteArgs(offset, size) /\ write_fail_cause = "ok"
  /\ ~write_conn /\ pos = 0 /\ offset = 0
  /\ ~write_may_start /\ RemoteSize # 0
  /\ Call(p, "write", offset, size, "idle")
  /\ Return(p, "write", FALSE)
  /\ UNCHANGED <<remote, handle, shared, worker, acked>>

WriteStartUpload(p, offset, size) ==
  /\ WriteArgs(offset, size) /\ write_fail_cause = "ok"
  /\ ~write_conn /\ StartsUpload(offset)
  /\ Call(p, "write", offset, size, "w_ready")
  /\ StartWriteThread("ok")
  /\ UNCHANGED <<remote, isOpen, pos, write_may_start, write_fail_cause,
                 stream_buf, acked, lastRet>>

\* start_write_thread() returned 0: the write returns EIO.
WriteStartFailed(p, offset, size) ==
  /\ WriteArgs(offset, size) /\ write_fail_cause = "ok"
  /\ ~write_conn /\ StartsUpload(offset)
  /\ \E o \in StartOutcomes \ {"ok"} :
        /\ Call(p, "write", offset, size, "idle")
        /\ StartWriteThread(o)
        /\ Return(p, "write", FALSE)
  /\ UNCHANGED <<remote, isOpen, pos, write_may_start, write_fail_cause,
                 stream_buf, acked>>

\* An upload is running: hand the bytes over.
WriteEnqueue(p, offset, size) ==
  /\ WriteArgs(offset, size) /\ write_fail_cause = "ok"
  /\ write_conn
  /\ Call(p, "write", offset, size, "w_need")
  /\ UNCHANGED <<remote, handle, shared, worker, acked, lastRet>>

\* No upload runs and none may start at this offset: no branch of
\* ftpfs_write applies and it returns size.
WriteIgnored(p, offset, size) ==
  /\ WriteArgs(offset, size) /\ write_fail_cause = "ok"
  /\ ~write_conn
  /\ ~(pos = 0 /\ offset = 0) /\ ~(pos > 0 /\ offset = pos)
  /\ Call(p, "write", offset, size, "idle")
  /\ Return(p, "write", TRUE)
  /\ acked' = acked \cup {offset + i : i \in 0..size - 1}
  /\ UNCHANGED <<remote, handle, shared, worker>>

\* sem_wait(ready); sem_post(data_need).
WReady(p) ==
  /\ ppc[p] = "w_ready" /\ sem["ready"] > 0
  /\ sem' = Up(Down(sem, "ready"), "data_need")
  /\ ppc' = [ppc EXCEPT ![p] = "w_need"]
  /\ UNCHANGED <<remote, handle, isready, eof, written_flag, stream_buf,
                 op, worker, acked, lastRet>>

\* sem_wait(data_need), then the sequential-offset test.
WNeed(p) ==
  /\ ppc[p] = "w_need" /\ sem["data_need"] > 0
  /\ sem' = Down(sem, "data_need")
  /\ ppc' = [ppc EXCEPT ![p] = IF op[p].offset = pos THEN "w_append" ELSE "w_nonseq"]
  /\ UNCHANGED <<remote, handle, isready, eof, written_flag, stream_buf,
                 op, worker, acked, lastRet>>

\* buf_add_mem(stream_buf); pos += size; sem_post(data_avail).
WAppend(p) ==
  /\ ppc[p] = "w_append"
  /\ stream_buf' = stream_buf \o Bytes(op[p].offset, op[p].size)
  /\ pos' = pos + op[p].size
  /\ sem' = Up(sem, "data_avail")
  /\ ppc' = [ppc EXCEPT ![p] = "w_written"]
  /\ UNCHANGED <<remote, isOpen, write_conn, write_may_start,
                 write_fail_cause, isready, eof, written_flag,
                 op, worker, acked, lastRet>>

\* buf_add_mem fails: give data_need back and return ENOMEM, with pos and
\* stream_buf unchanged and the upload left running.
WAppendNoMem(p) ==
  /\ AllocMayFail
  /\ ppc[p] = "w_append"
  /\ sem' = Up(sem, "data_need")
  /\ Return(p, "write", FALSE)
  /\ UNCHANGED <<remote, handle, isready, eof, written_flag, stream_buf,
                 op, worker, acked>>

\* Non-sequential write: sem_post(data_avail), then finish_write_thread().
WNonSeq(p) ==
  /\ ppc[p] = "w_nonseq"
  /\ sem' = Up(sem, "data_avail")
  /\ ppc' = [ppc EXCEPT ![p] = "fin_check"]
  /\ UNCHANGED <<remote, handle, isready, eof, written_flag, stream_buf,
                 op, worker, acked, lastRet>>

\* Fault model for TypeOK: finish_write_thread without its sem_wait.
FinNeedNoWait(p) ==
  /\ ppc[p] = "fin_need"
  /\ sem' = Down(sem, "data_need")
  /\ ppc' = [ppc EXCEPT ![p] = "fin_post"]
  /\ UNCHANGED <<remote, handle, isready, eof, written_flag, stream_buf,
                 op, worker, acked, lastRet>>

\* sem_wait(data_written); written_flag = 0; report a latched failure.
WWritten(p) ==
  /\ ppc[p] = "w_written" /\ sem["data_written"] > 0
  /\ sem' = Down(sem, "data_written")
  /\ written_flag' = FALSE
  /\ Return(p, "write", write_fail_cause = "ok")
  /\ acked' = IF write_fail_cause = "ok"
                THEN acked \cup {op[p].offset + i : i \in 0..op[p].size - 1}
                ELSE acked
  /\ UNCHANGED <<remote, handle, isready, eof, stream_buf, op, worker>>
-----------------------------------------------------------------------------
(***************************************************************************)
(* finish_write_thread(), called by a non-sequential write, by flush and  *)
(* by release (through ftpfs_flush); op[p].kind says which.              *)
(***************************************************************************)
\* Wait for data_need only while no failure is latched.
FinCheck(p) ==
  /\ ppc[p] = "fin_check"
  /\ ppc' = [ppc EXCEPT ![p] = IF write_fail_cause = "ok" THEN "fin_need"
                                                        ELSE "fin_post"]
  /\ UNCHANGED <<remote, handle, shared, op, worker, acked, lastRet>>

FinNeed(p) ==
  /\ ppc[p] = "fin_need" /\ sem["data_need"] > 0
  /\ sem' = Down(sem, "data_need")
  /\ ppc' = [ppc EXCEPT ![p] = "fin_post"]
  /\ UNCHANGED <<remote, handle, isready, eof, written_flag, stream_buf,
                 op, worker, acked, lastRet>>

\* sem_post(data_avail) comes before eof = 1 in the code.
FinPost(p) ==
  /\ ppc[p] = "fin_post"
  /\ sem' = Up(sem, "data_avail")
  /\ ppc' = [ppc EXCEPT ![p] = "fin_eof"]
  /\ UNCHANGED <<remote, handle, isready, eof, written_flag, stream_buf,
                 op, worker, acked, lastRet>>

FinEof(p) ==
  /\ ppc[p] = "fin_eof"
  /\ eof' = TRUE
  /\ ppc' = [ppc EXCEPT ![p] = "fin_join"]
  /\ UNCHANGED <<remote, handle, isready, written_flag, sem, stream_buf,
                 op, worker, acked, lastRet>>

\* pthread_join; curl_easy_cleanup; write_conn = NULL; sem_destroy, which
\* in glibc leaves a semaphore's count (and a thread blocked on it) alone
\* until the next sem_init.
Joined(p) ==
  /\ ppc[p] = "fin_join" /\ wpc = "dead"
  /\ wpc' = "none"
  /\ UNCHANGED <<curl_res, sent>>

\* The non-sequential write returns EIO.
FinJoinWrite(p) ==
  /\ Joined(p) /\ op[p].kind = "write"
  /\ write_conn' = FALSE
  /\ Return(p, "write", FALSE)
  /\ UNCHANGED <<remote, isOpen, pos, write_may_start, write_fail_cause,
                 isready, eof, written_flag, sem, stream_buf, op, acked>>

\* ftpfs_flush: EIO on a latched failure, otherwise compare the size from
\* ftpfs_getattr with pos; a mismatch latches -999.
FinJoinFlush(p) ==
  /\ Joined(p) /\ op[p].kind = "flush"
  /\ write_conn' = FALSE
  /\ LET healthy == write_fail_cause = "ok"
         sizeOk  == remote # NoFile /\ Len(remote) = pos
     IN /\ write_fail_cause' = IF healthy /\ remote # NoFile /\ ~sizeOk
                                 THEN "size" ELSE write_fail_cause
        /\ Return(p, "flush", healthy /\ sizeOk)
  /\ UNCHANGED <<remote, isOpen, pos, write_may_start,
                 isready, eof, written_flag, sem, stream_buf, op, acked>>

\* ftpfs_release ignores the result of its flush and frees the handle.
FinJoinRelease(p) ==
  /\ Joined(p) /\ op[p].kind = "release"
  /\ FreeHandle
  /\ Return(p, "release", TRUE)
  /\ UNCHANGED <<remote, op>>

FlushStart(p) ==
  /\ isOpen /\ write_conn
  /\ Call(p, "flush", 0, 0, "fin_check")
  /\ UNCHANGED <<remote, handle, shared, worker, acked, lastRet>>

\* No upload: fh->dirty is never set, so flush returns 0.
FlushNoUpload(p) ==
  /\ isOpen /\ ~write_conn
  /\ Call(p, "flush", 0, 0, "idle")
  /\ Return(p, "flush", TRUE)
  /\ UNCHANGED <<remote, handle, shared, worker, acked>>

ReleaseStart(p) ==
  /\ isOpen /\ write_conn
  /\ Call(p, "release", 0, 0, "fin_check")
  /\ UNCHANGED <<remote, handle, shared, worker, acked, lastRet>>

ReleaseNoUpload(p) ==
  /\ isOpen /\ ~write_conn
  /\ Call(p, "release", 0, 0, "idle")
  /\ FreeHandle
  /\ Return(p, "release", TRUE)
  /\ UNCHANGED <<remote, worker>>

\* ftpfs_ftruncate(0) before any byte was written: create_empty_file() on
\* the shared connection (it may fail with EPERM) and allow the upload.
FtruncateZero(p) ==
  /\ isOpen /\ pos = 0
  /\ Call(p, "ftruncate", 0, 0, "idle")
  /\ write_may_start' = TRUE
  /\ \E ok \in BOOLEAN :
        /\ remote' = IF ok THEN <<>> ELSE remote
        /\ acked' = IF ok THEN {} ELSE acked
        /\ Return(p, "ftruncate", ok)
  /\ UNCHANGED <<isOpen, pos, write_conn, write_fail_cause, shared, worker>>

\* Any other ftruncate changes nothing: it succeeds only when len is the
\* current remote size (the OpenOffice work-around), else EPERM.
FtruncateOther(p, len) ==
  /\ isOpen /\ (len # 0 \/ pos # 0)
  /\ Call(p, "ftruncate", len, 0, "idle")
  /\ Return(p, "ftruncate", len # 0 /\ RemoteSize = len)
  /\ UNCHANGED <<remote, handle, shared, worker, acked>>
-----------------------------------------------------------------------------
(***************************************************************************)
(* The worker: ftpfs_write_thread and the read callback write_data_bg.    *)
(***************************************************************************)
\* curl_easy_perform connects and sends STOR (which creates or empties the
\* file) or, when pos > 0, APPE; or fails before the first callback.
WorkerConnect ==
  /\ wpc = "connect"
  /\ \/ /\ remote' = IF pos = 0 THEN <<>> ELSE remote
        /\ wpc' = "cb"
        /\ UNCHANGED curl_res
     \/ /\ curl_res' = "fail"
        /\ wpc' = "exit_ready"
        /\ UNCHANGED remote
  /\ UNCHANGED <<handle, shared, ppc, op, sent, acked, lastRet>>

\* Fault model for StreamBufExclusive: write_data_bg without the
\* sem_wait(data_avail).
WorkerWaitAvailNoWait ==
  /\ wpc = "wait_avail"
  /\ wpc' = "cb_copy"
  /\ UNCHANGED <<remote, handle, shared, ppc, op, curl_res, sent,
                 acked, lastRet>>

\* Entry of write_data_bg: announce readiness once; if the previous chunk
\* was consumed completely, let the blocked ftpfs_write return.
WorkerCbEntry ==
  /\ wpc = "cb"
  /\ isready' = TRUE
  /\ sem' = LET s1 == IF isready THEN sem ELSE Up(sem, "ready")
            IN IF stream_buf = <<>> /\ written_flag
                 THEN Up(s1, "data_written") ELSE s1
  /\ wpc' = "wait_avail"
  /\ UNCHANGED <<remote, handle, eof, written_flag, stream_buf, ppc, op,
                 curl_res, sent, acked, lastRet>>

WorkerWaitAvail ==
  /\ wpc = "wait_avail" /\ sem["data_avail"] > 0
  /\ sem' = Down(sem, "data_avail")
  /\ wpc' = "cb_copy"
  /\ UNCHANGED <<remote, handle, isready, eof, written_flag, stream_buf,
                 ppc, op, curl_res, sent, acked, lastRet>>

\* eof is set: return 0, the end of the upload body.
WorkerEof ==
  /\ wpc = "cb_copy" /\ eof
  /\ wpc' = "ending"
  /\ UNCHANGED <<remote, handle, shared, ppc, op, curl_res, sent,
                 acked, lastRet>>

\* Fault model for UploadedIsWritten: the memmove of the unsent tail is
\* missing, so the front of stream_buf is sent again.
WorkerCopyPartNoShift(req) ==
  /\ wpc = "cb_copy" /\ ~eof
  /\ req < Len(stream_buf)
  /\ sent' = sent \o SubSeq(stream_buf, 1, req)
  /\ stream_buf' = SubSeq(stream_buf, 1, Len(stream_buf) - req)
  /\ sem' = Up(sem, "data_avail")
  /\ wpc' = "sending"
  /\ UNCHANGED <<remote, handle, isready, eof, written_flag, ppc, op,
                 curl_res, acked, lastRet>>

\* libcurl's buffer is smaller than stream_buf: copy req bytes, shift the
\* rest to the front and post data_avail to the worker itself.
WorkerCopyPart(req) ==
  /\ wpc = "cb_copy" /\ ~eof
  /\ req < Len(stream_buf)
  /\ sent' = sent \o SubSeq(stream_buf, 1, req)
  /\ stream_buf' = SubSeq(stream_buf, req + 1, Len(stream_buf))
  /\ sem' = Up(sem, "data_avail")
  /\ wpc' = "sending"
  /\ UNCHANGED <<remote, handle, isready, eof, written_flag, ppc, op,
                 curl_res, acked, lastRet>>

\* Fault model for ChannelRefined: the copy of the whole buffer does not
\* reset stream_buf's length, so its bytes are handed over again.
WorkerCopyAllNoClear(req) ==
  /\ wpc = "cb_copy" /\ ~eof
  /\ req >= Len(stream_buf)
  /\ sent' = sent \o stream_buf
  /\ written_flag' = TRUE
  /\ sem' = Up(sem, "data_need")
  /\ wpc' = IF stream_buf = <<>> THEN "ending" ELSE "sending"
  /\ UNCHANGED <<remote, handle, isready, eof, stream_buf, ppc, op, curl_res,
                 acked, lastRet>>

\* Copy all of stream_buf, set written_flag, post data_need. With an empty
\* stream_buf this returns 0, which also ends the upload.
WorkerCopyAll(req) ==
  /\ wpc = "cb_copy" /\ ~eof
  /\ req >= Len(stream_buf)
  /\ sent' = sent \o stream_buf
  /\ stream_buf' = <<>>
  /\ written_flag' = TRUE
  /\ sem' = Up(sem, "data_need")
  /\ wpc' = IF stream_buf = <<>> THEN "ending" ELSE "sending"
  /\ UNCHANGED <<remote, handle, isready, eof, ppc, op, curl_res,
                 acked, lastRet>>

\* A transfer that fails leaves some prefix of the bytes sent on the server.
FailTransfer ==
  /\ \E p \in Prefixes(sent) : remote' = remote \o p
  /\ curl_res' = "fail"
  /\ wpc' = "exit_ready"

\* libcurl sends the chunk and calls write_data_bg again, or fails.
WorkerSend ==
  /\ wpc = "sending"
  /\ \/ wpc' = "cb" /\ UNCHANGED <<remote, curl_res>>
     \/ FailTransfer
  /\ UNCHANGED <<handle, shared, ppc, op, sent, acked, lastRet>>

\* The body has ended: the server confirms the upload, or it fails.
WorkerEnd ==
  /\ wpc = "ending"
  /\ \/ /\ remote' = remote \o sent
        /\ wpc' = "exit_ready"
        /\ UNCHANGED curl_res
     \/ FailTransfer
  /\ UNCHANGED <<handle, shared, ppc, op, sent, acked, lastRet>>

\* After curl_easy_perform: post ready if no callback ever did.
WorkerExitReady ==
  /\ wpc = "exit_ready"
  /\ sem' = IF isready THEN sem ELSE Up(sem, "ready")
  /\ wpc' = "exit"
  /\ UNCHANGED <<remote, handle, isready, eof, written_flag, stream_buf,
                 ppc, op, curl_res, sent, acked, lastRet>>

\* Fault model for UpcallsReturn: a failed upload does not post data_need.
WorkerExitNoNeedPost ==
  /\ wpc = "exit"
  /\ write_fail_cause' = IF curl_res = "fail" THEN "curl" ELSE write_fail_cause
  /\ sem' = Up(sem, "data_written")
  /\ wpc' = "dead"
  /\ UNCHANGED <<remote, isOpen, pos, write_conn, write_may_start,
                 isready, eof, written_flag, stream_buf, ppc, op,
                 curl_res, sent, acked, lastRet>>

\* Latch a failure and post data_need; post data_written; the thread ends.
WorkerExit ==
  /\ wpc = "exit"
  /\ write_fail_cause' = IF curl_res = "fail" THEN "curl" ELSE write_fail_cause
  /\ sem' = LET s1 == IF curl_res = "fail" THEN Up(sem, "data_need") ELSE sem
            IN Up(s1, "data_written")
  /\ wpc' = "dead"
  /\ UNCHANGED <<remote, isOpen, pos, write_conn, write_may_start,
                 isready, eof, written_flag, stream_buf, ppc, op,
                 curl_res, sent, acked, lastRet>>
-----------------------------------------------------------------------------
Offsets == 0..MaxPos - 1

\* An upcall arriving from the kernel on FUSE thread p.
Upcall(p) ==
  \/ \E f \in OpenFlags :
        OpenRejected(p, f) \/ OpenStartUpload(p, f) \/ OpenStartFailed(p, f)
  \/ OpenDeferred(p)
  \/ \E o \in Offsets, s \in WriteSizes :
        \/ WriteLatched(p, o, s) \/ WriteStartRefused(p, o, s)
        \/ WriteStartUpload(p, o, s) \/ WriteStartFailed(p, o, s)
        \/ WriteEnqueue(p, o, s) \/ WriteIgnored(p, o, s)
  \/ FlushStart(p) \/ FlushNoUpload(p) \/ ReleaseStart(p) \/ ReleaseNoUpload(p)
  \/ FtruncateZero(p)
  \/ \E l \in TruncLens : FtruncateOther(p, l)

\* A step of producer p inside an upcall it is running.
ProducerStep(p) ==
  \/ OpenReady(p) \/ WReady(p) \/ WNeed(p) \/ WAppend(p) \/ WAppendNoMem(p) \/ WNonSeq(p)
  \/ WWritten(p)
  \/ FinCheck(p) \/ FinNeed(p) \/ FinPost(p) \/ FinEof(p)
  \/ FinJoinWrite(p) \/ FinJoinFlush(p) \/ FinJoinRelease(p)

WorkerStep ==
  \/ WorkerConnect \/ WorkerCbEntry \/ WorkerWaitAvail \/ WorkerEof
  \/ \E r \in ReqSizes : WorkerCopyPart(r) \/ WorkerCopyAll(r)
  \/ WorkerSend \/ WorkerEnd \/ WorkerExitReady \/ WorkerExit

Next == (\E p \in Producers : Upcall(p) \/ ProducerStep(p)) \/ WorkerStep

\* Both threads are scheduled by the OS, and libcurl's low-speed limit
\* (1 byte/s over 60 s) makes a stalled transfer fail: a thread that can
\* take a step eventually does. The caller is not obliged to call anything.
Fairness == (\A p \in Producers : WF_vars(ProducerStep(p))) /\ WF_vars(WorkerStep)

Spec == Init /\ [][Next]_vars /\ Fairness
-----------------------------------------------------------------------------
(***************************************************************************)
(* Properties.                                                             *)
(***************************************************************************)
Bytes0 == {OldByte} \cup (0..MaxPos - 1)
PPCs == {"idle", "open_ready", "w_ready", "w_need", "w_append", "w_nonseq",
         "w_written", "fin_check", "fin_need", "fin_post", "fin_eof",
         "fin_join"}
WPCs == {"none", "connect", "cb", "wait_avail", "cb_copy", "sending",
         "ending", "exit_ready", "exit", "dead"}

NoUpcall == \A p \in Producers : ppc[p] = "idle"

TypeOK ==
  /\ remote \in Seq(Bytes0) \cup {NoFile}
  /\ isOpen \in BOOLEAN /\ write_conn \in BOOLEAN
  /\ write_may_start \in BOOLEAN
  /\ pos \in 0..MaxPos
  /\ write_fail_cause \in {"ok", "curl", "size"}
  /\ isready \in BOOLEAN /\ eof \in BOOLEAN /\ written_flag \in BOOLEAN
  /\ sem \in [Sems -> Nat]
  /\ stream_buf \in Seq(0..MaxPos - 1)
  /\ ppc \in [Producers -> PPCs] /\ wpc \in WPCs
  /\ curl_res \in {"ok", "fail"}
  /\ sent \in Seq(0..MaxPos - 1)
  /\ acked \subseteq 0..MaxPos - 1

(* The hand-off of ftpfs_write and write_data_bg gives stream_buf to one  *)
(* thread at a time: the producer between receiving data_need and posting *)
(* data_avail (buf_add_mem), the worker between receiving data_avail and  *)
(* posting data_avail or data_need (memcpy/memmove). Both never hold it.  *)
StreamBufExclusive == ~(\E p \in Producers : ppc[p] = "w_append" /\ wpc = "cb_copy")

(* When no upload is running on an open, healthy handle and the producer  *)
(* is between upcalls, the server holds exactly the pos bytes the writes  *)
(* streamed, in order, once each: across self-pumped partial copies,      *)
(* resumed (APPE) uploads, non-sequential rejections and the eof race of  *)
(* finish_write_thread, whatever libcurl's buffer sizes.                  *)
UploadedIsWritten ==
  (isOpen /\ NoUpcall /\ ~write_conn /\ write_fail_cause = "ok" /\ pos > 0)
    => remote = Expected(pos)

(* Every upcall on the handle returns: no interleaving of the producer    *)
(* and the worker, and no libcurl failure, leaves the FUSE thread blocked  *)
(* on a semaphore or in pthread_join forever.                             *)
UpcallsReturn == \A p \in Producers : ppc[p] # "idle" ~> ppc[p] = "idle"

(* What a caller is promised: once flush has returned 0, every byte a     *)
(* write reported as written since the open (or the last truncate) is on  *)
(* the server at the offset it was written to.                            *)
AckedWritesDurable ==
  (NoUpcall /\ lastRet.kind = "flush" /\ lastRet.ok)
    => /\ remote # NoFile
       /\ \A o \in acked : o < Len(remote) /\ remote[o + 1] = o

(* The failure latch of the write path: once a write on the handle has    *)
(* returned an error (a libcurl failure, a non-sequential offset, a       *)
(* refused start), every later write on it returns an error until the     *)
(* handle is released, so no byte lands after a hole in the stream.       *)
WriteErrorsLatch ==
  (lastRet.kind = "write" /\ lastRet.ok) => ~lastRet.writeErr

(***************************************************************************)
(* Refinement: the hand-off implements the single-slot channel of         *)
(* StreamChannel. The slot is stream_buf, the bytes taken are what        *)
(* write_data_bg gave libcurl in this upload, a write is in flight while  *)
(* ftpfs_write waits on data_written, and the channel has failed while    *)
(* write_fail_cause is latched.                                           *)
(***************************************************************************)
Channel == INSTANCE StreamChannel
             WITH slot <- stream_buf, taken <- sent,
                  inflight <- (\E p \in Producers : ppc[p] = "w_written"),
                  failed <- (write_fail_cause # "ok"),
                  Chunks <- {Bytes(o, s) : o \in Offsets, s \in WriteSizes}

(* ftpfs_write, write_data_bg, finish_write_thread and free_ftpfs_file    *)
(* together behave as the single-slot channel: a write hands its bytes     *)
(* over only into an empty stream_buf, the callback passes them to libcurl *)
(* from the front in order and once each, a write reports success only     *)
(* once all its bytes were taken and no failure is latched, and a latched  *)
(* failure is only cleared when the handle is freed.                       *)
ChannelRefined == Channel!Spec
=============================================================================

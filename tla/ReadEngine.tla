----------------------------- MODULE ReadEngine -----------------------------
(***************************************************************************)
(* The read side of curlftpfs (src/ftpfs.c): read-only opens, their probe *)
(* and ftpfs_read, all served by ftpfs_read_chunk from a per-handle        *)
(* sliding window (fh->buf, fh->buf.begin_offset) that one download on the *)
(* single shared connection (ftpfs.connection, driven through ftpfs.multi) *)
(* fills. ftpfs.current_fh names the handle the download was started for. *)
(*                                                                         *)
(* Every step holds ftpfs.lock for its whole length, so each upcall is one *)
(* atomic action. Handles are heap addresses: an open may get any address *)
(* that is not in use, among them one that was just freed. A byte of file *)
(* f at offset o is the pair <<f, o>>, so a byte of the wrong file or the  *)
(* wrong offset is visible. The network is a nondeterministic choice of   *)
(* how many bytes a curl_multi_perform delivers and how the transfer ends. *)
(***************************************************************************)
EXTENDS Integers, Sequences

CONSTANTS
  Handles,        \* addresses an ftpfs_file may be allocated at
  Files,          \* remote files
  FileLen,        \* FileLen[f]: the length of file f
  MaxBufferLen,   \* MAX_BUFFER_LEN (300 KiB in the code), scaled down
  ReadSizes,      \* sizes of read upcalls
  MaxOffset,      \* bound: read offsets range over 0..MaxOffset
  SelectMayFail,  \* whether select() in the pump loop may return -1
  NULL            \* model value

ASSUME /\ FileLen \in [Files -> Nat]
       /\ MaxBufferLen \in Nat
       /\ ReadSizes \subseteq Nat \ {0}
       /\ MaxOffset \in Nat
       /\ SelectMayFail \in BOOLEAN
       /\ NULL \notin Handles \cup Files

\* The contents of file f.
Content(f) == [i \in 1..FileLen[f] |-> <<f, i - 1>>]

VARIABLES
  alloc,             \* alloc[h]: an ftpfs_file lives at address h
  path,              \* path[h]: the file it was opened on
  can_shrink,        \* fh->can_shrink
  buf,               \* fh->buf: the bytes of the window
  begin_offset,      \* fh->buf.begin_offset
  current_fh,        \* ftpfs.current_fh
  attached_to_multi, \* ftpfs.attached_to_multi
  xfer,              \* the download on ftpfs.connection: the file, the next
                     \* offset it delivers, the buffer it writes to
                     \* (CURLOPT_WRITEDATA) and its status
  lastRead           \* history: the result of the last read_chunk

vars == <<alloc, path, can_shrink, buf, begin_offset, current_fh,
          attached_to_multi, xfer, lastRead>>

NoTransfer == [file |-> NULL, next |-> 0, target |-> NULL, status |-> "none"]

\* check_running(): the multi handle still has a running transfer.
Running == attached_to_multi /\ xfer.status = "running"

Init ==
  /\ alloc = [h \in Handles |-> FALSE]
  /\ path = [h \in Handles |-> NULL]
  /\ can_shrink = [h \in Handles |-> FALSE]
  /\ buf = [h \in Handles |-> <<>>]
  /\ begin_offset = [h \in Handles |-> 0]
  /\ current_fh = NULL
  /\ attached_to_multi = FALSE
  /\ xfer = NoTransfer
  /\ lastRead = [kind |-> "none", file |-> NULL, offset |-> 0, size |-> 0,
                 data |-> <<>>, ok |-> TRUE]
-----------------------------------------------------------------------------
(***************************************************************************)
(* ftpfs_read_chunk, in pieces.                                            *)
(***************************************************************************)
\* Fault model for Cached: the size test is lost, so a window that holds
\* the start of the request but not all of it answers from cache.
CachedNoSizeCheck(b, bo, size, offset) ==
  ~ \/ offset < bo
    \/ offset > bo + Len(b)

\* The window [bo, bo + Len(b)) answers the request without the network.
Cached(b, bo, size, offset) ==
  ~ \/ Len(b) < size + offset - bo
    \/ offset < bo
    \/ offset > bo + Len(b)

\* Why the download must be restarted at offset: another handle used the
\* connection last, the offset lies outside the window, or the transfer
\* has stopped.
NeedsRestart(h, b, bo, offset) ==
  \/ current_fh # h
  \/ offset < bo
  \/ offset > bo + Len(b)
  \/ ~Running

\* What the pump loop (curl_multi_perform, select with a 1 s timeout) and
\* the curl_multi_info_read check can end with, for a transfer x and a
\* window of len bytes that needs need bytes: k more bytes delivered, the
\* transfer's status, and err. A range start past the end of the file is
\* refused by the server. A transfer that is not running delivers nothing,
\* and curl_multi_info_read finds no message for it.
PumpOutcomes(x, len, need) ==
  LET rem == FileLen[x.file] - x.next
      Out(k, st, err) == [k |-> k, status |-> st, err |-> err]
  IN IF x.status # "running" THEN {Out(0, x.status, TRUE)}
     ELSE IF rem < 0 THEN {Out(0, "done_err", TRUE)}
     ELSE {Out(k, "running", FALSE) : k \in {j \in 0..rem : len + j >= need}}
          \cup {Out(rem, "done_ok", FALSE)}
          \cup {Out(k, "done_err", TRUE) : k \in 0..rem}
          \cup {Out(k, "running", TRUE) :
                  k \in IF SelectMayFail
                          THEN {j \in 0..rem : len + j < need} ELSE {}}

\* Fault model for Serve: the shrink moves the window start by the
\* requested size instead of the size actually served.
ServeShrinkUnclamped(h, f, b, bo, shrinkable, size, offset, err, kind) ==
  LET toCopy == Len(b) + bo - offset
      n == IF size > toCopy THEN toCopy ELSE size
      shrink == shrinkable /\ Len(b) > MaxBufferLen
  IN /\ buf' = [buf EXCEPT ![h] =
                  IF shrink THEN SubSeq(b, offset - bo + n + 1, Len(b)) ELSE b]
     /\ begin_offset' = [begin_offset EXCEPT ![h] =
                           IF shrink THEN offset + size ELSE bo]
     /\ lastRead' = [kind |-> kind, file |-> f, offset |-> offset,
                     size |-> size, ok |-> ~err,
                     data |-> SubSeq(b, offset - bo + 1, offset - bo + n)]

\* Fault model for Serve: the memmove of the shrink takes its source from
\* the start of the buffer instead of just after the bytes served.
ServeShrinkFromStart(h, f, b, bo, shrinkable, size, offset, err, kind) ==
  LET toCopy == Len(b) + bo - offset
      n == IF size > toCopy THEN toCopy ELSE size
      shrink == shrinkable /\ Len(b) > MaxBufferLen
  IN /\ buf' = [buf EXCEPT ![h] =
                  IF shrink THEN SubSeq(b, 1, toCopy - n) ELSE b]
     /\ begin_offset' = [begin_offset EXCEPT ![h] =
                           IF shrink THEN offset + n ELSE bo]
     /\ lastRead' = [kind |-> kind, file |-> f, offset |-> offset,
                     size |-> size, ok |-> ~err,
                     data |-> SubSeq(b, offset - bo + 1, offset - bo + n)]

\* Copy min(size, to_copy) bytes out of the window b starting at bo; then,
\* if the window is over MAX_BUFFER_LEN on a shrinkable handle, keep only
\* the bytes after the ones served.
Serve(h, f, b, bo, shrinkable, size, offset, err, kind) ==
  LET toCopy == Len(b) + bo - offset
      n == IF size > toCopy THEN toCopy ELSE size
      shrink == shrinkable /\ Len(b) > MaxBufferLen
  IN /\ buf' = [buf EXCEPT ![h] =
                  IF shrink THEN SubSeq(b, offset - bo + n + 1, Len(b)) ELSE b]
     /\ begin_offset' = [begin_offset EXCEPT ![h] =
                           IF shrink THEN offset + n ELSE bo]
     /\ lastRead' = [kind |-> kind, file |-> f, offset |-> offset,
                     size |-> size, ok |-> ~err,
                     data |-> SubSeq(b, offset - bo + 1, offset - bo + n)]

\* ftpfs_read_chunk(full_path of f, size, offset) for the handle at h whose
\* window is b at bo. On a restart the window is cleared, h becomes
\* current_fh, the previous transfer is detached and a new one for f is
\* attached with CURLOPT_RANGE "offset-".
ReadChunk(h, f, b, bo, shrinkable, size, offset, kind) ==
  \/ /\ Cached(b, bo, size, offset)
     /\ Serve(h, f, b, bo, shrinkable, size, offset, FALSE, kind)
     /\ UNCHANGED <<current_fh, attached_to_multi, xfer>>
  \/ /\ ~Cached(b, bo, size, offset)
     /\ LET restart == NeedsRestart(h, b, bo, offset)
            x0  == IF restart
                     THEN [file |-> f, next |-> offset, target |-> h,
                           status |-> "running"]
                     ELSE xfer
            b0  == IF restart THEN <<>> ELSE b
            bo0 == IF restart THEN offset ELSE bo
        IN \E r \in PumpOutcomes(x0, Len(b0), size + offset - bo0) :
             LET b1 == b0 \o [i \in 1..r.k |-> <<x0.file, x0.next + i - 1>>]
             IN /\ xfer' = [x0 EXCEPT !.next = @ + r.k, !.status = r.status]
                /\ attached_to_multi' = TRUE
                /\ current_fh' = h
                /\ Serve(h, f, b1, bo0, shrinkable, size, offset, r.err, kind)
-----------------------------------------------------------------------------
(***************************************************************************)
(* Upcalls.                                                                *)
(***************************************************************************)
\* ftpfs_open_common, O_RDONLY without O_CREAT: a zeroed ftpfs_file at a
\* free address, can_shrink = 1, and a probe ftpfs_read_chunk(size 1,
\* offset 0). A failed probe returns EACCES and frees the handle; it does
\* not touch ftpfs.current_fh.
OpenRead(h, f) ==
  /\ ~alloc[h]
  /\ path' = [path EXCEPT ![h] = f]
  /\ can_shrink' = [can_shrink EXCEPT ![h] = TRUE]
  /\ ReadChunk(h, f, <<>>, 0, TRUE, 1, 0, "probe")
  /\ alloc' = [alloc EXCEPT ![h] = lastRead'.ok]

\* ftpfs_read: no bytes were written on a read-only handle, so it calls
\* ftpfs_read_chunk with update_offset set.
Read(h, size, offset) ==
  /\ alloc[h]
  /\ ReadChunk(h, path[h], buf[h], begin_offset[h], can_shrink[h],
               size, offset, "read")
  /\ UNCHANGED <<alloc, path, can_shrink>>

\* ftpfs_release: the flush has nothing to do; under the lock current_fh is
\* cleared if it is this handle; free_ftpfs_file. The transfer stays
\* attached.
Release(h) ==
  /\ alloc[h]
  /\ current_fh' = IF current_fh = h THEN NULL ELSE current_fh
  /\ alloc' = [alloc EXCEPT ![h] = FALSE]
  /\ buf' = [buf EXCEPT ![h] = <<>>]
  /\ begin_offset' = [begin_offset EXCEPT ![h] = 0]
  /\ UNCHANGED <<path, can_shrink, attached_to_multi, xfer, lastRead>>

\* Any other user of the shared connection (getattr, getdir, readlink, the
\* commands of ftpfs_do_cmd, create_empty_file) calls cancel_previous_multi
\* before its curl_easy_perform.
SharedConnOp ==
  /\ attached_to_multi
  /\ attached_to_multi' = FALSE
  /\ xfer' = NoTransfer
  /\ UNCHANGED <<alloc, path, can_shrink, buf, begin_offset, current_fh,
                 lastRead>>

Next ==
  \/ \E h \in Handles, f \in Files : OpenRead(h, f)
  \/ \E h \in Handles, s \in ReadSizes, o \in 0..MaxOffset : Read(h, s, o)
  \/ \E h \in Handles : Release(h)
  \/ SharedConnOp

Spec == Init /\ [][Next]_vars
-----------------------------------------------------------------------------
(***************************************************************************)
(* Properties.                                                             *)
(***************************************************************************)
Byte == {<<f, o>> : f \in Files, o \in 0..MaxOffset}

TypeOK ==
  /\ alloc \in [Handles -> BOOLEAN]
  /\ path \in [Handles -> Files \cup {NULL}]
  /\ can_shrink \in [Handles -> BOOLEAN]
  /\ \A h \in Handles : buf[h] \in Seq(Byte)
  /\ begin_offset \in [Handles -> 0..MaxOffset]
  /\ current_fh \in Handles \cup {NULL}
  /\ attached_to_multi \in BOOLEAN
  /\ xfer.status \in {"none", "running", "done_ok", "done_err"}

\* The window of every open handle (fh->buf from fh->buf.begin_offset)
\* holds exactly the bytes of its own file at those offsets, across the
\* restarts, continuations, shrinks and foreign uses of the shared
\* connection in ftpfs_read_chunk.
WindowFaithful ==
  \A h \in Handles :
    alloc[h] =>
      \A i \in 1..Len(buf[h]) :
        buf[h][i] = <<path[h], begin_offset[h] + i - 1>>

\* A successful ftpfs_read returns the bytes of the handle's file from
\* offset on, and fewer than size only at the end of the file: a short read
\* in the middle of a file would be taken for end of file by the caller.
ReadReturnsFileBytes ==
  (lastRead.kind = "read" /\ lastRead.ok) =>
    LET f == lastRead.file
        last == IF lastRead.offset + lastRead.size > FileLen[f]
                  THEN FileLen[f] ELSE lastRead.offset + lastRead.size
    IN lastRead.data = SubSeq(Content(f), lastRead.offset + 1, last)
=============================================================================

# TLA+ models of curlftpfs

The program is `src/ftpfs.c`: a FUSE filesystem that serves an FTP server through libcurl.
This directory holds TLA+ models of its concurrent parts and the TLC runs that check them.
`PROJECT.json` lists:

- the components,
- the runs,
- the mutants,
- the map from each TLA+ definition to the source lines it models,
- the findings,
- the hazards.

## The system

| Part | Code | State | Interacts with |
|---|---|---|---|
| Write pipeline | `ftpfs_write`, `write_data_bg`, `ftpfs_write_thread`, `start_write_thread`, `finish_write_thread`, `ftpfs_flush`, `ftpfs_release`, `ftpfs_ftruncate`, the write branches of `ftpfs_open_common` | per handle: `stream_buf`, `pos`, `write_conn`, `write_fail_cause`, `write_may_start`, `isready`, `eof`, `written_flag`, the semaphores `ready`, `data_avail`, `data_need`, `data_written` | the FUSE thread running the upcalls (producer) and one worker thread per upload. They hand over bytes through `stream_buf` and the four semaphores. |
| Read engine | `ftpfs_read_chunk`, `ftpfs_read`, the read-only branch of `ftpfs_open_common`, `check_running` | per handle: window `buf` at `buf.begin_offset`, `can_shrink`. Global: `ftpfs.current_fh`, `ftpfs.attached_to_multi`, the download on `ftpfs.connection` | every other user of the single shared connection |
| Shared-connection guard | `ftpfs.lock`, `cancel_previous_multi` | the lock; the attachment of the connection to `ftpfs.multi` | getattr, getdir, readlink, `ftpfs_do_cmd` commands and `create_empty_file` detach a running download |
| File-handle registry | `ftpfs_open_common`, `free_ftpfs_file`, `ftpfs_release` | the heap addresses of `struct ftpfs_file`. `current_fh` compares them. | both pipelines |
| Metadata operations | `ftpfs_mknod`, `ftpfs_mkdir`, `ftpfs_chmod`, `ftpfs_chown`, `ftpfs_rmdir`, `ftpfs_unlink`, `ftpfs_rename`, `ftpfs_truncate`, `ftpfs_utime`, `ftpfs_getattr`, `ftpfs_readlink`, `ftpfs_getdir`, `ftpfs_do_cmd`, `create_empty_file` | none in the process: the directory on the server | every other upcall, through `ftpfs.lock` |
| Listing parser, options, statfs | `parse_dir`, option handling, `ftpfs_statfs` | none | not modelled (see below) |

### The hard behaviours

- **Write pipeline.** The two threads interleave at every semaphore.
  - libcurl may ask for fewer bytes than a write brought. The callback then re-posts `data_avail` to itself.
  - `finish_write_thread` posts `data_avail` before it sets `eof`.
  - A transfer can fail at connect, mid-body or at the end, and leaves a prefix of the body on the server.
  - A flush ends the upload. A later write resumes it with APPE.
  - `pthread_create` or `curl_easy_init` can fail.
  - `buf_add_mem` can fail with ENOMEM. The write then gives `data_need` back and returns while the upload keeps running.
- **Read engine.** One download serves whichever handle read last.
  - Any other use of the connection detaches it.
  - The window shrinks past `MAX_BUFFER_LEN`.
  - `select()` can fail in the pump.
  - Freed handles leave their address behind: malloc reuses it, and `current_fh` compares addresses.

## Modules

### `WritePipeline.tla` (with `MC_WritePipeline.tla`)

This module models one handle with its producers and its worker interleaved.

- `Producers` is the set of FUSE threads that run upcalls on the handle. `ppc[p]` is producer `p`'s position inside an upcall, and `op[p]` is the upcall it runs.
- `MayOverlap` gives the kernel's rule for when two upcalls may run on the handle at once. Write and ftruncate run under the inode lock. Open and release run alone. A flush comes from `close()` of one of several descriptors of the open file, holds no lock, and may run beside a write or an ftruncate.
- `wpc` is the worker's position in `ftpfs_write_thread` and `write_data_bg`.
- The upcall actions follow the code's branches in order: `OpenRejected`, `OpenDeferred`, `OpenStartUpload`, `OpenStartFailed`, `WriteLatched`, `WriteStartRefused`, `WriteStartUpload`, `WriteStartFailed`, `WriteEnqueue`, `WriteIgnored`, `FlushStart`, `FlushNoUpload`, `ReleaseStart`, `ReleaseNoUpload`, `FtruncateZero` and `FtruncateOther`.
- The producer's steps are `WReady`, `WNeed`, `WAppend`, `WAppendNoMem` (ENOMEM, when `AllocMayFail`), `WNonSeq`, `WWritten`, the `Fin*` steps of `finish_write_thread` and the three `FinJoin*` endings.
- `sem_destroy` in `finish_write_thread` is modelled as glibc implements it: it leaves the count alone until the next `sem_init`. POSIX leaves it undefined while a thread waits.
- The worker's steps are `WorkerConnect` (STOR or APPE), `WorkerCbEntry`, `WorkerWaitAvail`, `WorkerEof`, `WorkerCopyPart`, `WorkerCopyAll`, `WorkerSend`, `WorkerEnd`, `WorkerExitReady` and `WorkerExit`.

Data is abstracted to positions: the byte written at offset `o` is `o`, and a byte the file held before is `-1`. The server is the sequence `remote`. Two history variables record what callers were told:

- `acked` holds the offsets of bytes a write reported written.
- `lastRet` holds the last upcall's result, plus whether a write has failed since the open.

### `StreamChannel.tla`: the abstract hand-off

This module is what the upload hand-off promises, with no threads or semaphores: the single-slot channel of spec §9.

- `Put(d)`: a write hands over a chunk, only into an empty slot.
- `Take(k)`: the upload takes the first `k` bytes of the slot.
- `Ack`: the write returns success once the slot is empty and no failure is latched.
- `Nack`: the write returns an error once a failure is latched.
- `Fail`: a failure is latched.
- `NewUpload`: a new upload starts with nothing taken.
- `Discard`: the handle is freed, which empties the slot and clears the latch.

`WritePipeline` instantiates it as `Channel` with this refinement mapping:

| Abstract | Concrete |
|---|---|
| `slot` | `stream_buf` |
| `taken` | `sent` |
| `inflight` | `\E p \in Producers : ppc[p] = "w_written"` |
| `failed` | `write_fail_cause # "ok"` |

`ChannelRefined == Channel!Spec` is checked as a temporal property. Every producer and worker step is then either a step of the channel or a stutter.

### `Namespace.tla` (with `MC_Namespace.tla`)

This module models the metadata upcalls on two FUSE threads against one FTP server. The server is `ns`, a map from names in one directory to entry records (type, mode, uid, gid, size, and whether a directory has entries in it). It answers as RFC 959 says:

- MKD needs a free name.
- RMD needs an empty directory.
- DELE needs a file.
- RNFR needs an existing name. RNTO needs a free name, or a file that a file replaces.
- A zero-byte STOR (`create_empty_file`) creates or empties a file.
- SITE CHMOD, SITE CHUID and SITE CHGID are extensions. A server may refuse those listed in `Refusals`.

Each `ftpfs_do_cmd` and `create_empty_file` holds `ftpfs.lock` for the whole exchange, so each is one action.

- `ftpfs_mkdir` is two actions: `MkdirMkd` and `MkdirChmod`.
- `ftpfs_mknod` is two actions: `MknodCreate` and `MknodChmod`. `MknodNotReg` covers the S_IFREG check.
- `OpenCreateRO` is the read-only create of `ftpfs_open_common`, which calls `ftpfs_mknod`.
- A write-only create of `ftpfs_open_common` (O_CREAT, with or without O_EXCL) takes three steps:
  - `OpenWExists` or `OpenWStart`: the O_EXCL `test_exists()`, then the start of the upload;
  - `OpenWStor`: the upload's STOR, which creates the file or empties the one there now;
  - `OpenWChmod`: SITE CHMOD and the return.
  The STOR runs on the handle's own connection, after the existence test's lock section has ended.
- The lock is released between the two actions of mkdir and mknod. Within one mount the kernel holds the parent directory's lock across mkdir, mknod and create, so a second thread touching the same name stands for another client of the server.
- `Chmod`, `Chown` (two post-quote commands, where libcurl stops at the first refusal), `Rmdir`, `Unlink`, `Rename` (RNFR and RNTO in one session), `Truncate` (a zero-byte STOR for length 0, otherwise `test_size`), `Utime`, `Getattr`, `Readlink` and `Getdir` are one action each. `Readlink` returns 0 when the listing shows the name and -ENOENT otherwise (a failed LIST is only logged); `Getdir` returns -EIO when the LIST fails.
- `PermBits` is the mode arithmetic of `ftpfs_chmod`. `IsReg` is the S_IFMT test of `ftpfs_mknod`.

Two history variables record what callers were told:

- `ret[t]` holds the last return of thread `t`: whether it succeeded and whether it changed the server.
- `clobbered` records that an O_EXCL create returned 0 even though its STOR replaced an entry that was there.

### `ReadEngine.tla` (with `MC_ReadEngine.tla`)

Every upcall holds `ftpfs.lock` throughout, so each one is a single action:

- `OpenRead` (with its probe read),
- `Read`,
- `Release`,
- `SharedConnOp`: any other user of the connection, which calls `cancel_previous_multi`.

`ReadChunk` is `ftpfs_read_chunk`, built from these operators:

| Operator | What it models | Lines |
|---|---|---|
| `Cached` | the cache test | 228-230 |
| `NeedsRestart` | the restart test | 232-235 |
| `PumpOutcomes` | what the pump loop and the completion-message check can end with: a number of delivered bytes, the transfer's status and `err` | 265-311 |
| `Serve` | the copy and the shrink | 314-333 |

Handles are heap addresses, given as model values. An open takes any free address, so a freed address can come back. A byte of file `f` at offset `o` is the pair `<<f, o>>`.

## Runs

Every run uses `SPECIFICATION Spec`.

| Run (cfg) | Expect | Checks | What it shows |
|---|---|---|---|
| `WritePipeline.cfg` | pass (373,331 states) | `TypeOK`, `StreamBufExclusive`, `UploadedIsWritten`, `ChannelRefined`, deadlock | The hand-off never lets both threads touch `stream_buf`. A healthy handle's server file holds exactly the bytes streamed, across partial copies, the eof race, APPE resumes, ENOMEM and failures. The hand-off implements the single-slot channel of `StreamChannel`. |
| `WritePipeline_live.cfg` | pass (373,331 states) | `UpcallsReturn` | Every upcall returns under fair scheduling when thread creation succeeds, including after an ENOMEM write. |
| `WritePipeline_acked.cfg` | violation | `AckedWritesDurable` | A write at an offset that neither starts nor resumes an upload returns success and drops its bytes (`ftpfs_write` falls through to `return size`, line 1061). |
| `WritePipeline_hang.cfg` | violation | `UpcallsReturn` | After `pthread_create` fails, `write_conn` stays set with no worker, and the next write blocks in `sem_wait(data_need)`. |
| `WritePipeline_race.cfg` | violation | `ChannelRefined` | With two FUSE threads, a flush runs beside a write. The flush posts `data_avail` before it sets `eof`, so the worker ends the upload with an empty copy that also posts `data_need`. The waiting write takes it, appends its bytes to `stream_buf` and is acknowledged by the exiting worker's `data_written`. Its bytes are never sent. Only the flush's size check reports EIO afterwards. |
| `WritePipeline_latch.cfg` | violation | `WriteErrorsLatch` | Start failures and non-sequential writes return EIO without latching `write_fail_cause`, so a later write succeeds. Spec §9 says failures latch. |
| `ReadEngine.cfg` | pass (18,023 states) | `TypeOK`, `WindowFaithful`, `ReadReturnsFileBytes`, deadlock | With a reliable `select()`, windows hold their own file's bytes. Reads return the file's bytes, and are short only at end of file. This holds across restarts, shrinks, server errors and foreign uses of the connection. |
| `ReadEngine_select.cfg` | violation | `ReadReturnsFileBytes` | A `select()` failure in a probe leaves the download running for a freed address. A new handle on another file at that address continues it and reads the wrong file. |
| `Namespace.cfg` | pass (2,449,012 states) | `TypeOK`, deadlock | On two threads, with a server that may refuse SITE CHMOD and SITE CHGID, every metadata upcall keeps the directory well formed and sends modes within 07777 (the `& 07777` of `ftpfs_mknod`'s caller and the arithmetic of `ftpfs_chmod`). It also fires every `Namespace` action. |
| `Namespace_excl.cfg` | violation | `ExclusiveCreate` | Thread 1's open(O_CREAT\|O_EXCL) finds the name free. Thread 2, standing for another client of the server, renames the old file onto it. Thread 1's upload STOR then empties that file, and the open returns 0. |
| `Namespace_chown.cfg` | violation | `ErrorMeansNoChange` | A refused SITE CHGID makes chown return EPERM after SITE CHUID changed the uid. |

Each property of a passing run has a mutant in `PROJECT.json`: an operator placed just before the definition it replaces, with a "Fault model" comment. Under that run's cfg, TLC finds the property violated when the mutant replaces the original.

### Bounds and why they are enough

**Write pipeline.**

- One producer, except in `WritePipeline_race.cfg`. That run has two producers, which is the fewest that can run a flush beside a write.
- In the passing runs: `MaxPos = 4`, writes of 1, 2 or 3 bytes, and libcurl requests of 1 or 2 bytes. Together these give every mix of a chunk larger than, equal to and smaller than the request. A 3-byte chunk is split into up to three copies. There can be a second write, a resume after a flush, and a failure at any byte. The violation runs keep `MaxPos = 3` and writes of 1 or 2 bytes, which are enough for their counterexamples.
- `AllocMayFail = TRUE` lets every append fail with ENOMEM in the passing runs. The violation runs set it to FALSE so that their counterexamples stay about their own finding.
- The initial remote file is missing, empty or holds one old byte. This distinguishes STOR's truncation from APPE.
- `TruncLens = {0, 1}` covers ftruncate to zero and to the current size.

**Read engine.**

- Two handles, so that address reuse and ownership changes happen.
- Two files of lengths 4 and 2. A wrong-file byte or a short read is therefore visible.
- `MAX_BUFFER_LEN` is scaled down to 1, so the shrink happens on most reads.
- Reads of 1, 2 or 3 bytes at offsets up to 4. These include reads past the end of both files, and reads that straddle the end of the shorter one.
- A third handle took TLC 9 minutes (393,738 states) and adds no case: address reuse already needs only two.

**Namespace.**

- Two threads, the fewest that can interleave two upcalls. The threads are symmetric.
- Two names, so that rename has a source and a target.
- The directory starts with an old file of size 1, plus either a free name or a directory that has entries in it, so that RMD can fail.
- One mode per operation, each different from the server's defaults (0755 for directories, 0644 for files). A mode that was not applied is therefore visible.
- One chown id, which differs from the session's. An owner change is therefore visible.
- Truncate lengths 0 and 1. Length 1 matches the old file's size and no other file's.

### Fairness

`(\A p \in Producers : WF_vars(ProducerStep(p))) /\ WF_vars(WorkerStep)`. Every producer and the worker are OS threads, so each of them is fair on its own. The worker's connection sets `CURLOPT_LOW_SPEED_LIMIT 1` / `CURLOPT_LOW_SPEED_TIME 60` (lines 396-397), so a stalled transfer ends in an error rather than blocking forever. The upcalls themselves are not fair: no caller is obliged to call anything.

The liveness runs use `CHECK_DEADLOCK FALSE` because a hang shows up as a state with no successor, and the temporal property is what reports it. Deadlock freedom is checked in `WritePipeline.cfg`.

## Not modelled

- **readlink and getdir.** They change nothing; `Namespace` has them as actions that return what the listing shows. The parsing itself is left out (below). Their effect on the download is `cancel_previous_multi`, which is `SharedConnOp` in `ReadEngine`.
- **Subdirectories in `Namespace`.** A directory's contents are only the flag `full`. Paths are names in one directory, because `ftpfs_do_cmd` changes to the directory and sends only the file name, and rename sends both paths from the root.
- **File contents changed by other handles.** Files in `ReadEngine` are immutable, and `create_empty_file` does not change them.
- **Parsing and other state-free code.** The listing parser, the directory cache, option parsing, charset conversion and `statfs` hold no concurrent state.
- **The `CURLFTPFS_O_RW_WORKAROUND` build.** It is not modelled. `buf_add_mem` ENOMEM on the write path is modelled (`WAppendNoMem`). On the read path its callers, such as `read_data`, only make a transfer fail.
- **`last_offset`.** It is written but never read.
- **Two flushes on one handle at once.** `close()` on two descriptors of one open file can run two flushes together. Both can reach `pthread_join` on the same thread, which is undefined behaviour. Only a write or an ftruncate beside a flush is modelled.
- **The mode a create ends with.** mkdir and mknod ignore the result of their SITE CHMOD; the XXX comment in `ftpfs_mkdir` accepts a mkdir that succeeds without its mode. `Namespace` models the refusal and the ignored result, and no property demands the mode. A rename of the new entry between MKD and SITE CHMOD cannot come from this mount, because the kernel holds the parent directory's lock across mkdir.
- **What a successful upcall did.** Each one-exchange upcall's return value is the server's answer at that same step, so a property relating the two would hold by construction; none is checked.
- **`truncate(path, 0)` on a name removed since the kernel's lookup.** The model lets it happen, and `create_empty_file` re-creates the file. No property forbids this, because spec §4 defines truncate to zero as a create.

## Plan for further work

1. A composition of write handles and read handles over the shared-connection lock. This covers `create_empty_file` and `ftruncate(0)` racing a download of the same file.
2. Liveness with two producers. This needs a model of the undefined double `pthread_join` that two concurrent `finish_write_thread` calls can reach. Under weak fairness alone it also fails for a reason outside the code: a second thread whose writes keep failing with ENOMEM takes and re-posts `data_need` each time, so a waiting flush is never continuously enabled. glibc's semaphores give no fairness that would exclude this.

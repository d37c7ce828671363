------------------------------ MODULE Namespace ------------------------------
(***************************************************************************)
(* The metadata upcalls of curlftpfs (src/ftpfs.c) run concurrently on    *)
(* the threads of the FUSE loop against one FTP server.                    *)
(*                                                                         *)
(* Each upcall talks to the server through ftpfs_do_cmd or                *)
(* create_empty_file, and each of those holds ftpfs.lock for the whole    *)
(* exchange, so one exchange is one atomic action here. ftpfs_mkdir and   *)
(* ftpfs_mknod make two exchanges (create, then SITE CHMOD) and release   *)
(* the lock in between: another thread may run between them.              *)
(*                                                                         *)
(* The server is the map ns from names (in one directory) to entries. It  *)
(* answers as an RFC 959 server does: MKD needs a free name, RMD an empty *)
(* directory, DELE a file, RNFR an existing name and RNTO a free name or  *)
(* a file to replace; a zero-byte STOR creates or empties a file. SITE    *)
(* commands are extensions a server may refuse (Refusals). libcurl stops  *)
(* at the first post-quote command that fails.                            *)
(***************************************************************************)
EXTENDS Integers

CONSTANTS
  Threads,       \* the FUSE threads running upcalls
  Names,         \* the names the upcalls use
  Ids,           \* uids and gids an entry may have
  ChownIds,      \* uids and gids passed to chown
  SessionId,     \* the uid and gid the server gives new entries
  DirDefault,    \* the permission bits the server gives a new directory
  FileDefault,   \* the permission bits the server gives a new file
  MkdirModes,    \* modes passed to mkdir
  MknodModes,    \* modes passed to mknod and read-only create (with S_IFMT bits)
  CreateModes,   \* modes passed to a write-only create
  ChmodModes,    \* modes passed to chmod
  TruncLens,     \* lengths passed to truncate
  MaxSize,       \* bound on the size of a file
  InitNs,        \* possible contents of the directory at start
  Refusals,      \* SITE commands the server may refuse: "chmod", "chuid", "chgid"
  Absent         \* model value: no entry of that name

ASSUME /\ SessionId \in Ids /\ ChownIds \subseteq Ids
       /\ Refusals \subseteq {"chmod", "chuid", "chgid"}
       /\ TruncLens \subseteq 0..MaxSize

\* Fault model for TypeOK: the file-type bits are not stripped.
PermBitsNoMask(mode) == mode

\* mode - (mode / 0x1000 * 0x1000): the part of a mode SITE CHMOD sends.
PermBits(mode) == mode - (mode \div 4096) * 4096

\* (mode & S_IFMT) == S_IFREG.
IsReg(mode) == (mode \div 4096) % 16 = 8

Entries == [type : {"file", "dir"}, mode : 0..4095, uid : Ids, gid : Ids,
            size : 0..MaxSize, full : BOOLEAN]

VARIABLES
  ns,        \* the directory on the FTP server
  pc,        \* per thread: "idle", or between the two exchanges of mkdir/mknod
  arg,       \* per thread: the name and mode of the upcall in progress
  ret,       \* history: the last upcall each thread returned from
  clobbered  \* history: an O_EXCL create returned 0 although its upload
             \* replaced an entry that existed when it started

vars == <<ns, pc, arg, ret, clobbered>>

NoArg == [path |-> Absent, mode |-> 0, kind |-> "none", ok |-> TRUE,
          changed |-> FALSE, excl |-> FALSE]

Init ==
  /\ ns \in InitNs
  /\ pc = [t \in Threads |-> "idle"]
  /\ arg = [t \in Threads |-> NoArg]
  /\ ret = [t \in Threads |-> [ok |-> TRUE, changed |-> FALSE]]
  /\ clobbered = FALSE

Exists(p) == ns[p] # Absent
IsFile(p) == Exists(p) /\ ns[p].type = "file"
IsDir(p)  == Exists(p) /\ ns[p].type = "dir"

NewEntry(type, mode) ==
  [type |-> type, mode |-> mode, uid |-> SessionId, gid |-> SessionId,
   size |-> 0, full |-> FALSE]

\* ftpfs_do_cmd: the upcall's error is -EPERM exactly when curl_easy_perform
\* failed, that is when one of the post-quote commands was refused.
DoCmd(serverOk) == serverOk

\* What a SITE command on p can answer.
SiteAnswers(p, cmd) ==
  IF ~Exists(p) THEN {FALSE} ELSE IF cmd \in Refusals THEN BOOLEAN ELSE {TRUE}

\* test_size(): the size ftpfs_getattr reports, or -ENOENT.
TestSize(p) == IF Exists(p) THEN ns[p].size ELSE -2

Idle(t) == pc[t] = "idle"

Return(t, kind, ok, changed) ==
  /\ clobbered' = (clobbered \/ (ok /\ arg[t].excl /\ arg[t].changed))
  /\ pc' = [pc EXCEPT ![t] = "idle"]
  /\ arg' = [arg EXCEPT ![t] = NoArg]
  /\ ret' = [ret EXCEPT ![t] = [ok |-> ok, changed |-> changed]]
-----------------------------------------------------------------------------
(***************************************************************************)
(* create_empty_file(): a zero-byte STOR under the lock. It creates the   *)
(* file with the server's defaults, or empties an existing one; on a     *)
(* directory it fails.                                                     *)
(***************************************************************************)
CreateEmptyOk(p) == ~IsDir(p)

StoredEmpty(p) ==
  IF Exists(p) THEN [ns[p] EXCEPT !.size = 0] ELSE NewEntry("file", FileDefault)

\* SITE CHMOD as ftpfs_chmod sends it, and the server's answer.
SiteChmod(p, mode, ok) ==
  ns' = IF ok THEN [ns EXCEPT ![p].mode = PermBits(mode)] ELSE ns
-----------------------------------------------------------------------------
(***************************************************************************)
(* ftpfs_mknod, and ftpfs_open_common for a read-only create, which calls *)
(* ftpfs_mknod with (mode & 07777) | S_IFREG.                             *)
(***************************************************************************)
MknodNotReg(t, p, mode) ==
  /\ Idle(t) /\ ~IsReg(mode)
  /\ Return(t, "mknod", FALSE, FALSE)
  /\ UNCHANGED ns

\* The first exchange: create_empty_file(). On success the thread goes on
\* to ftpfs_chmod after releasing the lock.
MknodCreate(t, p, mode, kind) ==
  /\ Idle(t) /\ IsReg(mode)
  /\ IF CreateEmptyOk(p)
       THEN /\ ns' = [ns EXCEPT ![p] = StoredEmpty(p)]
            /\ pc' = [pc EXCEPT ![t] = "mknod_chmod"]
            /\ arg' = [arg EXCEPT ![t] =
                         [path |-> p, mode |-> mode, kind |-> kind, ok |-> TRUE,
                          changed |-> ns' # ns, excl |-> FALSE]]
            /\ UNCHANGED <<ret, clobbered>>
       ELSE /\ Return(t, kind, FALSE, FALSE)
            /\ UNCHANGED ns

\* The second exchange: SITE CHMOD, whose result is ignored.
MknodChmod(t) ==
  /\ pc[t] = "mknod_chmod"
  /\ \E ok \in SiteAnswers(arg[t].path, "chmod") :
        SiteChmod(arg[t].path, arg[t].mode, ok)
  /\ Return(t, arg[t].kind, TRUE, arg[t].changed)

OpenCreateRO(t, p, mode) == MknodCreate(t, p, PermBits(mode) + 32768, "open")
-----------------------------------------------------------------------------
(***************************************************************************)
(* ftpfs_mkdir: MKD, then (when MKD succeeded) ftpfs_chmod, whose result  *)
(* is ignored (the XXX comment).                                           *)
(***************************************************************************)
MkdirMkd(t, p, mode) ==
  /\ Idle(t)
  /\ LET ok == DoCmd(~Exists(p)) IN
     IF ok
       THEN /\ ns' = [ns EXCEPT ![p] = NewEntry("dir", DirDefault)]
            /\ pc' = [pc EXCEPT ![t] = "mkdir_chmod"]
            /\ arg' = [arg EXCEPT ![t] =
                         [path |-> p, mode |-> mode, kind |-> "mkdir", ok |-> TRUE,
                          changed |-> TRUE, excl |-> FALSE]]
            /\ UNCHANGED <<ret, clobbered>>
       ELSE /\ Return(t, "mkdir", FALSE, FALSE)
            /\ UNCHANGED ns

MkdirChmod(t) ==
  /\ pc[t] = "mkdir_chmod"
  /\ \E ok \in SiteAnswers(arg[t].path, "chmod") :
        SiteChmod(arg[t].path, arg[t].mode, ok)
  /\ Return(t, "mkdir", arg[t].ok, arg[t].changed)
-----------------------------------------------------------------------------
(***************************************************************************)
(* ftpfs_open_common for a write-only create (O_CREAT, with or without    *)
(* O_EXCL). With O_EXCL, test_exists() asks the server under the lock.    *)
(* start_write_thread() then starts the upload, whose STOR runs on the    *)
(* handle's own connection. The open waits on ready and then sends SITE   *)
(* CHMOD. A failed STOR only shows later, in write or flush.              *)
(***************************************************************************)
OpenWExists(t, p, mode) ==
  /\ Idle(t) /\ Exists(p)
  /\ Return(t, "open", FALSE, FALSE)
  /\ UNCHANGED ns

OpenWStart(t, p, mode, excl) ==
  /\ Idle(t) /\ (excl => ~Exists(p))
  /\ pc' = [pc EXCEPT ![t] = "open_stor"]
  /\ arg' = [arg EXCEPT ![t] =
               [path |-> p, mode |-> mode, kind |-> "open", ok |-> TRUE,
                changed |-> FALSE, excl |-> excl]]
  /\ UNCHANGED <<ns, ret, clobbered>>

\* The worker's STOR: it creates the file, or empties the one there now.
\* changed records that it replaced an entry.
OpenWStor(t) ==
  /\ pc[t] = "open_stor"
  /\ LET p == arg[t].path IN
     /\ ns' = IF CreateEmptyOk(p) THEN [ns EXCEPT ![p] = StoredEmpty(p)] ELSE ns
     /\ arg' = [arg EXCEPT ![t].changed = Exists(p) /\ CreateEmptyOk(p)]
  /\ pc' = [pc EXCEPT ![t] = "open_chmod"]
  /\ UNCHANGED <<ret, clobbered>>

OpenWChmod(t) ==
  /\ pc[t] = "open_chmod"
  /\ \E ok \in SiteAnswers(arg[t].path, "chmod") :
        SiteChmod(arg[t].path, arg[t].mode, ok)
  /\ Return(t, "open", TRUE, arg[t].changed)
-----------------------------------------------------------------------------
(***************************************************************************)
(* The upcalls that make one exchange.                                     *)
(***************************************************************************)
Chmod(t, p, mode) ==
  /\ Idle(t)
  /\ \E ok \in SiteAnswers(p, "chmod") :
        /\ SiteChmod(p, mode, ok)
        /\ Return(t, "chmod", DoCmd(ok), ns' # ns)

\* SITE CHUID then SITE CHGID in one session; a refused CHUID stops it.
Chown(t, p, u, g) ==
  /\ Idle(t)
  /\ \E okU \in SiteAnswers(p, "chuid"), okG \in SiteAnswers(p, "chgid") :
        LET afterU == IF okU THEN [ns EXCEPT ![p].uid = u] ELSE ns
            okBoth == okU /\ okG
        IN /\ ns' = IF okBoth THEN [afterU EXCEPT ![p].gid = g] ELSE afterU
           /\ Return(t, "chown", DoCmd(okBoth), ns' # ns)

Rmdir(t, p) ==
  /\ Idle(t)
  /\ LET ok == IsDir(p) /\ ~ns[p].full IN
     /\ ns' = IF ok THEN [ns EXCEPT ![p] = Absent] ELSE ns
     /\ Return(t, "rmdir", DoCmd(ok), ns' # ns)

Unlink(t, p) ==
  /\ Idle(t)
  /\ LET ok == IsFile(p) IN
     /\ ns' = IF ok THEN [ns EXCEPT ![p] = Absent] ELSE ns
     /\ Return(t, "unlink", DoCmd(ok), ns' # ns)

\* RNFR and RNTO in one session (ftpfs_do_cmd with the server root as URL).
Rename(t, from, to) ==
  /\ Idle(t) /\ from # to
  /\ LET ok == /\ Exists(from)
               /\ ~Exists(to) \/ (IsFile(to) /\ IsFile(from))
     IN /\ ns' = IF ok THEN [ns EXCEPT ![to] = ns[from], ![from] = Absent]
                 ELSE ns
        /\ Return(t, "rename", DoCmd(ok), ns' # ns)

\* ftpfs_truncate; the kernel refuses directories before the upcall.
Truncate(t, p, len) ==
  /\ Idle(t) /\ ~IsDir(p)
  /\ IF len = 0
       THEN LET ok == CreateEmptyOk(p) IN
            /\ ns' = IF ok THEN [ns EXCEPT ![p] = StoredEmpty(p)] ELSE ns
            /\ Return(t, "truncate", ok, ns' # ns)
       ELSE /\ Return(t, "truncate", len = TestSize(p), FALSE)
            /\ UNCHANGED ns

Utime(t, p) ==
  /\ Idle(t)
  /\ Return(t, "utime", TRUE, FALSE)
  /\ UNCHANGED ns

Getattr(t, p) ==
  /\ Idle(t)
  /\ Return(t, "getattr", Exists(p), FALSE)
  /\ UNCHANGED ns

\* ftpfs_readlink: the same LIST of the parent as getattr, parsed for the
\* name. A failed LIST is only logged; the parse then finds nothing and the
\* upcall returns -ENOENT. The model has no symbolic links, so a found name
\* yields 0 with whatever target the parser copies.
Readlink(t, p) ==
  /\ Idle(t)
  /\ Return(t, "readlink", Exists(p), FALSE)
  /\ UNCHANGED ns

\* ftpfs_getdir: LIST of the directory under the lock; -EIO when curl fails,
\* otherwise the parser fills the listing.
Getdir(t) ==
  /\ Idle(t)
  /\ \E listed \in BOOLEAN : Return(t, "getdir", listed, FALSE)
  /\ UNCHANGED ns
-----------------------------------------------------------------------------
Next ==
  \E t \in Threads :
    \/ MknodChmod(t) \/ MkdirChmod(t) \/ OpenWStor(t) \/ OpenWChmod(t)
    \/ Getdir(t)
    \/ \E p \in Names :
         \/ Rmdir(t, p) \/ Unlink(t, p) \/ Utime(t, p) \/ Getattr(t, p)
         \/ Readlink(t, p)
         \/ \E m \in MknodModes :
              MknodNotReg(t, p, m) \/ MknodCreate(t, p, m, "mknod")
              \/ OpenCreateRO(t, p, m)
         \/ \E m \in MkdirModes : MkdirMkd(t, p, m)
         \/ \E m \in CreateModes :
              OpenWExists(t, p, m) \/ \E x \in BOOLEAN : OpenWStart(t, p, m, x)
         \/ \E m \in ChmodModes : Chmod(t, p, m)
         \/ \E u, g \in ChownIds : Chown(t, p, u, g)
         \/ \E l \in TruncLens : Truncate(t, p, l)
         \/ \E q \in Names : Rename(t, p, q)

Spec == Init /\ [][Next]_vars
-----------------------------------------------------------------------------
(***************************************************************************)
(* Properties.                                                             *)
(***************************************************************************)
TypeOK ==
  /\ ns \in [Names -> Entries \cup {Absent}]
  /\ pc \in [Threads -> {"idle", "mknod_chmod", "mkdir_chmod", "open_stor",
                          "open_chmod"}]
  /\ clobbered \in BOOLEAN
  /\ ret \in [Threads -> [ok : BOOLEAN, changed : BOOLEAN]]

(* An upcall that returns an error left the server as it was: the error  *)
(* ftpfs_do_cmd reports for a session of several post-quote commands      *)
(* (chown's SITE CHUID and SITE CHGID, rename's RNFR and RNTO) and the    *)
(* error of mkdir and mknod's first exchange mean that nothing changed.   *)
ErrorMeansNoChange == \A t \in Threads : ~ret[t].ok => ~ret[t].changed

(* O_EXCL makes an open the one that creates the file (open(2), and spec   *)
(* section 4: "if the probe does not return not-found, fail"). An        *)
(* O_EXCL create that returned 0 never replaced an entry that another     *)
(* client made between its test_exists() and its upload's STOR. Within   *)
(* one mount the kernel's lock on the parent directory keeps a create of  *)
(* the same name out, so the second thread stands for another client of  *)
(* the server, which issues the same commands.                           *)
ExclusiveCreate == ~clobbered
=============================================================================

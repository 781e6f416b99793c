-------------------------- MODULE LocalDiskReceive --------------------------
(***************************************************************************)
(* diskStorage.ReceiveBlob of the localdisk blob server (src/unnamed/      *)
(* part_000): concurrent calls write a blob to a temporary file, hash it,  *)
(* rename it to its canonical name, check it with Lstat, hard-link it into *)
(* each mirror partition and notify the blob hubs.  A deferred function    *)
(* removes the temporary file by NAME on every exit with success = false.  *)
(*                                                                         *)
(* The file system is a namespace ns (path -> inode) over inodes holding   *)
(* data; a name and the file descriptor a call writes through are distinct *)
(* things, which is what the deferred os.Remove(tempFile.Name()) is about. *)
(* A crash kills every call and loses the data of inodes not yet synced.   *)
(* Namespace operations (create, rename, link, remove) are durable when    *)
(* they return if DurableNames holds; otherwise they reach the disk when   *)
(* the file system next commits its journal, in order, and a crash goes   *)
(* back to the last commit: the code never fsyncs a directory.            *)
(***************************************************************************)
EXTENDS Naturals, Sequences, FiniteSets

CONSTANTS
  Receivers,        \* goroutines, each running ReceiveBlob calls one after another
  Blobs,            \* blob refs (model values); each also names its correct bytes
  Partitions,       \* named mirror partitions
  DefaultPartition, \* blobserver.DefaultPartition
  TempNames,        \* the random suffixes ioutil.TempFile may append to the prefix
  MirrorLists,      \* mirrorPartitions arguments callers pass
  Garbage,          \* bytes whose digest is no blob of Blobs
  Partial,          \* a strict prefix of a stream: a failed copy or torn data
  NoFile,           \* a path with no directory entry
  Size,             \* byte length of each data value, [Data -> Nat]
  MaxCalls,         \* bound: ReceiveBlob calls per receiver
  MaxCrashes,       \* bound: process crashes
  Faults,           \* whether a syscall may fail (EIO, ENOSPC, EACCES)
  FreshTempNames,   \* whether TempFile never returns a name it returned before
  DurableNames      \* whether a namespace operation is on disk when it returns

Data    == Blobs \cup {Garbage, Partial}
Streams == Blobs \cup {Garbage}
Inodes  == Receivers \X (1..MaxCalls)
HubPartitions == Partitions \cup {DefaultPartition}

ASSUME /\ Garbage \notin Blobs /\ Partial \notin Blobs /\ Garbage # Partial
       /\ NoFile \notin Inodes
       /\ Size \in [Data -> Nat]
       /\ MirrorLists \subseteq Seq(Partitions)
       /\ MaxCalls \in Nat \ {0} /\ MaxCrashes \in Nat
       /\ Faults \in BOOLEAN /\ FreshTempNames \in BOOLEAN /\ DurableNames \in BOOLEAN

(* ds.blobFileName, ds.partitionBlobFileName and the TempFile name in the  *)
(* blob's directory: the sharded layout is abstracted to one path each.    *)
CanonPath(b)    == <<"blob", b>>
PartPath(p, b)  == <<"part", p, b>>
TempPath(b, t)  == <<"tmp", b, t>>
TempPaths == {TempPath(b, t) : b \in Blobs, t \in TempNames}
Paths == {CanonPath(b) : b \in Blobs} \cup {PartPath(p, b) : p \in Partitions, b \in Blobs}
           \cup TempPaths

Errors  == {"StorageUnavailable", "IOError", "CorruptBlob", "VerificationFailed", "MirrorFailed"}
Results == Errors \cup {"none", "ok", "Crashed"}
Pcs == {"idle", "mkdir", "tempfile", "copy", "sync", "hash", "rename", "lstat",
        "mirrorMkdir", "mirrorLink", "notify", "cleanup"}

VARIABLES
  ns,       \* directory entries: path -> inode
  dns,      \* the directory entries on disk: what a crash goes back to
  ino,      \* inode contents: data written and whether it reached the disk
  pc,       \* where each receiver is in ReceiveBlob
  blob,     \* blobRef argument of the current call
  stream,   \* the bytes the source reader yields
  mirrors,  \* mirrorPartitions argument
  mi,       \* index into mirrors of the two range loops (0 = default hub)
  tmp,      \* suffix of the temp file the call created
  calls,    \* calls made so far by each receiver
  res,      \* err (or "ok") the call returned
  hubLog,   \* NotifyBlobReceived calls per partition hub, in order
  usedTmp,  \* history: <<blob, suffix>> pairs TempFile has returned
  orphans,  \* history: temp paths that existed when the process crashed
  crashes

vars == <<ns, dns, ino, pc, blob, stream, mirrors, mi, tmp, calls, res, hubLog, usedTmp, orphans, crashes>>
callVars == <<blob, stream, mirrors, calls>>

Ino(r) == <<r, calls[r]>>        \* the inode tempFile (the *os.File) refers to
Tmp(r) == TempPath(blob[r], tmp[r])
Goto(r, l) == pc' = [pc EXCEPT ![r] = l]

(* The namespace on disk after a step that may change ns: the same as ns  *)
(* on a durable file system, else either unchanged or a journal commit of *)
(* the whole namespace as it now is.                                       *)
Persist == IF DurableNames THEN dns' = ns' ELSE dns' \in {dns, ns'}

TypeOK ==
  /\ ns \in [Paths -> Inodes \cup {NoFile}]
  /\ dns \in [Paths -> Inodes \cup {NoFile}]
  /\ ino \in [Inodes -> [data : Data, synced : BOOLEAN]]
  /\ pc \in [Receivers -> Pcs]
  /\ blob \in [Receivers -> Blobs] /\ stream \in [Receivers -> Streams]
  /\ mirrors \in [Receivers -> MirrorLists]
  /\ \A r \in Receivers : mi[r] \in 0..Len(mirrors[r])
  /\ tmp \in [Receivers -> TempNames]
  /\ calls \in [Receivers -> 0..MaxCalls]
  /\ res \in [Receivers -> Results]
  /\ hubLog \in [HubPartitions -> Seq(Blobs)]
  /\ crashes \in 0..MaxCrashes

Init ==
  /\ ns = [p \in Paths |-> NoFile]
  /\ dns = ns
  /\ ino = [i \in Inodes |-> [data |-> Partial, synced |-> FALSE]]
  /\ pc = [r \in Receivers |-> "idle"]
  \* arguments of a call not yet made: any fixed value
  /\ blob = [r \in Receivers |-> CHOOSE b \in Blobs : TRUE]
  /\ stream = [r \in Receivers |-> CHOOSE d \in Streams : TRUE]
  /\ mirrors = [r \in Receivers |-> CHOOSE ml \in MirrorLists : TRUE]
  /\ tmp = [r \in Receivers |-> CHOOSE t \in TempNames : TRUE]
  /\ mi = [r \in Receivers |-> 0]
  /\ calls = [r \in Receivers |-> 0]
  /\ res = [r \in Receivers |-> "none"]
  /\ hubLog = [p \in HubPartitions |-> <<>>]
  /\ usedTmp = {}
  /\ orphans = {}
  /\ crashes = 0

(* A failing return after TempFile: err is set, the deferred Remove runs.  *)
Fail(r, err) ==
  /\ Goto(r, "cleanup")
  /\ res' = [res EXCEPT ![r] = err]

(* A failing return before TempFile: no defer is registered yet.           *)
Return(r, err) ==
  /\ Goto(r, "idle")
  /\ res' = [res EXCEPT ![r] = err]

(* A caller invokes ReceiveBlob(blobRef, source, mirrorPartitions).        *)
Start(r) ==
  /\ pc[r] = "idle" /\ calls[r] < MaxCalls
  /\ \E b \in Blobs, d \in Streams, ml \in MirrorLists :
       /\ blob' = [blob EXCEPT ![r] = b]
       /\ stream' = [stream EXCEPT ![r] = d]
       /\ mirrors' = [mirrors EXCEPT ![r] = ml]
  /\ calls' = [calls EXCEPT ![r] = @ + 1]
  /\ Goto(r, "mkdir")
  /\ res' = [res EXCEPT ![r] = "none"]
  /\ UNCHANGED <<ns, dns, ino, mi, tmp, hubLog, usedTmp, orphans, crashes>>

(* os.MkdirAll(hashedDirectory): directories are never removed, so only    *)
(* the outcome matters.                                                    *)
Mkdir(r) ==
  /\ pc[r] = "mkdir"
  /\ \/ Goto(r, "tempfile") /\ UNCHANGED res
     \/ Faults /\ Return(r, "StorageUnavailable")
  /\ UNCHANGED <<ns, dns, ino, mi, tmp, hubLog, usedTmp, orphans, crashes, callVars>>

(* ioutil.TempFile(dir, base+".tmp") creates (O_EXCL) a name not present.  *)
FreeTempNames(b) ==
  {t \in TempNames : ns[TempPath(b, t)] = NoFile
                     /\ (FreshTempNames => <<b, t>> \notin usedTmp)}

TempFile(r) ==
  /\ pc[r] = "tempfile"
  /\ \/ \E t \in FreeTempNames(blob[r]) :
          /\ ns' = [ns EXCEPT ![TempPath(blob[r], t)] = Ino(r)]
          /\ ino' = [ino EXCEPT ![Ino(r)] = [data |-> Partial, synced |-> FALSE]]
          /\ tmp' = [tmp EXCEPT ![r] = t]
          /\ usedTmp' = usedTmp \cup {<<blob[r], t>>}
          /\ Goto(r, "copy") /\ UNCHANGED res
     \/ /\ Faults \/ FreeTempNames(blob[r]) = {}
        /\ Return(r, "StorageUnavailable") /\ UNCHANGED <<ns, ino, tmp, usedTmp>>
  /\ Persist
  /\ UNCHANGED <<mi, hubLog, orphans, crashes, callVars>>

(* Mutant of Copy: a copy error returns before the cleanup is deferred.   *)
CopyFailNoCleanup(r) ==
  /\ pc[r] = "copy"
  /\ \/ /\ ino' = [ino EXCEPT ![Ino(r)].data = stream[r]]
        /\ Goto(r, "sync") /\ UNCHANGED res
     \/ Faults /\ Return(r, "IOError") /\ UNCHANGED ino
  /\ UNCHANGED <<ns, dns, mi, tmp, hubLog, usedTmp, orphans, crashes, callVars>>

(* io.Copy(io.MultiWriter(hash, tempFile), source): writes go through the  *)
(* descriptor, i.e. to the call's own inode whatever its name is now.      *)
Copy(r) ==
  /\ pc[r] = "copy"
  /\ \/ /\ ino' = [ino EXCEPT ![Ino(r)].data = stream[r]]
        /\ Goto(r, "sync") /\ UNCHANGED res
     \/ Faults /\ Fail(r, "IOError") /\ UNCHANGED ino
  /\ UNCHANGED <<ns, dns, mi, tmp, hubLog, usedTmp, orphans, crashes, callVars>>

(* Mutant of SyncClose: the temp file is closed without tempFile.Sync().   *)
CloseWithoutSync(r) ==
  /\ pc[r] = "sync"
  /\ \/ Goto(r, "hash") /\ UNCHANGED <<ino, res>>
     \/ Faults /\ Fail(r, "IOError") /\ UNCHANGED ino
  /\ UNCHANGED <<ns, dns, mi, tmp, hubLog, usedTmp, orphans, crashes, callVars>>

(* tempFile.Sync() then tempFile.Close(); either error returns.            *)
SyncClose(r) ==
  /\ pc[r] = "sync"
  /\ \/ /\ ino' = [ino EXCEPT ![Ino(r)].synced = TRUE]
        /\ Goto(r, "hash") /\ UNCHANGED res
     \/ Faults /\ Fail(r, "IOError") /\ UNCHANGED ino
  /\ UNCHANGED <<ns, dns, mi, tmp, hubLog, usedTmp, orphans, crashes, callVars>>

(* Mutant of HashMatches: CorruptBlobError returned with success already   *)
(* true, so the deferred Remove does nothing.                              *)
HashMatchesNoCleanup(r) ==
  /\ pc[r] = "hash"
  /\ \/ stream[r] = blob[r] /\ Goto(r, "rename") /\ UNCHANGED res
     \/ stream[r] # blob[r] /\ Return(r, "CorruptBlob")
  /\ UNCHANGED <<ns, dns, ino, mi, tmp, hubLog, usedTmp, orphans, crashes, callVars>>

(* blobRef.HashMatches(hash): the digest of the streamed bytes.            *)
HashMatches(r) ==
  /\ pc[r] = "hash"
  /\ \/ stream[r] = blob[r] /\ Goto(r, "rename") /\ UNCHANGED res
     \/ stream[r] # blob[r] /\ Fail(r, "CorruptBlob")
  /\ UNCHANGED <<ns, dns, ino, mi, tmp, hubLog, usedTmp, orphans, crashes, callVars>>

(* os.Rename(tempFile.Name(), fileName): moves whatever inode now has the  *)
(* temp name over the canonical name; ENOENT if the name is gone.          *)
Rename(r) ==
  /\ pc[r] = "rename"
  /\ \/ /\ ns[Tmp(r)] # NoFile
        /\ ns' = [ns EXCEPT ![CanonPath(blob[r])] = ns[Tmp(r)], ![Tmp(r)] = NoFile]
        /\ Goto(r, "lstat") /\ UNCHANGED res
     \/ /\ ns[Tmp(r)] = NoFile \/ Faults
        /\ Fail(r, "IOError") /\ UNCHANGED ns
  /\ Persist
  /\ UNCHANGED <<ino, mi, tmp, hubLog, usedTmp, orphans, crashes, callVars>>

(* Mutants of NextPartition: the loop stops one partition early, or runs  *)
(* one index past the end of mirrorPartitions.                             *)
NextPartitionSkipLast(r, i) ==
  \/ i < Len(mirrors[r]) /\ Goto(r, "mirrorMkdir") /\ mi' = [mi EXCEPT ![r] = i]
  \/ i >= Len(mirrors[r]) /\ Goto(r, "notify") /\ mi' = [mi EXCEPT ![r] = 0]

NextPartitionPastEnd(r, i) ==
  \/ i <= Len(mirrors[r]) + 1 /\ Goto(r, "mirrorMkdir") /\ mi' = [mi EXCEPT ![r] = i]
  \/ i > Len(mirrors[r]) + 1 /\ Goto(r, "notify") /\ mi' = [mi EXCEPT ![r] = 0]

(* The first iteration of `for _, partition := range mirrorPartitions`, or *)
(* the step past the loop to the hub notifications (mi = 0: default hub). *)
NextPartition(r, i) ==
  \/ i <= Len(mirrors[r]) /\ Goto(r, "mirrorMkdir") /\ mi' = [mi EXCEPT ![r] = i]
  \/ i > Len(mirrors[r]) /\ Goto(r, "notify") /\ mi' = [mi EXCEPT ![r] = 0]

(* os.Lstat(fileName), whose error fails the call; then                   *)
(* !stat.IsRegular() || stat.Size != written.                             *)
StatMatches(r) ==
  LET f == ns[CanonPath(blob[r])]
  IN  f # NoFile /\ Size[ino[f].data] = Size[stream[r]]

Lstat(r) ==
  /\ pc[r] = "lstat"
  /\ \/ StatMatches(r) /\ NextPartition(r, 1) /\ UNCHANGED res
     \/ (~StatMatches(r) \/ Faults) /\ Fail(r, "VerificationFailed") /\ UNCHANGED mi
  /\ UNCHANGED <<ns, dns, ino, tmp, hubLog, usedTmp, orphans, crashes, callVars>>

(* os.MkdirAll(partitionDir).                                              *)
MirrorMkdir(r) ==
  /\ pc[r] = "mirrorMkdir"
  /\ \/ Goto(r, "mirrorLink") /\ UNCHANGED res
     \/ Faults /\ Fail(r, "MirrorFailed")
  /\ UNCHANGED <<ns, dns, ino, mi, tmp, hubLog, usedTmp, orphans, crashes, callVars>>

(* os.Link(fileName, partitionFileName): EEXIST if the target exists.      *)
MirrorLink(r) ==
  LET dst == PartPath(mirrors[r][mi[r]], blob[r])
      src == ns[CanonPath(blob[r])]
  IN  /\ pc[r] = "mirrorLink"
      /\ \/ /\ ns[dst] = NoFile /\ src # NoFile
            /\ ns' = [ns EXCEPT ![dst] = src]
            /\ NextPartition(r, mi[r] + 1) /\ UNCHANGED res
         \/ /\ ns[dst] # NoFile \/ src = NoFile \/ Faults
            /\ Fail(r, "MirrorFailed") /\ UNCHANGED <<ns, mi>>
      /\ Persist
      /\ UNCHANGED <<ino, tmp, hubLog, usedTmp, orphans, crashes, callVars>>

(* success = true; then ds.GetBlobHub(p).NotifyBlobReceived(blobRef) for   *)
(* the default partition and for each mirror partition in order; return.   *)
Notify(r) ==
  LET p == IF mi[r] = 0 THEN DefaultPartition ELSE mirrors[r][mi[r]]
  IN  /\ pc[r] = "notify"
      /\ hubLog' = [hubLog EXCEPT ![p] = Append(@, blob[r])]
      /\ \/ mi[r] < Len(mirrors[r]) /\ mi' = [mi EXCEPT ![r] = @ + 1] /\ UNCHANGED <<pc, res>>
         \/ mi[r] = Len(mirrors[r]) /\ Return(r, "ok") /\ UNCHANGED mi
      /\ UNCHANGED <<ns, dns, ino, tmp, usedTmp, orphans, crashes, callVars>>

(* The deferred func: if !success { os.Remove(tempFile.Name()) }, ignoring *)
(* its error; it removes whatever file has that name now.                  *)
Cleanup(r) ==
  /\ pc[r] = "cleanup"
  /\ ns' = [ns EXCEPT ![Tmp(r)] = NoFile]
  /\ Goto(r, "idle")
  /\ Persist
  /\ UNCHANGED <<ino, mi, tmp, res, hubLog, usedTmp, orphans, crashes, callVars>>

(* The server process dies and is restarted: every call in flight is lost, *)
(* data not yet synced is torn, the namespace is what was last committed  *)
(* to disk, the in-memory hubs start empty.  Every temp file left is an    *)
(* orphan: no call holds it any more.                                      *)
Crash ==
  /\ crashes < MaxCrashes
  /\ pc' = [r \in Receivers |-> "idle"]
  /\ res' = [r \in Receivers |-> IF pc[r] = "idle" THEN res[r] ELSE "Crashed"]
  /\ ino' = [i \in Inodes |-> IF ino[i].synced THEN ino[i]
                              ELSE [data |-> Partial, synced |-> TRUE]]
  /\ ns' = dns
  /\ orphans' = orphans \cup {path \in TempPaths : dns[path] # NoFile}
  /\ hubLog' = [p \in HubPartitions |-> <<>>]
  /\ crashes' = crashes + 1
  /\ UNCHANGED <<dns, mi, tmp, usedTmp, callVars>>

Receive(r) ==
  \/ Start(r) \/ Mkdir(r) \/ TempFile(r) \/ Copy(r) \/ SyncClose(r)
  \/ HashMatches(r) \/ Rename(r) \/ Lstat(r) \/ MirrorMkdir(r) \/ MirrorLink(r)
  \/ Notify(r) \/ Cleanup(r)

(* Every receiver has made its bounded number of calls and returned: the   *)
(* server idles; this is the end of a behaviour, not a deadlock.           *)
Finished ==
  /\ \A r \in Receivers : pc[r] = "idle" /\ calls[r] = MaxCalls
  /\ UNCHANGED vars

Next == (\E r \in Receivers : Receive(r)) \/ Crash \/ Finished

Spec == Init /\ [][Next]_vars

-----------------------------------------------------------------------------
(* Properties                                                              *)

StoredPaths(b) == {CanonPath(b)} \cup {PartPath(p, b) : p \in Partitions}

(* Every file under a blob's canonical name or a partition's name for it   *)
(* holds exactly that blob's bytes, across crashes: the hash check, the    *)
(* Sync before Rename and the rename-as-commit together guarantee it, and  *)
(* the deferred by-name Remove must never let other bytes in.              *)
StoredIntact ==
  \A b \in Blobs : \A path \in StoredPaths(b) :
     ns[path] # NoFile => ino[ns[path]].data = b

(* A call that returned success left the blob under its canonical name and *)
(* under every partition of its mirrorPartitions argument.                 *)
SuccessVisible ==
  \A r \in Receivers : pc[r] = "idle" /\ res[r] = "ok" =>
     /\ ns[CanonPath(blob[r])] # NoFile
     /\ \A i \in 1..Len(mirrors[r]) : ns[PartPath(mirrors[r][i], blob[r])] # NoFile

(* The spec's failure/cleanup invariant: a call that failed before its     *)
(* commit (copy, sync, close, hash or rename error) leaves its file under  *)
(* no name at all.                                                         *)
FailedCommitLeavesNoTrace ==
  \A r \in Receivers : pc[r] = "idle" /\ res[r] \in {"IOError", "CorruptBlob"} =>
     \A path \in Paths : ns[path] # Ino(r)

(* Every temporary file that exists is the file of a call still running,  *)
(* or was left by a call a crash killed between TempFile and the rename:  *)
(* the deferred Remove leaves no orphan on any exit the process lives     *)
(* through, and nothing removes a crash's orphans.                         *)
NoOrphanTemp ==
  \A path \in TempPaths :
     ns[path] # NoFile =>
        \/ \E r \in Receivers : ns[path] = Ino(r) /\ pc[r] # "idle"
        \/ path \in orphans

(* A call given the blob's own bytes, on a file system that does not fail, *)
(* succeeds: spec 4.3 says an existing mirror link is already satisfied,   *)
(* so a retried or concurrent receive of the same blob must not fail.      *)
ValidReceiveSucceeds ==
  \A r \in Receivers : pc[r] = "idle" /\ res[r] \notin {"none", "Crashed"}
                       /\ stream[r] = blob[r] => res[r] = "ok"
=============================================================================

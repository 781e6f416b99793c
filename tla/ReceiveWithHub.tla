---------------------------- MODULE ReceiveWithHub ----------------------------
(***************************************************************************)
(* ReceiveBlob together with the blob hubs it notifies: the last loop of   *)
(* ReceiveBlob (part_000:112-117) calls ds.GetBlobHub(p).NotifyBlobReceived *)
(* for the default partition and then for each mirror partition, while    *)
(* subscribers (the indexer, sync handlers) subscribe, unsubscribe and     *)
(* read their queues.  A crash ends the process: the hubs and every        *)
(* subscription are in memory and start empty again.                       *)
(***************************************************************************)
EXTENDS LocalDiskReceive

CONSTANTS
  Subscribers,  \* subscription handles
  QueueCap,     \* bound: events a subscriber's queue holds
  NoHub

VARIABLES hubs, sub, queue, heard

H == INSTANCE BlobHub WITH Partitions <- HubPartitions

hubVars == <<hubs, sub, queue, heard>>
allVars == <<vars, hubVars>>

HubInit == Init /\ H!Init

(* The hub a step of the notify loop calls: default first (mi = 0), then  *)
(* mirrorPartitions in order.                                              *)
NotifyPartition(r) == IF mi[r] = 0 THEN DefaultPartition ELSE mirrors[r][mi[r]]

ReceiveStart(r) == Start(r) /\ UNCHANGED hubVars

(* The steps of ReceiveBlob that do not touch a hub.                       *)
PipelineStep(r) ==
  /\ \/ Mkdir(r) \/ TempFile(r) \/ Copy(r) \/ SyncClose(r) \/ HashMatches(r)
     \/ Rename(r) \/ Lstat(r) \/ MirrorMkdir(r) \/ MirrorLink(r) \/ Cleanup(r)
  /\ UNCHANGED hubVars

(* ds.GetBlobHub(p).NotifyBlobReceived(blobRef): one step of the loop.     *)
HubNotify(r) ==
  /\ Notify(r)
  /\ H!NotifyBlobReceived(NotifyPartition(r), blob[r])

ReceiverStep(r) == ReceiveStart(r) \/ PipelineStep(r) \/ HubNotify(r)

(* The subscribers act on the hubs only.                                    *)
SubscriberStep ==
  \E s \in Subscribers :
     \/ \E p \in HubPartitions : H!Subscribe(s, p) /\ UNCHANGED vars
     \/ H!Unsubscribe(s) /\ UNCHANGED vars
     \/ H!Consume(s) /\ UNCHANGED vars

(* The process dies: the hubs go with it, and with them every handle.      *)
HubCrash ==
  /\ Crash
  /\ hubs' = {} /\ heard' = [s \in Subscribers |-> {}]
  /\ sub' = [s \in Subscribers |-> NoHub] /\ queue' = [s \in Subscribers |-> <<>>]

HubNext ==
  \/ \E r \in Receivers : ReceiverStep(r)
  \/ SubscriberStep
  \/ HubCrash
  \/ Finished /\ UNCHANGED hubVars

HubSpec == HubInit /\ [][HubNext]_allVars

-----------------------------------------------------------------------------
HubTypeOK == TypeOK /\ H!TypeOK

(* Where a hub's blob is stored: the canonical name for the default       *)
(* partition, the partition's name otherwise.                              *)
HubPath(p, b) == IF p = DefaultPartition THEN CanonPath(b) ELSE PartPath(p, b)

(* A subscriber only hears of a blob that is stored under its hub's       *)
(* partition: ReceiveBlob notifies after the rename and after every link, *)
(* and a crash takes the subscription with it.                             *)
EventStored ==
  \A s \in Subscribers : sub[s] # NoHub =>
     \A b \in heard[s] : ns[HubPath(sub[s], b)] # NoFile

====

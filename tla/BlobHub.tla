------------------------------- MODULE BlobHub -------------------------------
(***************************************************************************)
(* The blob hubs of a storage: a SimpleBlobHubPartitionMap holds one hub   *)
(* per partition, created by GetBlobHub on first use (index.New starts it  *)
(* empty).  The hub type is not in the source; its operations follow spec  *)
(* 4.4 and 9: subscribe, unsubscribe and NotifyBlobReceived, which puts    *)
(* the blob on the bounded queue of every subscriber of that partition    *)
(* and drops it for a subscriber whose queue is full (drop-new), so that  *)
(* it never waits for a subscriber.  A subscriber reads its queue in order.*)
(***************************************************************************)
EXTENDS Naturals, Sequences

CONSTANTS
  Subscribers,  \* subscription handles (a subscriber's channel)
  Partitions,   \* hub names, the default partition included
  Blobs,
  QueueCap,     \* bound: events a subscriber's queue holds
  NoHub         \* a handle not subscribed to any hub

ASSUME NoHub \notin Partitions /\ QueueCap \in Nat \ {0}

VARIABLES
  hubs,     \* the partitions whose hub GetBlobHub has created
  sub,      \* the hub each handle is subscribed to
  queue,    \* the events waiting on each handle
  heard     \* history: blobs put on the handle's queue since it subscribed

hubVars == <<hubs, sub, queue, heard>>

TypeOK ==
  /\ hubs \subseteq Partitions
  /\ sub \in [Subscribers -> Partitions \cup {NoHub}]
  /\ queue \in [Subscribers -> Seq(Blobs)]
  /\ \A s \in Subscribers : Len(queue[s]) <= QueueCap
  /\ heard \in [Subscribers -> SUBSET Blobs]

(* A storage's hub map starts with no hub (as index.New's empty           *)
(* SimpleBlobHubPartitionMap); a process that starts again starts from it. *)
Init ==
  /\ hubs = {}
  /\ sub = [s \in Subscribers |-> NoHub]
  /\ queue = [s \in Subscribers |-> <<>>]
  /\ heard = [s \in Subscribers |-> {}]

(* GetBlobHub(p): the hub of p, created on first reference.               *)
GetBlobHub(p) == hubs' = hubs \cup {p}

(* A subscriber registers a fresh handle on p's hub.                       *)
Subscribe(s, p) ==
  /\ sub[s] = NoHub
  /\ GetBlobHub(p)
  /\ sub' = [sub EXCEPT ![s] = p]
  /\ queue' = [queue EXCEPT ![s] = <<>>]
  /\ heard' = [heard EXCEPT ![s] = {}]

(* Unsubscribe: the handle leaves its hub; nothing more reaches it.       *)
Unsubscribe(s) ==
  /\ sub[s] # NoHub
  /\ sub' = [sub EXCEPT ![s] = NoHub]
  /\ queue' = [queue EXCEPT ![s] = <<>>]
  /\ UNCHANGED <<hubs, heard>>

(* The subscriber takes the oldest event off its queue.                   *)
Consume(s) ==
  /\ queue[s] # <<>>
  /\ queue' = [queue EXCEPT ![s] = Tail(@)]
  /\ UNCHANGED <<hubs, sub, heard>>

(* The handle s of p's hub has room for one more event.                   *)
Accepts(s, p) == sub[s] = p /\ Len(queue[s]) < QueueCap

(* hub.NotifyBlobReceived(b): b goes on the queue of every subscriber of  *)
(* p with room and is dropped for the others; it never waits.              *)
NotifyBlobReceived(p, b) ==
  /\ GetBlobHub(p)
  /\ queue' = [s \in Subscribers |-> IF Accepts(s, p) THEN Append(queue[s], b) ELSE queue[s]]
  /\ heard' = [s \in Subscribers |-> IF Accepts(s, p) THEN heard[s] \cup {b} ELSE heard[s]]
  /\ UNCHANGED sub

(* The subscribers' side of the hubs.                                      *)
SubscriberStep ==
  \E s \in Subscribers :
     \/ \E p \in Partitions : Subscribe(s, p)
     \/ Unsubscribe(s)
     \/ Consume(s)

Next == SubscriberStep \/ \E p \in Partitions, b \in Blobs : NotifyBlobReceived(p, b)

Spec == Init /\ [][Next]_hubVars
====

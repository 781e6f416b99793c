----------------------------- MODULE IndexSearch -----------------------------
(***************************************************************************)
(* The search.Index methods of index.Index (index.go:82-126) as they are   *)
(* called.  The two streaming methods get a result channel dest: the       *)
(* caller runs the method in a goroutine, `go func() { errc <- m(dest) }()`,*)
(* ranges over dest until it is closed, then receives the error from the   *)
(* unbuffered errc.  The other methods are plain calls.  The callers are   *)
(* not in src/: they follow the search handler pattern.  Every method is a *)
(* stub that sends no result and returns a "TODO" error.                   *)
(***************************************************************************)
EXTENDS Naturals

CONSTANTS
  Callers,   \* concurrent search requests, one call each
  Methods    \* the methods the callers may call

StreamMethods == {"GetRecentPermanodes", "SearchPermanodesWithAttr"}
LookupMethods == {"GetOwnerClaims", "GetBlobMimeType", "ExistingFileSchemas",
                  "GetFileInfo", "PermanodeOfSignerAttrValue",
                  "PathsOfSignerTarget", "PathsLookup", "PathLookup"}

(* The search.Index interface, which the assertion at index.go:73 says    *)
(* Index implements.                                                       *)
SearchIndexMethods == StreamMethods \cup LookupMethods

ASSUME Methods \subseteq SearchIndexMethods

VARIABLES
  method,   \* the method each caller calls
  cpc,      \* caller: "idle", "range" (over dest), "recvErr", "done"
  ppc,      \* the method's goroutine: "none", "run", "sendErr", "exited"
  dest,     \* the result channel: "open" or "closed"
  err       \* the error the caller got: "none" or "TODO"

vars == <<method, cpc, ppc, dest, err>>

TypeOK ==
  /\ method \in [Callers -> Methods]
  /\ cpc \in [Callers -> {"idle", "range", "recvErr", "done"}]
  /\ ppc \in [Callers -> {"none", "run", "sendErr", "exited"}]
  /\ dest \in [Callers -> {"open", "closed"}]
  /\ err \in [Callers -> {"none", "TODO"}]

Init ==
  /\ method \in [Callers -> Methods]
  /\ cpc = [c \in Callers |-> "idle"]
  /\ ppc = [c \in Callers |-> "none"]
  /\ dest = [c \in Callers |-> "open"]
  /\ err = [c \in Callers |-> "none"]

(* A plain lookup (GetOwnerClaims ... PathLookup) returns nil and its TODO *)
(* error at once.                                                          *)
Lookup(c) ==
  /\ cpc[c] = "idle" /\ method[c] \in LookupMethods
  /\ cpc' = [cpc EXCEPT ![c] = "done"]
  /\ err' = [err EXCEPT ![c] = "TODO"]
  /\ UNCHANGED <<method, ppc, dest>>

(* The caller makes dest and errc, starts the method's goroutine, and      *)
(* ranges over dest.                                                       *)
CallStream(c) ==
  /\ cpc[c] = "idle" /\ method[c] \in StreamMethods
  /\ cpc' = [cpc EXCEPT ![c] = "range"]
  /\ ppc' = [ppc EXCEPT ![c] = "run"]
  /\ UNCHANGED <<method, dest, err>>

(* GetRecentPermanodes: return the TODO error; the deferred close(dest)    *)
(* runs as it returns, before the wrapper sends the error on errc.         *)
GetRecentPermanodes(c) ==
  /\ ppc[c] = "run" /\ method[c] = "GetRecentPermanodes"
  /\ ppc' = [ppc EXCEPT ![c] = "sendErr"]
  /\ dest' = [dest EXCEPT ![c] = "closed"]
  /\ UNCHANGED <<method, cpc, err>>

(* SearchPermanodesWithAttr: return the TODO error; dest is left open.     *)
SearchPermanodesWithAttr(c) ==
  /\ ppc[c] = "run" /\ method[c] = "SearchPermanodesWithAttr"
  /\ ppc' = [ppc EXCEPT ![c] = "sendErr"]
  /\ UNCHANGED <<method, cpc, dest, err>>

(* `for r := range dest` ends when dest is closed (no result is ever sent).*)
RangeEnds(c) ==
  /\ cpc[c] = "range" /\ dest[c] = "closed"
  /\ cpc' = [cpc EXCEPT ![c] = "recvErr"]
  /\ UNCHANGED <<method, ppc, dest, err>>

(* errc <- m(dest) meets err := <-errc: both goroutines move together.     *)
DeliverErr(c) ==
  /\ ppc[c] = "sendErr" /\ cpc[c] = "recvErr"
  /\ ppc' = [ppc EXCEPT ![c] = "exited"]
  /\ cpc' = [cpc EXCEPT ![c] = "done"]
  /\ err' = [err EXCEPT ![c] = "TODO"]
  /\ UNCHANGED <<method, dest>>

Step(c) ==
  \/ Lookup(c) \/ CallStream(c)
  \/ GetRecentPermanodes(c) \/ SearchPermanodesWithAttr(c)
  \/ RangeEnds(c) \/ DeliverErr(c)

Next == \E c \in Callers : Step(c)

(* The Go scheduler runs every runnable goroutine: each caller, with the   *)
(* goroutine it started, is weakly fair.                                   *)
Spec == Init /\ [][Next]_vars /\ \A c \in Callers : WF_vars(Step(c))

-----------------------------------------------------------------------------
(* Every search request is answered: the caller's range over dest ends and *)
(* it receives the method's error, so neither it nor the method's          *)
(* goroutine blocks forever.  This needs the method to close dest before   *)
(* it returns, as GetRecentPermanodes does with `defer close(dest)`.       *)
SearchCompletes == \A c \in Callers : <>(cpc[c] = "done" /\ err[c] = "TODO")

====

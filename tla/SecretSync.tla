------------------------------ MODULE SecretSync ------------------------------
(***************************************************************************)
(* The inference-proxy's copy of the inference secrets: internal/etcd      *)
(* (the first fetch and the watch), internal/secrets (the map behind a     *)
(* sync.RWMutex, with its fallback to etcd) and the part of main.go that   *)
(* starts and ends them.                                                   *)
(*                                                                         *)
(* etcd is the history of the store, one content per revision; a secret is *)
(* known by the revision that stored it.  A watch response carries every   *)
(* change of the revisions it covers; the watcher applies them one by one, *)
(* each under the write lock, while requests read.                         *)
(***************************************************************************)
EXTENDS Integers, Sequences, FiniteSets

CONSTANTS
  Ids,        \* ids of inference secrets
  Readers,    \* requests in flight that look a secret up
  NoId,       \* a reader is not looking anything up
  MaxRev      \* bound: revisions of the store

ASSUME IdsAssumption == NoId \notin Ids
ASSUME BoundAssumption == MaxRev \in Nat

VARIABLES
  hist,          \* hist[r]: content of etcd at revision r
  cache,         \* Secrets.inferenceSecrets
  watchRevision, \* where the next watch starts
  watcher,       \* state of the goroutine in watchSecrets
  next,          \* first revision the running watch has not delivered
  todo,          \* changes of the received response not yet applied
  top,           \* Header.Revision of the received response
  locking,       \* the watcher waits in rwLock.Lock
  processed,     \* history: revision up to which it has applied everything
  pc,            \* state of a reader
  id,            \* secret it looks up
  since,         \* history: revision of the store when it began
  seen,          \* history: processed when it began
  unasked,       \* history: its request to etcd failed
  out,           \* what it got: the revision that stored the secret, or Missing
  phase,         \* state of main
  cancelled      \* the signal context is done

cacheVars == <<cache, watchRevision>>
watchVars == <<watcher, next, todo, top, locking, processed>>
readVars == <<pc, id, since, seen, unasked, out>>
mainVars == <<phase, cancelled>>
vars == <<hist, cacheVars, watchVars, readVars, mainVars>>

Absent == 0       \* content: no secret under this id
Missing == -1     \* result: Get returns false

Contents == [Ids -> Nat]
Latest == hist[Len(hist)]
Changed(r) == {i \in Ids : hist[r][i] # hist[r - 1][i]}
Changes(from, to) == {c \in (from .. to) \X Ids : c[2] \in Changed(c[1])}

Init ==
  /\ \E S \in SUBSET Ids : hist = <<[i \in Ids |-> IF i \in S THEN 1 ELSE Absent]>>
  /\ cache = [i \in Ids |-> Absent]
  /\ watchRevision = 0
  /\ watcher = "none" /\ next = 0 /\ todo = {} /\ top = 0 /\ locking = FALSE
  /\ processed = 0
  /\ pc = [r \in Readers |-> "idle"]
  /\ id = [r \in Readers |-> NoId]
  /\ since = [r \in Readers |-> 0] /\ seen = [r \in Readers |-> 0]
  /\ unasked = [r \in Readers |-> FALSE]
  /\ out = [r \in Readers |-> Absent]
  /\ phase = "setup" /\ cancelled = FALSE

-----------------------------------------------------------------------------
(* The secret service writes: one transaction stores, deletes or lets      *)
(* expire several secrets at once, and never overwrites one.               *)

Commit(content) ==
  /\ Len(hist) < MaxRev
  /\ hist' = Append(hist, content)
  /\ UNCHANGED <<cacheVars, watchVars, readVars, mainVars>>

Put(S) ==
  /\ \A i \in S : Latest[i] = Absent
  /\ Commit([i \in Ids |-> IF i \in S THEN Len(hist) + 1 ELSE Latest[i]])

Remove(S) ==
  /\ \A i \in S : Latest[i] # Absent
  /\ Commit([i \in Ids |-> IF i \in S THEN Absent ELSE Latest[i]])

-----------------------------------------------------------------------------
(* setUpEtcdSync and the end of run.                                       *)

\* Fault: the watch starts behind the revision that was fetched next.
FetchSecretsSkip ==
  /\ phase = "setup"
  /\ cache' = Latest
  /\ watchRevision' = Len(hist) + 2 /\ next' = Len(hist) + 2
  /\ watcher' = "select" /\ top' = Len(hist) /\ processed' = Len(hist)
  /\ phase' = "serving"
  /\ UNCHANGED <<hist, todo, locking, readVars, cancelled>>

FetchSecrets ==
  /\ phase = "setup"
  /\ cache' = Latest
  /\ watchRevision' = Len(hist) + 1 /\ next' = Len(hist) + 1
  /\ watcher' = "select" /\ top' = Len(hist) /\ processed' = Len(hist)
  /\ phase' = "serving"
  /\ UNCHANGED <<hist, todo, locking, readVars, cancelled>>

\* No watcher was started; setUpEtcdSync closes the client before it returns.
FetchFails ==
  /\ phase = "setup"
  /\ phase' = "closing"
  /\ UNCHANGED <<hist, cacheVars, watchVars, readVars, cancelled>>

Interrupt ==
  /\ ~cancelled
  /\ cancelled' = TRUE
  /\ UNCHANGED <<hist, cacheVars, watchVars, readVars, phase>>

\* wg.Wait returns, after the signal or because a server failed; the deferred
\* closeClient runs.
ServersStop ==
  /\ phase = "serving"
  /\ phase' = "closing"
  /\ UNCHANGED <<hist, cacheVars, watchVars, readVars, cancelled>>

\* closeChan is unbuffered: the send needs the watcher at its select.
Close ==
  /\ phase = "closing" /\ watcher = "select"
  /\ phase' = "stopped" /\ watcher' = "exited"
  /\ UNCHANGED <<hist, cacheVars, next, todo, top, locking, processed, readVars, cancelled>>

-----------------------------------------------------------------------------
(* watchSecrets.                                                           *)

WatcherDone ==
  /\ watcher = "select" /\ cancelled
  /\ watcher' = "exited"
  /\ UNCHANGED <<hist, cacheVars, next, todo, top, locking, processed, readVars, mainVars>>

\* The context closed the watch channel: a receive yields the zero response,
\* which is no error and whose header has revision 0.
ZeroResponse ==
  /\ watcher = "select" /\ cancelled
  /\ watchRevision' = 0
  /\ UNCHANGED <<hist, cache, watchVars, readVars, mainVars>>

\* A response with the changes of the revisions up to hi.
Deliver(hi) ==
  /\ watcher = "select"
  /\ Changes(next, hi) # {}
  /\ todo' = Changes(next, hi) /\ top' = hi
  /\ next' = hi + 1
  /\ watcher' = "apply"
  /\ UNCHANGED <<hist, cacheVars, locking, processed, readVars, mainVars>>

\* Set or Delete asks for the write lock: new readers wait from now on.
Announce ==
  /\ watcher = "apply" /\ ~locking
  /\ locking' = TRUE
  /\ UNCHANGED <<hist, cacheVars, watcher, next, todo, top, processed, readVars,
                 mainVars>>

Reading == {r \in Readers : pc[r] = "fallback"}

\* Fault: the response's changes are applied in any order.
ApplyUnordered(c) ==
  /\ locking /\ Reading = {}
  /\ c \in todo
  /\ cache' = [cache EXCEPT ![c[2]] = hist[c[1]][c[2]]]
  /\ todo' = todo \ {c}
  /\ locking' = FALSE
  /\ IF todo' = {}
     THEN watcher' = "select" /\ watchRevision' = top /\ processed' = top
     ELSE UNCHANGED <<watcher, watchRevision, processed>>
  /\ UNCHANGED <<hist, next, top, readVars, mainVars>>

\* Fault: the revision to restart from stays where the first watch began.
ApplyStaleRevision(c) ==
  /\ locking /\ Reading = {}
  /\ c \in todo /\ \A d \in todo : c[1] <= d[1]
  /\ cache' = [cache EXCEPT ![c[2]] = hist[c[1]][c[2]]]
  /\ todo' = todo \ {c}
  /\ locking' = FALSE
  /\ IF todo' = {}
     THEN watcher' = "select" /\ processed' = top
     ELSE UNCHANGED <<watcher, processed>>
  /\ UNCHANGED <<hist, watchRevision, next, top, readVars, mainVars>>

\* Fault: delete events are passed over.
ApplyPutsOnly(c) ==
  /\ locking /\ Reading = {}
  /\ c \in todo /\ \A d \in todo : c[1] <= d[1]
  /\ cache' = IF hist[c[1]][c[2]] = Absent THEN cache
              ELSE [cache EXCEPT ![c[2]] = hist[c[1]][c[2]]]
  /\ todo' = todo \ {c}
  /\ locking' = FALSE
  /\ IF todo' = {}
     THEN watcher' = "select" /\ watchRevision' = top /\ processed' = top
     ELSE UNCHANGED <<watcher, watchRevision, processed>>
  /\ UNCHANGED <<hist, next, top, readVars, mainVars>>

\* Fault: Delete does not release the write lock.
ApplyDeleteLocked(c) ==
  /\ locking /\ Reading = {}
  /\ c \in todo /\ \A d \in todo : c[1] <= d[1]
  /\ cache' = [cache EXCEPT ![c[2]] = hist[c[1]][c[2]]]
  /\ todo' = todo \ {c}
  /\ locking' = (hist[c[1]][c[2]] = Absent)
  /\ IF todo' = {}
     THEN watcher' = "select" /\ watchRevision' = top /\ processed' = top
     ELSE UNCHANGED <<watcher, watchRevision, processed>>
  /\ UNCHANGED <<hist, next, top, readVars, mainVars>>

\* The change with the lowest revision is applied; after the last one the
\* response's revision becomes the one to restart from.
Apply(c) ==
  /\ locking /\ Reading = {}
  /\ c \in todo /\ \A d \in todo : c[1] <= d[1]
  /\ cache' = [cache EXCEPT ![c[2]] = hist[c[1]][c[2]]]
  /\ todo' = todo \ {c}
  /\ locking' = FALSE
  /\ IF todo' = {}
     THEN watcher' = "select" /\ watchRevision' = top /\ processed' = top
     ELSE UNCHANGED <<watcher, watchRevision, processed>>
  /\ UNCHANGED <<hist, next, top, readVars, mainVars>>

\* Fault: the new watch starts at the store's current revision.
RestartNow ==
  /\ watcher = "select" /\ ~cancelled
  /\ next' = Len(hist) + 1
  /\ UNCHANGED <<hist, cacheVars, watcher, todo, top, locking, processed, readVars,
                 mainVars>>

\* Err or Canceled: a new watch at watchRevision.  (Once the context is done a
\* new watch ends before it delivers anything.)
Restart ==
  /\ watcher = "select" /\ ~cancelled
  /\ next' = watchRevision
  /\ UNCHANGED <<hist, cacheVars, watcher, todo, top, locking, processed, readVars,
                 mainVars>>

-----------------------------------------------------------------------------
(* Secrets.Get, called by the cipher of a request.                         *)

Begin(r, i) ==
  /\ phase = "serving" /\ pc[r] = "idle"
  /\ pc' = [pc EXCEPT ![r] = "wait"]
  /\ id' = [id EXCEPT ![r] = i]
  /\ since' = [since EXCEPT ![r] = Len(hist)]
  /\ seen' = [seen EXCEPT ![r] = processed]
  /\ UNCHANGED <<hist, cacheVars, watchVars, unasked, out, mainVars>>

\* Get comes back with v and has released the read lock.
Return(r, v) ==
  /\ pc' = [pc EXCEPT ![r] = "done"]
  /\ out' = [out EXCEPT ![r] = v]
  /\ UNCHANGED <<hist, cacheVars, watchVars, id, since, seen, mainVars>>

Hit(r) ==
  /\ pc[r] = "wait" /\ ~locking
  /\ cache[id[r]] # Absent
  /\ Return(r, cache[id[r]]) /\ UNCHANGED unasked

\* Fault: a secret that is not in the map is reported missing.
MissWithoutFallback(r) ==
  /\ pc[r] = "wait" /\ ~locking
  /\ cache[id[r]] = Absent
  /\ Return(r, Missing) /\ UNCHANGED unasked

\* The read lock is held until etcd has answered.
Miss(r) ==
  /\ pc[r] = "wait" /\ ~locking
  /\ cache[id[r]] = Absent
  /\ pc' = [pc EXCEPT ![r] = "fallback"]
  /\ UNCHANGED <<hist, cacheVars, watchVars, id, since, seen, unasked, out, mainVars>>

\* etcd's answer, which is not put into the map.
Fallback(r) ==
  /\ pc[r] = "fallback"
  /\ Return(r, IF Latest[id[r]] = Absent THEN Missing ELSE Latest[id[r]])
  /\ UNCHANGED unasked

\* etcd is unreachable or the request's context is done: Get drops the error,
\* and its caller is told the same as for a secret that does not exist.
FallbackFails(r) ==
  /\ pc[r] = "fallback"
  /\ Return(r, Missing)
  /\ unasked' = [unasked EXCEPT ![r] = TRUE]

Finish(r) ==
  /\ pc[r] = "done"
  /\ pc' = [pc EXCEPT ![r] = "idle"]
  /\ id' = [id EXCEPT ![r] = NoId]
  /\ since' = [since EXCEPT ![r] = 0] /\ seen' = [seen EXCEPT ![r] = 0]
  /\ unasked' = [unasked EXCEPT ![r] = FALSE]
  /\ out' = [out EXCEPT ![r] = Absent]
  /\ UNCHANGED <<hist, cacheVars, watchVars, mainVars>>

-----------------------------------------------------------------------------
Store == \E S \in SUBSET Ids \ {{}} : Put(S) \/ Remove(S)

Main == FetchSecrets \/ FetchFails \/ Interrupt \/ ServersStop \/ Close

Watch ==
  \/ WatcherDone \/ ZeroResponse \/ Announce \/ Restart
  \/ \E hi \in next .. Len(hist) : Deliver(hi)
  \/ \E c \in todo : Apply(c)

Get(r) == Hit(r) \/ Miss(r) \/ Fallback(r) \/ FallbackFails(r)

Read(r) == Get(r) \/ Finish(r) \/ \E i \in Ids : Begin(r, i)

Next == Store \/ Main \/ Watch \/ \E r \in Readers : Read(r)

\* Goroutines are scheduled, etcd answers a Get or the call fails, a blocked
\* reader gets in when the writer unlocks, and a watch that is interrupted
\* again and again is also, again and again, given what it has missed.
Fairness ==
  /\ WF_vars(FetchSecrets \/ FetchFails) /\ SF_vars(Close) /\ WF_vars(WatcherDone)
  /\ WF_vars(Announce) /\ WF_vars(\E c \in todo : Apply(c))
  /\ SF_vars(Deliver(Len(hist)))
  /\ \A r \in Readers : SF_vars(Hit(r) \/ Miss(r)) /\ WF_vars(Fallback(r) \/ FallbackFails(r))

Spec == Init /\ [][Next]_vars
FairSpec == Spec /\ Fairness

-----------------------------------------------------------------------------
(* Properties.                                                             *)

\* Every variable keeps its type.
TypeOK ==
  /\ hist \in Seq(Contents) /\ Len(hist) >= 1
  /\ cache \in Contents
  /\ watchRevision \in Nat /\ next \in Nat /\ top \in Nat /\ processed \in Nat
  /\ watcher \in {"none", "select", "apply", "exited"}
  /\ todo \in SUBSET (Nat \X Ids)
  /\ locking \in BOOLEAN
  /\ pc \in [Readers -> {"idle", "wait", "fallback", "done"}]
  /\ id \in [Readers -> Ids \cup {NoId}]
  /\ since \in [Readers -> Nat] /\ seen \in [Readers -> Nat]
  /\ unasked \in [Readers -> BOOLEAN]
  /\ out \in [Readers -> Int]
  /\ phase \in {"setup", "serving", "closing", "stopped"}
  /\ cancelled \in BOOLEAN

\* The map is one content of etcd, the one at the last revision the watcher
\* has processed, but for the changes of the response it is working on: over
\* restarts and redelivery no change is lost, mixed up or left half applied.
CacheIsOneRevision ==
  watcher # "none" =>
    \A i \in Ids : (\A c \in todo : c[2] # i) => cache[i] = hist[top][i]

\* The map never goes back: whatever restarts and redelivery bring, the watcher
\* changes an entry only to what a revision made of it that was not processed
\* before, so a secret it has dropped does not come back.
CacheNeverGoesBack ==
  [][watcher = "apply" =>
       \A i \in Ids : cache'[i] # cache[i] =>
         \E v \in processed + 1 .. Len(hist) :
            i \in Changed(v) /\ hist[v][i] = cache'[i]]_vars

\* What a lookup may answer while the map is behind etcd, half way through a
\* response, or given one a second time.  A secret it finds was in etcd at a
\* revision no older than the map was when the lookup began: none that was seen
\* to be deleted or expired comes back.  It finds nothing only if etcd lacked
\* the secret at a moment of the lookup, however late the watch is, or could
\* not be asked; the caller cannot tell which of the two.
FoundIsFresh(r) == \E v \in seen[r] .. Len(hist) : hist[v][id[r]] = out[r]
AbsentMeanwhile(r) == \E v \in since[r] .. Len(hist) : hist[v][id[r]] = Absent
LookupIsFresh ==
  \A r \in Readers : pc[r] = "done" =>
    IF out[r] = Missing THEN AbsentMeanwhile(r) \/ unasked[r] ELSE FoundIsFresh(r)

\* The map catches up with etcd for as long as the watch is not told to end.
Behind == phase = "serving" /\ ~cancelled /\ cache # Latest
CacheCatchesUp == Behind ~> ~Behind

\* Every lookup comes back, whoever waits for the write lock.
LookupsReturn ==
  \A r \in Readers : pc[r] \in {"wait", "fallback"} ~> pc[r] = "done"

\* After the servers have stopped the process ends.
CloseReturns == phase = "closing" ~> phase = "stopped"
=============================================================================

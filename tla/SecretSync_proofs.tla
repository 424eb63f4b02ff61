-------------------------- MODULE SecretSync_proofs --------------------------
(***************************************************************************)
(* Proofs about SecretSync: types, the map's consistency with one revision *)
(* of etcd, that it never goes back, and what lookups answer, for any sets *)
(* of ids and readers and any number of revisions.                         *)
(***************************************************************************)
EXTENDS SecretSync, TLAPS

\* An entry that no revision between r and s changed is the same in both.
HistoryIsChained ==
  \A r, s \in 1 .. Len(hist), i \in Ids :
    r <= s /\ (\A k \in r + 1 .. s : i \notin Changed(k)) => hist[r][i] = hist[s][i]

PhaseInv ==
  /\ phase = "setup" => watcher = "none"
  /\ phase = "serving" => watcher # "none"
  /\ watcher = "none" => ~locking /\ todo = {}

\* Between two responses the map is the content at the processed revision,
\* and a watch starts there or right after it.
SelectInv ==
  watcher \in {"select", "exited"} =>
    /\ todo = {} /\ ~locking
    /\ top = processed /\ processed \in 1 .. Len(hist)
    /\ cache = hist[processed]
    /\ next \in {processed, processed + 1} /\ next >= 2
    /\ cancelled \/ (watchRevision \in {processed, processed + 1} /\ watchRevision >= 2)

\* Within a response: what was delivered a second time is applied before the
\* map leaves the processed revision.
ApplyInv ==
  watcher = "apply" =>
    /\ todo # {}
    /\ top \in 2 .. Len(hist) /\ processed \in 1 .. top
    /\ \A c \in todo :
         /\ c[1] \in processed .. top /\ c[1] >= 2
         /\ c[2] \in Changed(c[1])
         /\ c[1] = processed => cache = hist[processed]
    /\ \A i \in Ids : (\A c \in todo : c[2] # i) => cache[i] = hist[top][i]
    /\ \A c \in todo, i \in Ids :
         (\A d \in todo : d[2] = i => d[1] <= c[1]) /\ c[2] = i => hist[top][i] = hist[c[1]][i]
    /\ next = top + 1

\* Even within a response no entry of the map is older than what was processed.
MapInv ==
  watcher # "none" =>
    /\ processed \in 1 .. Len(hist)
    /\ \A i \in Ids : \E k \in processed .. Len(hist) : cache[i] = hist[k][i]

ReadInv ==
  \A r \in Readers :
    /\ since[r] <= Len(hist)
    /\ pc[r] # "idle" =>
         /\ since[r] >= 1 /\ id[r] \in Ids
         /\ watcher # "none" /\ seen[r] >= 1 /\ seen[r] <= processed

IInv ==
  /\ TypeOK /\ HistoryIsChained /\ PhaseInv /\ SelectInv /\ ApplyInv
  /\ MapInv /\ ReadInv /\ LookupIsFresh

-----------------------------------------------------------------------------
(* The history of the store.                                               *)

\* Appending a content leaves the earlier revisions and their changes alone.
LEMMA HistoryGrows ==
  ASSUME TypeOK, NEW content \in Contents, hist' = Append(hist, content)
  PROVE  /\ hist' \in Seq(Contents) /\ Len(hist') = Len(hist) + 1
         /\ hist'[Len(hist) + 1] = content
         /\ \A r \in 1 .. Len(hist) : hist'[r] = hist[r]
         /\ \A r \in 2 .. Len(hist) : Changed(r)' = Changed(r)
<1>1. hist \in Seq(Contents) /\ Len(hist) \in Nat /\ Len(hist) >= 1
  BY DEF TypeOK
<1>2. hist' \in Seq(Contents) /\ Len(hist') = Len(hist) + 1
      /\ hist'[Len(hist) + 1] = content
      /\ \A r \in 1 .. Len(hist) : hist'[r] = hist[r]
  BY <1>1
<1>3. \A r \in 2 .. Len(hist) : Changed(r)' = Changed(r)
  BY <1>1, <1>2 DEF Changed
<1> QED
  BY <1>2, <1>3

\* Every revision of the store is a content.
LEMMA RevisionType ==
  ASSUME TypeOK, NEW r \in 1 .. Len(hist)
  PROVE  hist[r] \in Contents /\ \A i \in Ids : hist[r][i] \in Nat
BY DEF TypeOK, Contents

\* The history stays chained when a content is appended.
LEMMA ChainGrows ==
  ASSUME TypeOK, HistoryIsChained, NEW content \in Contents,
         hist' = Append(hist, content)
  PROVE  HistoryIsChained'
<1> SUFFICES ASSUME NEW r \in 1 .. Len(hist'), NEW s \in 1 .. Len(hist'), NEW i \in Ids,
                    r <= s, \A k \in r + 1 .. s : i \notin Changed(k)'
             PROVE  hist'[r][i] = hist'[s][i]
  BY DEF HistoryIsChained
<1>0. Len(hist) \in Nat /\ Len(hist) >= 1
  BY DEF TypeOK
<1>1. /\ Len(hist') = Len(hist) + 1
      /\ \A q \in 1 .. Len(hist) : hist'[q] = hist[q]
      /\ \A q \in 2 .. Len(hist) : Changed(q)' = Changed(q)
  BY HistoryGrows
<1>2. CASE s <= Len(hist)
  <2>1. r \in 1 .. Len(hist) /\ s \in 1 .. Len(hist)
    BY <1>0, <1>1, <1>2
  <2>2. \A k \in r + 1 .. s : i \notin Changed(k)
    BY <1>0, <1>1, <2>1
  <2> QED
    BY <1>1, <2>1, <2>2 DEF HistoryIsChained
<1>3. CASE s = Len(hist) + 1 /\ r = s
  BY <1>3
<1>4. CASE s = Len(hist) + 1 /\ r < s
  <2>1. r \in 1 .. Len(hist) /\ Len(hist) \in 1 .. Len(hist)
    BY <1>0, <1>1, <1>4
  <2>2. \A k \in r + 1 .. Len(hist) : i \notin Changed(k)
    BY <1>0, <1>1, <1>4, <2>1
  <2>3. hist[r][i] = hist[Len(hist)][i]
    BY <2>1, <2>2 DEF HistoryIsChained
  <2>4. hist'[s][i] = hist'[s - 1][i]
    BY <1>0, <1>4, <2>1 DEF Changed
  <2> QED
    BY <1>0, <1>1, <1>4, <2>1, <2>3, <2>4
<1> QED
  BY <1>0, <1>1, <1>2, <1>3, <1>4

\* Steps of the watcher and of main leave the history and the lookups alone.
LEMMA LookupsStay ==
  ASSUME HistoryIsChained, LookupIsFresh, UNCHANGED <<hist, readVars>>
  PROVE  HistoryIsChained' /\ LookupIsFresh'
<1>1. UNCHANGED <<hist, pc, id, since, seen, unasked, out>>
  BY DEF readVars
<1>2. HistoryIsChained'
  BY <1>1 DEF HistoryIsChained, Changed
<1>3. LookupIsFresh'
  BY <1>1 DEF LookupIsFresh, FoundIsFresh, AbsentMeanwhile
<1> QED
  BY <1>2, <1>3

-----------------------------------------------------------------------------
(* IInv is inductive: one lemma for each group of actions.                 *)

\* The invariant holds initially.
LEMMA IInvInit == Init => IInv
<1> SUFFICES ASSUME Init PROVE IInv
  OBVIOUS
<1>1. PICK S \in SUBSET Ids : hist = <<[i \in Ids |-> IF i \in S THEN 1 ELSE Absent]>>
  BY DEF Init
<1>2. hist \in Seq(Contents) /\ Len(hist) = 1
  BY <1>1 DEF Contents, Absent
<1>3. TypeOK
  <2>1. cache \in Contents /\ watchRevision \in Nat /\ next \in Nat /\ top \in Nat
        /\ processed \in Nat /\ todo \in SUBSET (Nat \X Ids) /\ locking \in BOOLEAN
    BY DEF Init, Contents, Absent
  <2>2. /\ pc \in [Readers -> {"idle", "wait", "fallback", "done"}]
        /\ id \in [Readers -> Ids \cup {NoId}]
        /\ since \in [Readers -> Nat] /\ seen \in [Readers -> Nat]
        /\ unasked \in [Readers -> BOOLEAN]
        /\ out \in [Readers -> Int]
    BY DEF Init, Absent
  <2>3. /\ watcher \in {"none", "select", "apply", "exited"}
        /\ phase \in {"setup", "serving", "closing", "stopped"}
        /\ cancelled \in BOOLEAN
    BY DEF Init
  <2> QED
    BY <1>2, <2>1, <2>2, <2>3 DEF TypeOK
<1>4. HistoryIsChained
  BY <1>2 DEF HistoryIsChained
<1>5. PhaseInv /\ SelectInv /\ ApplyInv
  BY DEF Init, PhaseInv, SelectInv, ApplyInv
<1>6. MapInv /\ ReadInv /\ LookupIsFresh
  BY <1>2 DEF Init, MapInv, ReadInv, LookupIsFresh
<1> QED
  BY <1>3, <1>4, <1>5, <1>6 DEF IInv

\* The secret service commits a new content.
LEMMA StoreStep == IInv /\ Store => IInv'
<1> SUFFICES ASSUME IInv, Store PROVE IInv'
  OBVIOUS
<1> USE DEF IInv
<1>0. hist \in Seq(Contents) /\ Len(hist) \in Nat /\ Len(hist) >= 1
  BY DEF TypeOK
<1>1. PICK content \in Contents : Commit(content)
  <2>1. Latest \in [Ids -> Nat]
    BY <1>0, RevisionType DEF Latest, Contents
  <2>2. \A S \in SUBSET Ids :
          /\ [i \in Ids |-> IF i \in S THEN Len(hist) + 1 ELSE Latest[i]] \in Contents
          /\ [i \in Ids |-> IF i \in S THEN Absent ELSE Latest[i]] \in Contents
    BY <1>0, <2>1 DEF Contents, Absent
  <2> QED
    BY <2>2 DEF Store, Put, Remove
<1>2. /\ hist' = Append(hist, content)
      /\ UNCHANGED <<cacheVars, watchVars, readVars, mainVars>>
  BY <1>1 DEF Commit
<1>3. /\ hist' \in Seq(Contents) /\ Len(hist') = Len(hist) + 1
      /\ \A r \in 1 .. Len(hist) : hist'[r] = hist[r]
      /\ \A r \in 2 .. Len(hist) : Changed(r)' = Changed(r)
  BY <1>2, HistoryGrows
<1>4. TypeOK'
  BY <1>0, <1>2, <1>3 DEF TypeOK, cacheVars, watchVars, readVars, mainVars
<1>5. HistoryIsChained'
  BY <1>2, ChainGrows
<1>6. PhaseInv'
  BY <1>2 DEF PhaseInv, cacheVars, watchVars, readVars, mainVars
<1>7. SelectInv'
  BY <1>0, <1>2, <1>3 DEF SelectInv, TypeOK, cacheVars, watchVars, readVars, mainVars
<1>8. ApplyInv'
  <2> SUFFICES ASSUME watcher = "apply" PROVE ApplyInv'
    BY <1>2 DEF ApplyInv, watchVars
  <2>1. UNCHANGED <<cache, watcher, next, todo, top, processed>>
    BY <1>2 DEF cacheVars, watchVars
  <2>2. top \in 2 .. Len(hist) /\ top \in 2 .. Len(hist') /\ processed \in 1 .. top
    BY <1>0, <1>3 DEF ApplyInv
  <2>3. hist'[top] = hist[top] /\ hist'[processed] = hist[processed]
    BY <1>0, <1>3, <2>2
  <2>4. \A c \in todo : c[1] \in 2 .. Len(hist) /\ hist'[c[1]] = hist[c[1]]
                        /\ Changed(c[1])' = Changed(c[1])
    BY <1>0, <1>3, <2>2 DEF ApplyInv
  <2>5. \A c \in todo : /\ c[1] \in processed .. top /\ c[1] >= 2
                        /\ c[2] \in Changed(c[1])'
                        /\ c[1] = processed => cache = hist'[processed]
    BY <2>3, <2>4 DEF ApplyInv
  <2>6. /\ \A i \in Ids : (\A c \in todo : c[2] # i) => cache[i] = hist'[top][i]
        /\ \A c \in todo, i \in Ids :
             (\A d \in todo : d[2] = i => d[1] <= c[1]) /\ c[2] = i
               => hist'[top][i] = hist'[c[1]][i]
    BY <2>3, <2>4 DEF ApplyInv
  <2>7. todo # {} /\ next = top + 1
    BY DEF ApplyInv
  <2> HIDE DEF IInv
  <2> QED
    BY <2>1, <2>2, <2>5, <2>6, <2>7 DEF ApplyInv
<1>9. ReadInv'
  BY <1>0, <1>2, <1>3 DEF ReadInv, TypeOK, cacheVars, watchVars, readVars, mainVars
<1>10. MapInv'
  <2> SUFFICES ASSUME watcher # "none", NEW i \in Ids
               PROVE  /\ processed \in 1 .. Len(hist')
                      /\ \E k \in processed .. Len(hist') : cache[i] = hist'[k][i]
    BY <1>2 DEF MapInv, cacheVars, watchVars
  <2>1. processed \in 1 .. Len(hist)
    BY DEF MapInv
  <2>2. PICK k \in processed .. Len(hist) : cache[i] = hist[k][i]
    BY DEF MapInv
  <2>3. k \in 1 .. Len(hist) /\ k \in processed .. Len(hist')
    BY <1>0, <1>3, <2>1
  <2> QED
    BY <1>0, <1>3, <2>1, <2>2, <2>3
<1>11. LookupIsFresh'
  <2> SUFFICES ASSUME NEW r \in Readers, pc[r] = "done"
               PROVE  IF out[r] = Missing THEN AbsentMeanwhile(r)' \/ unasked[r]
                                          ELSE FoundIsFresh(r)'
    BY <1>2 DEF LookupIsFresh, readVars
  <2>1. /\ since[r] \in 1 .. Len(hist) /\ seen[r] \in Nat /\ seen[r] >= 1
        /\ UNCHANGED <<id, since, seen, out>>
    BY <1>0, <1>2 DEF TypeOK, ReadInv, readVars
  <2>2. \A v : /\ v \in since[r] .. Len(hist) => v \in since[r] .. Len(hist') /\ hist'[v] = hist[v]
               /\ v \in seen[r] .. Len(hist) => v \in seen[r] .. Len(hist') /\ hist'[v] = hist[v]
    BY <1>0, <1>3, <2>1
  <2>3. AbsentMeanwhile(r) => AbsentMeanwhile(r)'
    BY <2>1, <2>2 DEF AbsentMeanwhile
  <2>4. FoundIsFresh(r) => FoundIsFresh(r)'
    BY <2>1, <2>2 DEF FoundIsFresh
  <2> QED
    BY <2>3, <2>4 DEF LookupIsFresh
<1> QED
  BY <1>4, <1>5, <1>6, <1>7, <1>8, <1>9, <1>10, <1>11

\* main starts and ends the watch, or the watch ends with the context.
LEMMA MainStep == IInv /\ (Main \/ WatcherDone \/ ZeroResponse) => IInv'
<1> SUFFICES ASSUME IInv, Main \/ WatcherDone \/ ZeroResponse PROVE IInv'
  OBVIOUS
<1>0. hist \in Seq(Contents) /\ Len(hist) \in Nat /\ Len(hist) >= 1
  BY DEF IInv, TypeOK
<1>1. hist' = hist /\ UNCHANGED readVars
  BY DEF Main, FetchSecrets, FetchFails, Interrupt, ServersStop, Close, WatcherDone,
         ZeroResponse
<1>2. HistoryIsChained' /\ LookupIsFresh'
  BY <1>1, LookupsStay DEF IInv
<1>3. CASE FetchSecrets
  <2>1. Latest \in Contents
    BY <1>0, RevisionType DEF IInv, Latest
  <2>2. TypeOK'
    BY <1>0, <1>1, <1>3, <2>1 DEF IInv, TypeOK, FetchSecrets, readVars
  <2>3. PhaseInv' /\ SelectInv' /\ ApplyInv'
    BY <1>0, <1>1, <1>3
    DEF IInv, TypeOK, FetchSecrets, PhaseInv, SelectInv, ApplyInv, Latest
  <2>4. MapInv' /\ ReadInv'
    BY <1>0, <1>1, <1>3 DEF IInv, FetchSecrets, MapInv, ReadInv, PhaseInv, Latest, readVars
  <2> QED
    BY <1>2, <2>2, <2>3, <2>4 DEF IInv
<1>4. CASE FetchFails \/ Interrupt \/ ServersStop
  <2>1. UNCHANGED <<hist, cacheVars, watchVars, readVars>>
    BY <1>1, <1>4 DEF FetchFails, Interrupt, ServersStop
  <2>2. TypeOK'
    BY <1>4, <2>1 DEF IInv, TypeOK, FetchFails, Interrupt, ServersStop, cacheVars,
                      watchVars, readVars
  <2>3. PhaseInv'
    BY <1>4, <2>1 DEF IInv, PhaseInv, FetchFails, Interrupt, ServersStop, watchVars
  <2>4. SelectInv'
    BY <1>4, <2>1 DEF IInv, SelectInv, FetchFails, Interrupt, ServersStop, watchVars,
                      cacheVars
  <2>5. ApplyInv'
    BY <2>1 DEF IInv, ApplyInv, Changed, watchVars, cacheVars
  <2>6. MapInv' /\ ReadInv'
    BY <2>1 DEF IInv, MapInv, ReadInv, watchVars, cacheVars, readVars
  <2> QED
    BY <1>2, <2>2, <2>3, <2>4, <2>5, <2>6 DEF IInv
<1>5. CASE Close \/ WatcherDone
  <2>1. TypeOK'
    BY <1>1, <1>5 DEF IInv, TypeOK, Close, WatcherDone, readVars, cacheVars, mainVars
  <2>2. PhaseInv' /\ SelectInv' /\ ApplyInv'
    BY <1>1, <1>5 DEF IInv, PhaseInv, SelectInv, ApplyInv, Close, WatcherDone, cacheVars,
                      mainVars
  <2>3. MapInv' /\ ReadInv'
    BY <1>1, <1>5 DEF IInv, MapInv, ReadInv, Close, WatcherDone, cacheVars, readVars
  <2> QED
    BY <1>2, <2>1, <2>2, <2>3 DEF IInv
<1>6. CASE ZeroResponse
  <2>1. TypeOK'
    BY <1>1, <1>6 DEF IInv, TypeOK, ZeroResponse, readVars, watchVars, mainVars
  <2>2. PhaseInv' /\ SelectInv' /\ ApplyInv'
    BY <1>1, <1>6 DEF IInv, PhaseInv, SelectInv, ApplyInv, ZeroResponse, watchVars, mainVars
  <2>3. MapInv' /\ ReadInv'
    BY <1>1, <1>6 DEF IInv, MapInv, ReadInv, ZeroResponse, watchVars, readVars
  <2> QED
    BY <1>2, <2>1, <2>2, <2>3 DEF IInv
<1> QED
  BY <1>3, <1>4, <1>5, <1>6 DEF Main

\* A response arrives: its changes lead from the map to the content at its
\* last revision.
LEMMA DeliverStep ==
  ASSUME IInv, NEW hi \in next .. Len(hist), Deliver(hi)
  PROVE  IInv'
<1>0. hist \in Seq(Contents) /\ Len(hist) \in Nat /\ Len(hist) >= 1 /\ next \in Nat
  BY DEF IInv, TypeOK
<1>1. /\ watcher = "select" /\ todo = {} /\ ~locking
      /\ top = processed /\ processed \in 1 .. Len(hist) /\ cache = hist[processed]
      /\ next \in {processed, processed + 1} /\ next >= 2
  BY DEF IInv, SelectInv, Deliver
<1>2. /\ todo' = Changes(next, hi) /\ top' = hi /\ next' = hi + 1 /\ watcher' = "apply"
      /\ Changes(next, hi) # {}
      /\ UNCHANGED <<hist, cacheVars, locking, processed, readVars, mainVars>>
  BY DEF Deliver
<1>3. hi \in 2 .. Len(hist) /\ processed \in 1 .. hi /\ hi \in 1 .. Len(hist)
  BY <1>0, <1>1
<1>4. \A k \in next .. hi, i \in Ids : i \in Changed(k) <=> <<k, i>> \in todo'
  BY <1>2 DEF Changes
<1>5. \A c \in todo' : /\ c = <<c[1], c[2]>> /\ c[1] \in next .. hi
                       /\ c[2] \in Ids /\ c[2] \in Changed(c[1])
  BY <1>2 DEF Changes
<1>6. TypeOK'
  <2>1. todo' \in SUBSET (Nat \X Ids)
    BY <1>0, <1>2, <1>5
  <2> QED
    BY <1>0, <1>2, <1>3, <2>1 DEF IInv, TypeOK, cacheVars, readVars, mainVars
<1>7. HistoryIsChained' /\ LookupIsFresh'
  BY <1>2, LookupsStay DEF IInv
<1>8. PhaseInv' /\ SelectInv'
  BY <1>1, <1>2 DEF IInv, PhaseInv, SelectInv, mainVars
<1>10. MapInv' /\ ReadInv'
  BY <1>1, <1>2 DEF IInv, MapInv, ReadInv, cacheVars, readVars
<1>9. ApplyInv'
  <2>1. todo' # {} /\ top' \in 2 .. Len(hist') /\ processed' \in 1 .. top'
        /\ next' = top' + 1
    BY <1>2, <1>3
  <2>2. \A c \in todo' : /\ c[1] \in processed' .. top' /\ c[1] >= 2
                         /\ c[2] \in Changed(c[1])'
                         /\ c[1] = processed' => cache' = hist'[processed']
    <3>1. \A k : Changed(k)' = Changed(k)
      BY <1>2 DEF Changed
    <3> QED
      BY <1>0, <1>1, <1>2, <1>3, <1>5, <3>1 DEF cacheVars
  <2>3. \A i \in Ids : (\A c \in todo' : c[2] # i) => cache'[i] = hist'[top'][i]
    <3> SUFFICES ASSUME NEW i \in Ids, \A c \in todo' : c[2] # i
                 PROVE  hist[processed][i] = hist[hi][i]
      BY <1>1, <1>2 DEF cacheVars
    <3>1. \A k \in processed + 1 .. hi : i \notin Changed(k)
      <4> SUFFICES ASSUME NEW k \in processed + 1 .. hi, i \in Changed(k) PROVE FALSE
        OBVIOUS
      <4>1. k \in next .. hi
        BY <1>0, <1>1, <1>3
      <4> QED
        BY <1>4, <4>1
    <3> QED
      BY <1>1, <1>3, <3>1 DEF IInv, HistoryIsChained
  <2>4. \A c \in todo', i \in Ids :
          (\A d \in todo' : d[2] = i => d[1] <= c[1]) /\ c[2] = i
            => hist'[top'][i] = hist'[c[1]][i]
    <3> SUFFICES ASSUME NEW c \in todo', NEW i \in Ids, c[2] = i,
                        \A d \in todo' : d[2] = i => d[1] <= c[1]
                 PROVE  hist[hi][i] = hist[c[1]][i]
      BY <1>2
    <3>1. c[1] \in 1 .. Len(hist) /\ c[1] <= hi /\ c[1] \in next .. hi
      BY <1>0, <1>1, <1>3, <1>5
    <3>2. \A k \in c[1] + 1 .. hi : i \notin Changed(k)
      <4> SUFFICES ASSUME NEW k \in c[1] + 1 .. hi, i \in Changed(k) PROVE FALSE
        OBVIOUS
      <4>1. k \in next .. hi /\ k > c[1]
        BY <1>0, <1>3, <3>1
      <4>2. <<k, i>> \in todo' /\ <<k, i>>[2] = i /\ <<k, i>>[1] = k
        BY <1>4, <4>1
      <4>3. k <= c[1]
        BY <4>2
      <4> QED
        BY <1>0, <3>1, <4>1, <4>3
    <3> QED
      BY <1>3, <3>1, <3>2 DEF IInv, HistoryIsChained
  <2> QED
    BY <2>1, <2>2, <2>3, <2>4 DEF ApplyInv
<1> QED
  BY <1>6, <1>7, <1>8, <1>9, <1>10 DEF IInv

\* The watcher asks for the write lock, or starts a new watch.
LEMMA AnnounceRestartStep == IInv /\ (Announce \/ Restart) => IInv'
<1> SUFFICES ASSUME IInv, Announce \/ Restart PROVE IInv'
  OBVIOUS
<1>1. UNCHANGED <<hist, cacheVars, watcher, todo, top, processed, readVars, mainVars>>
  BY DEF Announce, Restart
<1>2. HistoryIsChained' /\ LookupIsFresh' /\ MapInv' /\ ReadInv'
  <2>1. HistoryIsChained' /\ LookupIsFresh'
    BY <1>1, LookupsStay DEF IInv
  <2>2. MapInv' /\ ReadInv'
    BY <1>1 DEF IInv, MapInv, ReadInv, cacheVars, readVars
  <2> QED
    BY <2>1, <2>2
<1>3. TypeOK'
  BY <1>1 DEF IInv, TypeOK, Announce, Restart, cacheVars, readVars, mainVars
<1>4. PhaseInv' /\ SelectInv'
  BY <1>1 DEF IInv, TypeOK, PhaseInv, SelectInv, Announce, Restart, cacheVars, mainVars
<1>5. ApplyInv'
  <2>1. watcher = "apply" => next' = next
    BY DEF Announce, Restart
  <2> QED
    BY <1>1, <2>1 DEF IInv, ApplyInv, Changed, cacheVars
<1> QED
  BY <1>2, <1>3, <1>4, <1>5 DEF IInv

\* What is known of the change the watcher applies.
LEMMA ApplyFacts ==
  ASSUME IInv, NEW c \in todo, Apply(c)
  PROVE  /\ watcher = "apply"
         /\ c[1] \in processed .. top /\ c[1] \in 2 .. Len(hist) /\ c[2] \in Ids
         /\ top \in 2 .. Len(hist) /\ processed \in 1 .. top
         /\ \A d \in todo : c[1] <= d[1]
         /\ cache \in Contents /\ hist[c[1]][c[2]] \in Nat
         /\ cache' = [cache EXCEPT ![c[2]] = hist[c[1]][c[2]]]
<1>0. Len(hist) \in Nat /\ cache \in Contents /\ todo \in SUBSET (Nat \X Ids)
  BY DEF IInv, TypeOK
<1>1. watcher = "apply"
  BY DEF IInv, TypeOK, PhaseInv, SelectInv, Apply
<1>2. /\ c[1] \in processed .. top /\ c[1] >= 2 /\ top \in 2 .. Len(hist)
      /\ processed \in 1 .. top
  BY <1>1 DEF IInv, ApplyInv
<1>3. c[1] \in 2 .. Len(hist) /\ c[2] \in Ids
  BY <1>0, <1>2
<1>4. hist[c[1]][c[2]] \in Nat
  BY <1>0, <1>3, RevisionType DEF IInv
<1> QED
  BY <1>0, <1>1, <1>2, <1>3, <1>4 DEF Apply

\* The watcher applies the next change of its response.
LEMMA ApplyStep ==
  ASSUME IInv, NEW c \in todo, Apply(c)
  PROVE  IInv'
<1>1. /\ watcher = "apply"
      /\ c[1] \in processed .. top /\ c[1] \in 2 .. Len(hist) /\ c[2] \in Ids
      /\ top \in 2 .. Len(hist) /\ processed \in 1 .. top
      /\ \A d \in todo : c[1] <= d[1]
      /\ cache \in Contents /\ hist[c[1]][c[2]] \in Nat
      /\ cache' = [cache EXCEPT ![c[2]] = hist[c[1]][c[2]]]
  BY ApplyFacts
<1>2. /\ todo' = todo \ {c} /\ locking' = FALSE
      /\ UNCHANGED <<hist, next, top, readVars, mainVars>>
  BY DEF Apply
<1>4. \/ /\ todo' = {} /\ watcher' = "select" /\ watchRevision' = top /\ processed' = top
      \/ /\ todo' # {} /\ UNCHANGED <<watcher, watchRevision, processed>>
  BY DEF Apply
<1>5. cache' \in Contents
  BY <1>1 DEF Contents
<1>6. TypeOK'
  BY <1>1, <1>2, <1>4, <1>5 DEF IInv, TypeOK, readVars, mainVars
<1>7. HistoryIsChained' /\ LookupIsFresh'
  BY <1>2, LookupsStay DEF IInv
<1>8. PhaseInv'
  BY <1>1, <1>2, <1>4 DEF IInv, PhaseInv, mainVars
<1>9. \A i \in Ids : (\A d \in todo' : d[2] # i) => cache'[i] = hist[top][i]
  <2> SUFFICES ASSUME NEW i \in Ids, \A d \in todo' : d[2] # i
               PROVE  cache'[i] = hist[top][i]
    OBVIOUS
  <2>1. CASE i = c[2]
    <3>1. \A d \in todo : d[2] = i => d[1] <= c[1]
      <4> SUFFICES ASSUME NEW d \in todo, d[2] = i PROVE d[1] <= c[1]
        OBVIOUS
      <4>1. d = c
        BY <1>2
      <4> QED
        BY <1>1, <4>1
    <3>2. hist[top][i] = hist[c[1]][i]
      BY <1>1, <2>1, <3>1 DEF IInv, ApplyInv
    <3> QED
      BY <1>1, <2>1, <3>2 DEF Contents
  <2>2. CASE i # c[2]
    <3>1. \A d \in todo : d[2] # i
      BY <1>2, <2>2
    <3> QED
      BY <1>1, <2>2, <3>1 DEF IInv, ApplyInv, Contents
  <2> QED
    BY <2>1, <2>2
<1>10. SelectInv'
  <2> SUFFICES ASSUME todo' = {} PROVE SelectInv'
    BY <1>1, <1>4 DEF SelectInv
  <2>1. cache' = hist[top]
    <3>1. hist[top] \in Contents
      BY <1>1, RevisionType DEF IInv, TypeOK
    <3> QED
      BY <1>5, <1>9, <3>1 DEF Contents
  <2>2. next = top + 1
    BY <1>1 DEF IInv, ApplyInv
  <2>3. /\ hist' = hist /\ next' = top + 1 /\ top' = top /\ processed' = top
        /\ watchRevision' = top /\ locking' = FALSE
    BY <1>2, <1>4, <2>2
  <2>4. top' = processed' /\ processed' \in 1 .. Len(hist')
        /\ cache' = hist'[processed']
    <3>1. Len(hist) \in Nat /\ top \in 1 .. Len(hist)
      BY <1>1 DEF IInv, TypeOK
    <3> QED
      BY <2>1, <2>3, <3>1
  <2>5. /\ next' \in {processed', processed' + 1} /\ next' >= 2
        /\ watchRevision' \in {processed', processed' + 1} /\ watchRevision' >= 2
    BY <1>1, <2>3
  <2>6. todo' = {} /\ ~locking'
    BY <2>3
  <2> HIDE DEF IInv, Apply
  <2> QED
    BY <2>4, <2>5, <2>6 DEF SelectInv
<1>11. ApplyInv'
  <2> SUFFICES ASSUME todo' # {} PROVE ApplyInv'
    BY <1>4 DEF ApplyInv
  <2>0. UNCHANGED <<hist, top, watcher, processed, next>> /\ todo' \subseteq todo
        /\ \A k : Changed(k)' = Changed(k)
    BY <1>2, <1>4 DEF Changed
  <2>1. \A d \in todo' : d[1] = processed => cache' = hist[processed]
    <3> SUFFICES ASSUME NEW d \in todo', d[1] = processed PROVE cache' = hist[processed]
      OBVIOUS
    <3>1. c[1] = processed
      BY <1>1, <2>0
    <3>2. cache = hist[processed]
      BY <1>1, <3>1 DEF IInv, ApplyInv
    <3> QED
      BY <1>1, <3>1, <3>2 DEF Contents
  <2>2. \A d \in todo' : d[1] \in processed .. top /\ d[1] >= 2 /\ d[2] \in Changed(d[1])
    BY <1>1, <2>0 DEF IInv, ApplyInv
  <2>3. \A d \in todo', i \in Ids :
          (\A e \in todo' : e[2] = i => e[1] <= d[1]) /\ d[2] = i
            => hist[top][i] = hist[d[1]][i]
    <3> SUFFICES ASSUME NEW d \in todo', NEW i \in Ids, d[2] = i,
                        \A e \in todo' : e[2] = i => e[1] <= d[1]
                 PROVE  hist[top][i] = hist[d[1]][i]
      OBVIOUS
    <3>1. \A e \in todo : e[2] = i => e[1] <= d[1]
      BY <1>1, <1>2, <2>0
    <3> QED
      BY <1>1, <2>0, <3>1 DEF IInv, ApplyInv
  <2>4. next = top + 1
    BY <1>1 DEF IInv, ApplyInv
  <2> QED
    BY <1>1, <1>9, <2>0, <2>1, <2>2, <2>3, <2>4 DEF ApplyInv
<1>12. processed' \in 1 .. Len(hist') /\ processed <= processed' /\ watcher' # "none"
  BY <1>1, <1>2, <1>4
<1>13. MapInv'
  <2> SUFFICES ASSUME NEW i \in Ids
               PROVE  \E k \in processed' .. Len(hist) : cache'[i] = hist[k][i]
    BY <1>2, <1>12 DEF MapInv
  <2>1. CASE todo' = {}
    <3>1. processed' = top /\ top \in processed' .. Len(hist)
      BY <1>1, <1>4, <2>1
    <3>2. cache'[i] = hist[top][i]
      BY <1>9, <2>1
    <3> QED
      BY <3>1, <3>2
  <2>2. CASE todo' # {} /\ i = c[2]
    <3>1. processed' = processed /\ c[1] \in processed .. Len(hist)
      BY <1>1, <1>4, <2>2
    <3>2. cache'[i] = hist[c[1]][i]
      BY <1>1, <2>2 DEF Contents
    <3> QED
      BY <3>1, <3>2
  <2>3. CASE todo' # {} /\ i # c[2]
    <3>1. processed' = processed /\ cache'[i] = cache[i]
      BY <1>1, <1>4, <2>3 DEF Contents
    <3> QED
      BY <1>1, <3>1 DEF IInv, MapInv
  <2> QED
    BY <2>1, <2>2, <2>3
<1>14. ReadInv'
  <2> SUFFICES ASSUME NEW r \in Readers
               PROVE  /\ since[r] <= Len(hist)
                      /\ pc[r] # "idle" =>
                           /\ since[r] >= 1 /\ id[r] \in Ids
                           /\ seen[r] >= 1 /\ seen[r] <= processed'
    BY <1>2, <1>12 DEF ReadInv, readVars
  <2>1. seen[r] \in Nat /\ processed \in Nat /\ processed' \in Nat
    BY <1>1, <1>12 DEF IInv, TypeOK
  <2> QED
    BY <1>12, <2>1 DEF IInv, ReadInv
<1> QED
  BY <1>6, <1>7, <1>8, <1>10, <1>11, <1>13, <1>14 DEF IInv

\* A lookup begins, goes on or ends.
LEMMA ReadStep ==
  ASSUME IInv, NEW r \in Readers, Read(r)
  PROVE  IInv'
<1>0. Len(hist) \in Nat /\ Len(hist) >= 1 /\ cache \in Contents /\ hist[Len(hist)] \in Contents
  BY RevisionType DEF IInv, TypeOK
<1>1. UNCHANGED <<hist, cacheVars, watchVars, mainVars>>
  BY DEF Read, Get, Begin, Hit, Miss, Fallback, FallbackFails, Finish, Return
<1>2. HistoryIsChained' /\ PhaseInv' /\ SelectInv' /\ ApplyInv' /\ MapInv'
  BY <1>1 DEF IInv, HistoryIsChained, PhaseInv, SelectInv, ApplyInv, MapInv, Changed,
              cacheVars, watchVars, mainVars
<1>3. CASE \E i \in Ids : Begin(r, i)
  <2> PICK i \in Ids : Begin(r, i)
    BY <1>3
  <2>1. TypeOK'
    BY <1>0, <1>1 DEF IInv, TypeOK, Begin, cacheVars, watchVars, mainVars
  <2>2. watcher # "none" /\ processed >= 1
    BY DEF IInv, PhaseInv, MapInv, Begin
  <2>3. ReadInv'
    BY <1>0, <1>1, <2>2 DEF IInv, TypeOK, ReadInv, Begin, watchVars
  <2>4. LookupIsFresh'
    <3> SUFFICES ASSUME NEW q \in Readers, pc'[q] = "done"
                 PROVE  IF out'[q] = Missing THEN AbsentMeanwhile(q)' \/ unasked'[q]
                                             ELSE FoundIsFresh(q)'
      BY DEF LookupIsFresh
    <3>1. q # r /\ pc[q] = "done" /\ UNCHANGED <<hist, unasked, out, id[q], since[q], seen[q]>>
      BY DEF IInv, TypeOK, Begin
    <3> QED
      BY <3>1 DEF IInv, LookupIsFresh, FoundIsFresh, AbsentMeanwhile
  <2> QED
    BY <1>2, <2>1, <2>3, <2>4 DEF IInv
<1>4. ASSUME NEW v \in Int, NEW b \in BOOLEAN, Return(r, v), pc[r] # "idle",
             unasked' = [unasked EXCEPT ![r] = b],
             IF v = Missing THEN b \/ hist[Len(hist)][id[r]] = Absent
                            ELSE \E k \in seen[r] .. Len(hist) : hist[k][id[r]] = v
      PROVE  IInv'
  <2>1. TypeOK'
    BY <1>0, <1>1, <1>4 DEF IInv, TypeOK, Return, cacheVars, watchVars, mainVars
  <2>2. ReadInv'
    BY <1>0, <1>1, <1>4 DEF IInv, TypeOK, ReadInv, Return, watchVars
  <2>3. LookupIsFresh'
    <3> SUFFICES ASSUME NEW q \in Readers, pc'[q] = "done"
                 PROVE  IF out'[q] = Missing THEN AbsentMeanwhile(q)' \/ unasked'[q]
                                             ELSE FoundIsFresh(q)'
      BY DEF LookupIsFresh
    <3>0. UNCHANGED <<hist, id, since, seen>>
      BY <1>4 DEF Return
    <3>1. CASE q = r
      <4>1. out'[r] = v /\ unasked'[r] = b
        BY <1>4 DEF Return, IInv, TypeOK
      <4>2. since[r] \in Nat /\ since[r] <= Len(hist)
        BY DEF IInv, TypeOK, ReadInv
      <4>3. Len(hist) \in since[r] .. Len(hist)
        BY <1>0, <4>2
      <4>4. CASE v = Missing
        BY <1>4, <3>0, <3>1, <4>1, <4>3, <4>4 DEF AbsentMeanwhile
      <4>5. CASE v # Missing
        BY <1>4, <3>0, <3>1, <4>1, <4>5 DEF FoundIsFresh
      <4> QED
        BY <4>4, <4>5
    <3>2. CASE q # r
      <4>1. pc[q] = "done" /\ out'[q] = out[q] /\ unasked'[q] = unasked[q]
        BY <1>4, <3>2 DEF IInv, TypeOK, Return
      <4>2. AbsentMeanwhile(q)' = AbsentMeanwhile(q) /\ FoundIsFresh(q)' = FoundIsFresh(q)
        BY <3>0, <4>1 DEF AbsentMeanwhile, FoundIsFresh
      <4> QED
        BY <4>1, <4>2 DEF IInv, LookupIsFresh
    <3> QED
      BY <3>1, <3>2
  <2> QED
    BY <1>2, <2>1, <2>2, <2>3 DEF IInv
<1>5. CASE Hit(r)
  <2>1. id[r] \in Ids /\ watcher # "none" /\ seen[r] >= 1 /\ seen[r] <= processed
        /\ seen[r] \in Nat /\ unasked[r] \in BOOLEAN
    BY <1>5 DEF IInv, TypeOK, ReadInv, Hit
  <2>2. cache[id[r]] \in Nat
    BY <1>0, <2>1 DEF Contents
  <2>3. PICK k \in processed .. Len(hist) : cache[id[r]] = hist[k][id[r]]
    BY <2>1 DEF IInv, MapInv
  <2>4. k \in seen[r] .. Len(hist)
    BY <1>0, <2>1 DEF IInv, TypeOK
  <2> DEFINE v == cache[id[r]]
  <2>5. /\ v \in Int /\ v # Missing /\ hist[k][id[r]] = v
        /\ Return(r, v) /\ pc[r] # "idle"
        /\ unasked' = [unasked EXCEPT ![r] = unasked[r]]
    BY <1>5, <2>2, <2>3 DEF Hit, Missing, IInv, TypeOK
  <2> HIDE DEF v
  <2> QED
    BY <1>4, <2>1, <2>4, <2>5
<1>6. CASE Miss(r)
  <2>1. TypeOK'
    BY <1>1, <1>6 DEF IInv, TypeOK, Miss, cacheVars, watchVars, mainVars
  <2>2. ReadInv'
    BY <1>1, <1>6 DEF IInv, TypeOK, ReadInv, Miss, watchVars
  <2>3. LookupIsFresh'
    BY <1>1, <1>6 DEF IInv, TypeOK, LookupIsFresh, FoundIsFresh, AbsentMeanwhile, Miss
  <2> QED
    BY <1>2, <2>1, <2>2, <2>3 DEF IInv
<1>7. CASE Fallback(r)
  <2> DEFINE v == IF Latest[id[r]] = Absent THEN Missing ELSE Latest[id[r]]
  <2>1. id[r] \in Ids /\ seen[r] <= processed /\ seen[r] \in Nat /\ processed \in 1 .. Len(hist)
        /\ unasked[r] \in BOOLEAN
    BY <1>7 DEF IInv, TypeOK, ReadInv, MapInv, Fallback
  <2>2. Latest[id[r]] \in Nat
    BY <1>0, <2>1 DEF Latest, Contents
  <2>3. v \in Int /\ (v = Missing => Latest[id[r]] = Absent)
        /\ (v # Missing => v = Latest[id[r]])
    BY <2>2 DEF Missing
  <2>4. Return(r, v) /\ pc[r] # "idle" /\ unasked' = [unasked EXCEPT ![r] = unasked[r]]
    BY <1>7 DEF Fallback, IInv, TypeOK
  <2>5. Len(hist) \in seen[r] .. Len(hist)
    BY <1>0, <2>1
  <2> HIDE DEF v
  <2> QED
    BY <1>4, <2>1, <2>3, <2>4, <2>5 DEF Latest
<1>8. CASE FallbackFails(r)
  <2>1. Return(r, Missing) /\ pc[r] # "idle" /\ unasked' = [unasked EXCEPT ![r] = TRUE]
    BY <1>8 DEF FallbackFails
  <2>2. Missing \in Int /\ TRUE \in BOOLEAN
    BY DEF Missing
  <2> QED
    BY <1>4, <2>1, <2>2
<1>9. CASE Finish(r)
  <2>1. TypeOK'
    BY <1>1, <1>9 DEF IInv, TypeOK, Finish, Absent, cacheVars, watchVars, mainVars
  <2>2. ReadInv'
    BY <1>0, <1>1, <1>9 DEF IInv, TypeOK, ReadInv, Finish, watchVars
  <2>3. LookupIsFresh'
    <3> SUFFICES ASSUME NEW q \in Readers, pc'[q] = "done"
                 PROVE  IF out'[q] = Missing THEN AbsentMeanwhile(q)' \/ unasked'[q]
                                             ELSE FoundIsFresh(q)'
      BY DEF LookupIsFresh
    <3>1. /\ q # r /\ pc[q] = "done"
          /\ UNCHANGED <<hist, unasked[q], out[q], id[q], since[q], seen[q]>>
      BY <1>9 DEF IInv, TypeOK, Finish
    <3> QED
      BY <3>1 DEF IInv, LookupIsFresh, FoundIsFresh, AbsentMeanwhile
  <2> QED
    BY <1>2, <2>1, <2>2, <2>3 DEF IInv
<1> QED
  BY <1>3, <1>5, <1>6, <1>7, <1>8, <1>9 DEF Read, Get

\* Every step keeps the invariant.
LEMMA IInvStep == IInv /\ [Next]_vars => IInv'
<1> SUFFICES ASSUME IInv, [Next]_vars PROVE IInv'
  OBVIOUS
<1>1. CASE Next
  <2>1. CASE Store
    BY <2>1, StoreStep
  <2>2. CASE Main \/ WatcherDone \/ ZeroResponse
    BY <2>2, MainStep
  <2>3. CASE Announce \/ Restart
    BY <2>3, AnnounceRestartStep
  <2>4. CASE \E hi \in next .. Len(hist) : Deliver(hi)
    BY <2>4, DeliverStep
  <2>5. CASE \E c \in todo : Apply(c)
    BY <2>5, ApplyStep
  <2>6. CASE \E r \in Readers : Read(r)
    BY <2>6, ReadStep
  <2> QED
    BY <1>1, <2>1, <2>2, <2>3, <2>4, <2>5, <2>6 DEF Next, Watch
<1>2. CASE UNCHANGED vars
  BY <1>2 DEF IInv, TypeOK, HistoryIsChained, PhaseInv, SelectInv, ApplyInv, MapInv, ReadInv,
              LookupIsFresh, FoundIsFresh, AbsentMeanwhile, Changed, vars, cacheVars, watchVars, readVars, mainVars
<1> QED
  BY <1>1, <1>2

-----------------------------------------------------------------------------
(* The theorems.                                                           *)

\* The inductive invariant holds in every reachable state.
THEOREM Invariance == Spec => []IInv
BY IInvInit, IInvStep, PTL DEF Spec

\* The variables keep their types, for every number of ids, readers, revisions.
THEOREM TypeCorrect == Spec => []TypeOK
<1>1. IInv => TypeOK
  BY DEF IInv
<1> QED
  BY <1>1, Invariance, PTL

\* The map is one revision of etcd but for the response being applied.
THEOREM OneRevision == Spec => []CacheIsOneRevision
<1>1. IInv => CacheIsOneRevision
  BY DEF IInv, TypeOK, SelectInv, ApplyInv, CacheIsOneRevision
<1> QED
  BY <1>1, Invariance, PTL

\* A lookup finds nothing older than the map was when it began, and misses only
\* what etcd lacked meanwhile, unless etcd could not be asked.
THEOREM LookupFresh == Spec => []LookupIsFresh
<1>1. IInv => LookupIsFresh
  BY DEF IInv
<1> QED
  BY <1>1, Invariance, PTL

\* The watcher changes entries only to what unprocessed revisions made of them.
THEOREM NeverGoesBack == Spec => CacheNeverGoesBack
<1> DEFINE Forward ==
      watcher = "apply" =>
        \A i \in Ids : cache'[i] # cache[i] =>
          \E v \in processed + 1 .. Len(hist) : i \in Changed(v) /\ hist[v][i] = cache'[i]
<1>1. IInv /\ [Next]_vars => [Forward]_vars
  <2> SUFFICES ASSUME IInv, Next, watcher = "apply", NEW i \in Ids, cache'[i] # cache[i]
               PROVE  \E v \in processed + 1 .. Len(hist) :
                         i \in Changed(v) /\ hist[v][i] = cache'[i]
    OBVIOUS
  <2>1. PICK c \in todo : Apply(c)
    <3>1. ~UNCHANGED cache
      OBVIOUS
    <3>2. ~Main
      BY DEF IInv, PhaseInv, Main, FetchSecrets, FetchFails, Interrupt, ServersStop, Close,
             cacheVars
    <3>3. ~Store /\ ~\E r \in Readers : Read(r)
      BY DEF Store, Put, Remove, Commit, Read, Get, Begin, Hit, Miss, Fallback,
             FallbackFails, Finish, Return, cacheVars
    <3>4. ~(WatcherDone \/ ZeroResponse \/ Announce \/ Restart)
          /\ ~\E hi \in next .. Len(hist) : Deliver(hi)
      BY DEF WatcherDone, ZeroResponse, Announce, Restart, Deliver, cacheVars
    <3> QED
      BY <3>2, <3>3, <3>4 DEF Next, Watch
  <2>2. /\ c[1] \in processed .. top /\ c[1] \in 2 .. Len(hist) /\ processed \in 1 .. top
        /\ cache \in Contents
        /\ cache' = [cache EXCEPT ![c[2]] = hist[c[1]][c[2]]]
    BY <2>1, ApplyFacts
  <2>3. i = c[2] /\ cache'[i] = hist[c[1]][i]
    BY <2>2 DEF Contents
  <2>4. c[1] # processed
    BY <2>2, <2>3 DEF IInv, ApplyInv
  <2>5. c[1] \in processed + 1 .. Len(hist) /\ i \in Changed(c[1])
    BY <2>2, <2>3, <2>4 DEF IInv, ApplyInv
  <2> QED
    BY <2>3, <2>5
<1>2. Spec => [][Forward]_vars
  BY <1>1, Invariance, PTL DEF Spec
<1> QED
  BY <1>2 DEF CacheNeverGoesBack
=============================================================================

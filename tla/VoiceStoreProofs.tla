-------------------------- MODULE VoiceStoreProofs ---------------------------
(***************************************************************************)
(* What TLAPS proves of VoiceStore for any voices, threads and requests.   *)
(***************************************************************************)
EXTENDS VoiceStore, TLAPS

-----------------------------------------------------------------------------
(* The inductive invariant. *)

\* create() works in a .tmp directory; a voice's own directory is complete.
CreateInv ==
    /\ \A v \in creating : dir[v] = "tmp"
    /\ \A v \in Live : files[v] = Complete

\* A work directory has somebody who works on it, or could not be removed.
WorkInv ==
    /\ \A v \in unremoved : /\ dir[v] \in {"tmp", "deleting"}
                             /\ v \notin creating
                             /\ \A d \in Deleters : target[d] # v
    /\ proc = "up" => \A v \in Voices : dir[v] \in {"tmp", "deleting"} =>
          v \in creating \cup unremoved \/ \E d \in Deleters : target[d] = v
    /\ proc # "up" => unremoved = {}

\* Only the deleter that holds the lock has a target, and it is renamed; only
\* the lister that holds it has seen voices.
LockInv ==
    /\ proc # "up" => creating = {} /\ lock = Free
    /\ \A d \in Deleters :
          IF lock = d THEN target[d] \in Voices /\ dir[target[d]] = "deleting"
                      ELSE target[d] = Free /\ d \notin popped
    /\ \A l \in Listers : lock # l => seen[l] = {}

\* A cached voice exists, or its deleter is about to drop it from the cache.
CacheInv ==
    \A v \in Voices, role \in Roles : <<v, role>> \in cache =>
        \/ dir[v] = "live"
        \/ \E d \in Deleters : lock = d /\ target[d] = v /\ d \notin popped

IInv ==
    /\ TypeOK /\ CreateInv /\ WorkInv /\ LockInv /\ CacheInv
    /\ ListedVoicesReadable

-----------------------------------------------------------------------------
LEMMA InitIInv == Init => IInv
<1> SUFFICES ASSUME Init PROVE IInv
  OBVIOUS
<1>1. TypeOK
  <2>1. req \in [Requests -> Resolving \cup {Idle}]
    BY DEF Init
  <2> QED
    BY <2>1 DEF Init, TypeOK, Places, Files
<1>2. CreateInv /\ WorkInv /\ LockInv /\ CacheInv /\ ListedVoicesReadable
  BY DistinctAssumption
  DEF Init, CreateInv, WorkInv, LockInv, CacheInv, ListedVoicesReadable, Live
<1> QED
  BY <1>1, <1>2 DEF IInv

\* create() changes only the directory of its voice.
LEMMA CreateKeeps ==
    ASSUME IInv, NEW v \in Voices, CreateStep(v) PROVE IInv'
<1> USE DEF IInv, Live, Places, Files, Complete, workVars
<1>1. TypeOK'
  <2> USE DEF TypeOK
  <2>1. CASE CreateBegin(v)
    BY <2>1 DEF CreateBegin
  <2>2. CASE CreateFile(v)
    <3>1. files' \in [Voices -> SUBSET Files]
      BY <2>2 DEF CreateFile, FileSteps
    <3> QED
      BY <2>2, <3>1 DEF CreateFile
  <2>3. CASE Publish(v)
    BY <2>3 DEF Publish
  <2>4. CASE CreateFails(v)
    <3>1. files' \in [Voices -> SUBSET Files]
      BY <2>4 DEF CreateFails, Abandon
    <3> QED
      BY <2>4, <3>1 DEF CreateFails, Abandon
  <2> QED
    BY <2>1, <2>2, <2>3, <2>4 DEF CreateStep
<1>2. CreateInv' /\ WorkInv' /\ LockInv' /\ CacheInv' /\ ListedVoicesReadable'
  <2> USE DEF TypeOK, CreateInv, WorkInv, LockInv, CacheInv, ListedVoicesReadable
  <2>1. CASE CreateBegin(v)
    BY <2>1 DEF CreateBegin
  <2>2. CASE CreateFile(v)
    BY <2>2 DEF CreateFile, FileSteps
  <2>3. CASE Publish(v)
    BY <2>3 DEF Publish
  <2>4. CASE CreateFails(v)
    <3>1. \A u \in Voices : u # v => files'[u] = files[u] /\ dir'[u] = dir[u]
      BY <2>4 DEF CreateFails, Abandon
    <3>2. dir[v] = "tmp" /\ dir'[v] \in {"tmp", "none"} /\ v \notin unremoved
      BY <2>4 DEF CreateFails, Abandon
    <3>3. \A d \in Deleters : target[d] # v
      BY <3>2, DistinctAssumption
    <3>4. \/ dir'[v] = "none" /\ unremoved' = unremoved
          \/ dir'[v] = "tmp" /\ unremoved' = unremoved \cup {v}
      BY <2>4, <3>2 DEF CreateFails, Abandon
    <3>5. /\ creating' = creating \ {v}
          /\ UNCHANGED <<proc, lock, target, popped, seen, cache>>
      BY <2>4 DEF CreateFails
    <3>6. CreateInv'
      BY <3>1, <3>2, <3>5
    <3>7. WorkInv'
      <4>1. ASSUME NEW u \in unremoved'
            PROVE  /\ dir'[u] \in {"tmp", "deleting"}
                   /\ u \notin creating'
                   /\ \A d \in Deleters : target'[d] # u
        BY <3>1, <3>2, <3>3, <3>4, <3>5
      <4>2. ASSUME proc' = "up", NEW u \in Voices, dir'[u] \in {"tmp", "deleting"}
            PROVE  \/ u \in creating' \cup unremoved'
                   \/ \E d \in Deleters : target'[d] = u
        <5>1. CASE u = v
          BY <3>4, <4>2, <5>1
        <5>2. CASE u # v
          <6>1. \/ u \in creating \cup unremoved
                \/ \E d \in Deleters : target[d] = u
            BY <3>1, <3>5, <4>2, <5>2
          <6> QED
            BY <3>4, <3>5, <5>2, <6>1
        <5> QED
          BY <5>1, <5>2
      <4>3. proc = "up"
        BY <2>4 DEF CreateFails, LockInv
      <4> QED
        BY <3>5, <4>1, <4>2, <4>3
    <3>8. LockInv' /\ CacheInv' /\ ListedVoicesReadable'
      BY <3>1, <3>2, <3>3, <3>5
    <3> QED
      BY <3>6, <3>7, <3>8
  <2> QED
    BY <2>1, <2>2, <2>3, <2>4 DEF CreateStep
<1> QED
  BY <1>1, <1>2

\* delete() works under the lock, on a voice that it has renamed.
LEMMA DeleteKeeps ==
    ASSUME IInv, NEW d \in Deleters, DeleteStep(d) PROVE IInv'
<1> USE DistinctAssumption DEF IInv, Live, Places, Files, workVars
<1>1. ASSUME NEW v \in Voices, DeleteRename(d, v) PROVE IInv'
  <2>1. TypeOK'
    BY <1>1 DEF DeleteRename, TypeOK
  <2>2. CreateInv' /\ WorkInv' /\ LockInv'
    BY <1>1 DEF DeleteRename, TypeOK, CreateInv, WorkInv, LockInv
  <2>3. CacheInv'
    BY <1>1 DEF DeleteRename, TypeOK, LockInv, CacheInv
  <2>4. ListedVoicesReadable'
    <3>1. lock = Free /\ \A l \in Listers : lock # l
      BY <1>1, DistinctAssumption DEF DeleteRename
    <3> QED
      BY <1>1, <3>1 DEF DeleteRename, LockInv, ListedVoicesReadable
  <2> QED
    BY <2>1, <2>2, <2>3, <2>4
<1>2. CASE DeletePop(d)
  <2>1. TypeOK'
    BY <1>2 DEF DeletePop, diskVars, workVars, TypeOK
  <2>2. CreateInv' /\ WorkInv' /\ LockInv' /\ ListedVoicesReadable'
    BY <1>2
    DEF DeletePop, diskVars, workVars, TypeOK, CreateInv, WorkInv, LockInv,
        ListedVoicesReadable
  <2>3. CacheInv'
    BY <1>2 DEF DeletePop, diskVars, workVars, TypeOK, LockInv, CacheInv
  <2> QED
    BY <2>1, <2>2, <2>3
<1>3. CASE DeleteRemove(d)
  <2>1. target[d] \in Voices /\ dir[target[d]] = "deleting"
    BY <1>3 DEF DeleteRemove, LockInv
  <2>2. TypeOK'
    <3>1. PICK left \in SUBSET files[target[d]] :
             files' = [files EXCEPT ![target[d]] = left]
      BY <1>3 DEF DeleteRemove, Abandon
    <3>2. left \in SUBSET Files
      BY <2>1, <3>1 DEF TypeOK
    <3>3. files' \in [Voices -> SUBSET Files]
      BY <3>1, <3>2 DEF TypeOK
    <3> QED
      BY <1>3, <2>1, <3>3 DEF DeleteRemove, Abandon, TypeOK
  <2>3. CreateInv' /\ WorkInv' /\ LockInv' /\ ListedVoicesReadable'
    <3> DEFINE v == target[d]
    <3>1. \A u \in Voices : u # v => files'[u] = files[u] /\ dir'[u] = dir[u]
      BY <1>3, <2>1 DEF DeleteRemove, Abandon, TypeOK
    <3>2. \/ dir'[v] = "gone" /\ unremoved' = unremoved
          \/ dir'[v] = "deleting" /\ unremoved' = unremoved \cup {v}
      BY <1>3, <2>1 DEF DeleteRemove, Abandon, TypeOK
    <3>3. \A e \in Deleters : /\ target'[e] = Free
                              /\ e # d => target[e] = Free
      BY <1>3 DEF DeleteRemove, LockInv, TypeOK
    <3>4. /\ lock' = Free /\ popped' = popped \ {d}
          /\ UNCHANGED <<proc, creating, seen>>
      BY <1>3 DEF DeleteRemove
    <3>5. v \notin creating /\ v \notin unremoved /\ \A l \in Listers : lock # l
      BY <1>3, <2>1 DEF DeleteRemove, CreateInv, WorkInv
    <3>6. CreateInv' /\ ListedVoicesReadable'
      BY <2>1, <3>1, <3>2, <3>4, <3>5
      DEF TypeOK, CreateInv, LockInv, ListedVoicesReadable
    <3>7. WorkInv'
      BY <2>1, <3>1, <3>2, <3>3, <3>4, <3>5 DEF TypeOK, WorkInv, LockInv
    <3>8. LockInv'
      BY <1>3, <3>3, <3>4, <3>5 DEF LockInv, DeleteRemove
    <3> QED
      BY <3>6, <3>7, <3>8
  <2>4. CacheInv'
    BY <1>3, <2>1 DEF DeleteRemove, Abandon, TypeOK, LockInv, CacheInv
  <2> QED
    BY <2>2, <2>3, <2>4
<1> QED
  BY <1>1, <1>2, <1>3 DEF DeleteStep

\* list() only reads.
LEMMA ListKeeps == ASSUME IInv, NEW l \in Listers, ListStep(l) PROVE IInv'
  BY DistinctAssumption
  DEF IInv, ListStep, ListBegin, ListEnd, diskVars, workVars, TypeOK,
      CreateInv, WorkInv, LockInv, CacheInv, ListedVoicesReadable, Live

\* A request that resolves its voice stays well typed.
LEMMA ResolvingType ==
    ASSUME NEW q \in Resolving, NEW role
    PROVE  Resolved(q, role) \in Resolving /\ Missed(q) \in Resolving
  BY DEF Resolving, Resolved, Missed

\* A speech request adds to the cache only voices that exist.
LEMMA RequestKeeps ==
    ASSUME IInv, NEW r \in Requests, RequestStep(r) PROVE IInv'
<1> USE DEF IInv, diskVars, workVars
<1>1. TypeOK'
  <2> USE DEF TypeOK, Resolving, Idle, Roles
  <2>1. ASSUME NEW v \in Voices, Snapshot(r, v) PROVE TypeOK'
    BY <2>1 DEF Snapshot
  <2>2. CASE LookUp(r)
    <3>1. req[r] \in Resolving
      BY <2>2 DEF LookUp
    <3>2. req' \in [Requests -> Resolving \cup {Idle}]
      BY <2>2, <3>1, ResolvingType DEF LookUp
    <3> QED
      BY <2>2, <3>2 DEF LookUp
  <2>3. CASE Encoded(r)
    <3>1. req[r] \in Resolving /\ NextRole(r) \in Roles
      BY <2>3 DEF Encoded, NextRole
    <3>2. cache' \subseteq Voices \X Roles
      BY <2>3, <3>1 DEF Encoded
    <3>3. req' \in [Requests -> Resolving \cup {Idle}]
      BY <2>3, <3>1, ResolvingType DEF Encoded
    <3> QED
      BY <2>3, <3>2, <3>3 DEF Encoded
  <2>4. CASE EndRequest(r)
    BY <2>4 DEF EndRequest
  <2> QED
    BY <2>1, <2>2, <2>3, <2>4 DEF RequestStep
<1>2. /\ UNCHANGED <<proc, diskVars, workVars, lock, target, popped, seen>>
      /\ \A e \in cache' : e \in cache \/ dir[e[1]] = "live"
  BY DEF RequestStep, Snapshot, LookUp, Encoded, EndRequest
<1>3. CreateInv' /\ WorkInv' /\ LockInv' /\ ListedVoicesReadable'
  BY <1>2 DEF CreateInv, WorkInv, LockInv, ListedVoicesReadable, Live
<1>4. CacheInv'
  BY <1>2 DEF CacheInv
<1> QED
  BY <1>1, <1>3, <1>4

\* A crash keeps only the disk; the boot removes only work directories.
LEMMA ProcessKeeps == ASSUME IInv, ProcessStep PROVE IInv'
<1> USE DistinctAssumption DEF IInv, Live, Places, Files, workVars
<1>1. CASE Crash
  BY <1>1
  DEF Crash, diskVars, workVars, TypeOK, CreateInv, WorkInv, LockInv, CacheInv,
      ListedVoicesReadable
<1>2. CASE Start \/ Booted
  BY <1>2
  DEF Start, Booted, diskVars, workVars, TypeOK, CreateInv, WorkInv, LockInv,
      CacheInv, ListedVoicesReadable
<1>3. ASSUME NEW v \in Voices, RemoveStale(v) PROVE IInv'
  <2>1. TypeOK'
    BY <1>3 DEF RemoveStale, TypeOK
  <2>2. CreateInv' /\ WorkInv' /\ LockInv' /\ CacheInv'
    BY <1>3 DEF RemoveStale, TypeOK, CreateInv, WorkInv, LockInv, CacheInv
  <2>3. ListedVoicesReadable'
    BY <1>3 DEF RemoveStale, TypeOK, LockInv, ListedVoicesReadable
  <2> QED
    BY <2>1, <2>2, <2>3
<1> QED
  BY <1>1, <1>2, <1>3 DEF ProcessStep

LEMMA NextIInv == IInv /\ [Next]_vars => IInv'
<1> SUFFICES ASSUME IInv, [Next]_vars PROVE IInv'
  OBVIOUS
<1>1. CASE Next
  BY <1>1, CreateKeeps, DeleteKeeps, ListKeeps, RequestKeeps, ProcessKeeps
  DEF Next
<1>2. CASE UNCHANGED vars
  BY <1>2
  DEF vars, diskVars, workVars, IInv, TypeOK, CreateInv, WorkInv, LockInv,
      CacheInv, ListedVoicesReadable, Live
<1> QED
  BY <1>1, <1>2

LEMMA AlwaysIInv == Spec => []IInv
  BY InitIInv, NextIInv, PTL DEF Spec

-----------------------------------------------------------------------------
\* Every reachable state is well typed.
THEOREM TypeCorrect == Spec => []TypeOK
<1>1. IInv => TypeOK
  BY DEF IInv
<1> QED
  BY <1>1, AlwaysIInv, PTL

\* When no thread holds the lock the latent cache knows only existing voices,
\* whatever was deleted while a request was encoding (cache_latent, delete).
THEOREM CacheOnlyLiveHolds == Spec => []CacheOnlyLive
<1>1. IInv => CacheOnlyLive
  <2> SUFFICES ASSUME IInv, lock = Free, NEW e \in cache
               PROVE  e \in Live \X Roles
    BY DEF CacheOnlyLive
  <2>1. PICK v \in Voices, role \in Roles : e = <<v, role>>
    BY DEF IInv, TypeOK
  <2>2. dir[v] = "live"
    BY <2>1, DistinctAssumption DEF IInv, CacheInv
  <2> QED
    BY <2>1, <2>2 DEF Live
<1> QED
  BY <1>1, AlwaysIInv, PTL

\* A directory with a voice's name always holds a complete voice, across
\* crashes at any step of create() and delete().
THEOREM VisibleVoiceCompleteHolds == Spec => []VisibleVoiceComplete
<1>1. IInv => VisibleVoiceComplete
  BY DEF IInv, CreateInv, VisibleVoiceComplete
<1> QED
  BY <1>1, AlwaysIInv, PTL

\* No delete slips between the two halves of list().
THEOREM ListedVoicesReadableHolds == Spec => []ListedVoicesReadable
<1>1. IInv => ListedVoicesReadable
  BY DEF IInv
<1> QED
  BY <1>1, AlwaysIInv, PTL

\* While the server runs, its work directories are those of the create() and
\* delete() in progress and those whose removal failed since it was started
\* (create, delete, _remove_stale_work_directories).
THEOREM WorkDirsAccountedHolds == Spec => []WorkDirsAccounted
<1>1. IInv => WorkDirsAccounted
  <2> SUFFICES ASSUME IInv PROVE WorkDirsAccounted
    OBVIOUS
  <2>1. \A v \in AtWork : v \in creating \/ \E d \in Deleters : target[d] = v
    BY DEF AtWork
  <2>2. \A d \in Deleters : target[d] # Free =>
           target[d] \in Voices /\ dir[target[d]] = "deleting"
    BY DEF IInv, LockInv
  <2>3. AtWork \cap unremoved = {}
    BY <2>1 DEF IInv, WorkInv
  <2>4. \A v \in AtWork \cup unremoved :
           v \in Voices /\ dir[v] \in {"tmp", "deleting"}
    BY <2>2 DEF AtWork, IInv, TypeOK, CreateInv, WorkInv
  <2>5. ASSUME proc = "up", NEW v \in Voices, dir[v] \in {"tmp", "deleting"}
        PROVE  v \in AtWork \cup unremoved
    BY <2>5, DistinctAssumption DEF AtWork, IInv, WorkInv
  <2> QED
    BY <2>3, <2>4, <2>5 DEF WorkDirsAccounted
<1> QED
  BY <1>1, AlwaysIInv, PTL

\* The store implements the registry: voices appear and disappear at once,
\* and a deleted voice never comes back.
THEOREM StoreRefinesRegistry == Spec => RefinesRegistry
<1> DEFINE Removed == {v \in Voices : dir[v] \in {"deleting", "gone"}}
<1>1. Init => Registry!Init
  BY DEF Init, Registry!Init, Live
<1>2. IInv /\ [Next]_vars => Registry!Next \/ UNCHANGED <<Live, Removed>>
  <2> SUFFICES ASSUME IInv, [Next]_vars
               PROVE  Registry!Next \/ UNCHANGED <<Live, Removed>>
    OBVIOUS
  <2>1. ASSUME NEW v \in Voices, CreateStep(v)
        PROVE  Registry!Next \/ UNCHANGED <<Live, Removed>>
    <3>1. CASE Publish(v)
      <4>1. Registry!Publish(v)
        BY <3>1
        DEF Publish, IInv, TypeOK, CreateInv, Live, Registry!Publish
      <4> QED
        BY <4>1 DEF Registry!Next
    <3>2. CASE CreateBegin(v) \/ CreateFile(v) \/ CreateFails(v)
      BY <3>2
      DEF CreateBegin, CreateFile, CreateFails, Abandon, IInv, TypeOK,
          CreateInv, Live
    <3> QED
      BY <2>1, <3>1, <3>2 DEF CreateStep
  <2>2. ASSUME NEW d \in Deleters, DeleteStep(d)
        PROVE  Registry!Next \/ UNCHANGED <<Live, Removed>>
    <3>1. ASSUME NEW v \in Voices, DeleteRename(d, v) PROVE Registry!Next
      <4>1. Registry!Remove(v)
        BY <3>1 DEF DeleteRename, IInv, TypeOK, Live, Registry!Remove
      <4> QED
        BY <4>1 DEF Registry!Next
    <3>2. CASE DeletePop(d)
      BY <3>2 DEF DeletePop, diskVars, Live
    <3>3. CASE DeleteRemove(d)
      <4>1. target[d] \in Voices /\ dir[target[d]] = "deleting"
        BY <3>3 DEF DeleteRemove, IInv, LockInv
      <4> QED
        BY <3>3, <4>1 DEF DeleteRemove, Abandon, IInv, TypeOK, Live
    <3> QED
      BY <2>2, <3>1, <3>2, <3>3 DEF DeleteStep
  <2>3. ASSUME NEW v \in Voices, RemoveStale(v)
        PROVE  UNCHANGED <<Live, Removed>>
    BY <2>3 DEF RemoveStale, IInv, TypeOK, Live
  <2>4. CASE \/ UNCHANGED diskVars \/ Crash \/ Start \/ Booted
             \/ \E l \in Listers : ListStep(l)
             \/ \E r \in Requests : RequestStep(r)
    <3>1. UNCHANGED diskVars
      BY <2>4
      DEF Crash, Start, Booted, ListStep, ListBegin, ListEnd, RequestStep,
          Snapshot, LookUp, Encoded, EndRequest, diskVars, workVars
    <3> QED
      BY <3>1 DEF diskVars, workVars, Live
  <2>5. CASE UNCHANGED vars
    BY <2>4, <2>5 DEF vars
  <2> QED
    BY <2>1, <2>2, <2>3, <2>4, <2>5 DEF Next, ProcessStep
<1> QED
  BY <1>1, <1>2, AlwaysIInv, PTL DEF Spec, RefinesRegistry, Registry!Spec
=============================================================================

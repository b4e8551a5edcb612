----------------------------- MODULE VoiceStore ------------------------------
(***************************************************************************)
(* The voice profiles of src/botified_tts/voices.py, their directories on  *)
(* disk, the in-memory latent cache, and the part of SpeechService that    *)
(* uses both.  create, delete and list run in pool threads; the speech     *)
(* requests run on the event loop; one RLock is between them.  A step that *)
(* takes and gives back the lock without another step in between needs it  *)
(* free; delete and list hold it over several steps.  The process can      *)
(* crash between any two steps and be started again.                       *)
(***************************************************************************)
EXTENDS FiniteSets

CONSTANTS Voices,    \* voice ids; uuid4 makes each fresh, so none is reused
          Deleters,  \* threads that serve DELETE /v1/voices/<id>
          Listers,   \* threads that serve GET /v1/voices
          Requests,  \* speech requests that use a profile voice
          Free       \* the lock is not held

ASSUME DistinctAssumption ==
    /\ Free \notin Deleters \cup Listers \cup Voices
    /\ Deleters \cap Listers = {}

VARIABLES proc,      \* the server process: "down", "booting" or "up"
          dir,       \* where the directory of a voice is
          files,     \* what it holds
          creating,  \* voices whose create() is running
          unremoved, \* voices whose directory this run of the process wanted
                     \* to remove and could not (history)
          lock,      \* who holds VoiceStore._lock
          target,    \* the voice a deleter has renamed and works on
          popped,    \* deleters that have emptied the cache for it
          seen,      \* the directories a lister is about to read
          cache,     \* _latent_cache: pairs <<voice, role>>
          req        \* the profile resolution of every speech request

diskVars == <<dir, files>>
workVars == <<creating, unremoved>>
vars == <<proc, diskVars, workVars, lock, target, popped, seen, cache, req>>

Roles == {"reference", "prompt"}
\* .tmp-*, the voice's own name, .delete-*, or removed.
Places == {"none", "tmp", "live", "deleting", "gone"}
Files == {"source", "reference", "metadata"}
Complete == {"reference", "metadata"}
Live == {v \in Voices : dir[v] = "live"}

\* A request that resolves no profile; otherwise the voice of its snapshot,
\* the roles it still needs and whether it waits for the engine to encode.
Idle == [voice |-> Free, need |-> {}, encoding |-> FALSE]
Resolving == [voice : Voices, need : SUBSET Roles, encoding : BOOLEAN]

Init ==
    /\ proc = "booting"
    /\ dir = [v \in Voices |-> "none"]
    /\ files = [v \in Voices |-> {}]
    /\ creating = {}
    /\ unremoved = {}
    /\ lock = Free
    /\ target = [d \in Deleters |-> Free]
    /\ popped = {}
    /\ seen = [l \in Listers |-> {}]
    /\ cache = {}
    /\ req = [r \in Requests |-> Idle]

\* rmtree() of a voice's directory raises, before or after it removed files.
Abandon(v) ==
    /\ \E left \in SUBSET files[v] : files' = [files EXCEPT ![v] = left]
    /\ unremoved' = unremoved \cup {v}

-----------------------------------------------------------------------------
(* create() *)

\* mkdtemp(".tmp-"): the voice gets its work directory.
CreateBegin(v) ==
    /\ proc = "up" /\ dir[v] = "none" /\ v \notin creating
    /\ creating' = creating \cup {v}
    /\ dir' = [dir EXCEPT ![v] = "tmp"]
    /\ UNCHANGED <<proc, files, unremoved, lock, target, popped, seen, cache, req>>

\* Mutant: the decoder leaves a part file beside the reference.
FileSteps_PartFile == { << {}, {"source"} >>,
                        << {"source"}, {"source", "reference", "part"} >> }

\* The source is stored, decoded and validated, the metadata is written and
\* the source removed, one file operation at a time.
FileSteps == { << {}, {"source"} >>,
               << {"source"}, {"source", "reference"} >>,
               << {"source", "reference"}, Files >>,
               << Files, Complete >> }

CreateFile(v) ==
    /\ v \in creating
    /\ \E step \in FileSteps : /\ files[v] = step[1]
                               /\ files' = [files EXCEPT ![v] = step[2]]
    /\ UNCHANGED <<proc, dir, workVars, lock, target, popped, seen, cache, req>>

\* Mutant: the directory is published as soon as the reference is decoded.
Publish_Early(v) ==
    /\ v \in creating /\ "reference" \in files[v] /\ lock = Free
    /\ dir' = [dir EXCEPT ![v] = "live"]
    /\ creating' = creating \ {v}
    /\ UNCHANGED <<proc, files, unremoved, lock, target, popped, seen, cache, req>>

\* os.rename of the finished work directory to the voice's name.
Publish(v) ==
    /\ v \in creating /\ files[v] = Complete /\ lock = Free
    /\ dir' = [dir EXCEPT ![v] = "live"]
    /\ creating' = creating \ {v}
    /\ UNCHANGED <<proc, files, unremoved, lock, target, popped, seen, cache, req>>

\* Decoding, validation or a file operation fails: finally removes the work
\* directory, or that raises too and leaves it, with what rmtree() did not reach.
CreateFails(v) ==
    /\ v \in creating
    /\ creating' = creating \ {v}
    /\ \/ /\ dir' = [dir EXCEPT ![v] = "none"]
          /\ files' = [files EXCEPT ![v] = {}]
          /\ UNCHANGED unremoved
       \/ Abandon(v) /\ UNCHANGED dir
    /\ UNCHANGED <<proc, lock, target, popped, seen, cache, req>>

-----------------------------------------------------------------------------
(* delete(), under the lock *)

\* Mutant: the rename does not wait for the lock.
DeleteRename_Unlocked(d, v) ==
    /\ proc = "up" /\ target[d] = Free /\ dir[v] = "live"
    /\ lock' = d
    /\ target' = [target EXCEPT ![d] = v]
    /\ dir' = [dir EXCEPT ![v] = "deleting"]
    /\ UNCHANGED <<proc, files, workVars, popped, seen, cache, req>>

\* The directory is renamed to .delete-*; from here the voice is gone.  (If
\* it is not there, delete() returns False and nothing changes.)
DeleteRename(d, v) ==
    /\ proc = "up" /\ lock = Free /\ dir[v] = "live"
    /\ lock' = d
    /\ target' = [target EXCEPT ![d] = v]
    /\ dir' = [dir EXCEPT ![v] = "deleting"]
    /\ UNCHANGED <<proc, files, workVars, popped, seen, cache, req>>

\* Mutant: only the reference latents leave the cache.
DeletePop_OneRole(d) ==
    /\ lock = d /\ target[d] # Free /\ d \notin popped
    /\ cache' = cache \ {<<target[d], "reference">>}
    /\ popped' = popped \cup {d}
    /\ UNCHANGED <<proc, diskVars, workVars, lock, target, seen, req>>

\* Both cached latents of the voice are dropped.
DeletePop(d) ==
    /\ lock = d /\ target[d] # Free /\ d \notin popped
    /\ cache' = cache \ ({target[d]} \X Roles)
    /\ popped' = popped \cup {d}
    /\ UNCHANGED <<proc, diskVars, workVars, lock, target, seen, req>>

\* rmtree of the renamed directory succeeds, or raises and leaves it behind;
\* the lock is released either way.
DeleteRemove(d) ==
    /\ lock = d /\ d \in popped
    /\ \/ /\ dir' = [dir EXCEPT ![target[d]] = "gone"]
          /\ files' = [files EXCEPT ![target[d]] = {}]
          /\ UNCHANGED unremoved
       \/ Abandon(target[d]) /\ UNCHANGED dir
    /\ target' = [target EXCEPT ![d] = Free]
    /\ popped' = popped \ {d}
    /\ lock' = Free
    /\ UNCHANGED <<proc, creating, seen, cache, req>>

-----------------------------------------------------------------------------
(* list(), under the lock *)

\* The directory is read ...
ListBegin(l) ==
    /\ proc = "up" /\ lock = Free
    /\ lock' = l
    /\ seen' = [seen EXCEPT ![l] = Live]
    /\ UNCHANGED <<proc, diskVars, workVars, target, popped, cache, req>>

\* ... and then the metadata of every voice that was seen.
ListEnd(l) ==
    /\ lock = l
    /\ lock' = Free
    /\ seen' = [seen EXCEPT ![l] = {}]
    /\ UNCHANGED <<proc, diskVars, workVars, target, popped, cache, req>>

-----------------------------------------------------------------------------
(* SpeechService.synthesize(): the profile voice *)

\* get_snapshot(): metadata and reference audio are copied; controllable mode
\* needs the reference latents, faithful mode also the prompt latents.
Snapshot(r, v) ==
    /\ proc = "up" /\ lock = Free /\ req[r] = Idle /\ dir[v] = "live"
    /\ \E need \in {{"reference"}, Roles} :
          req' = [req EXCEPT
             ![r] = [voice |-> v, need |-> need, encoding |-> FALSE]]
    /\ UNCHANGED <<proc, diskVars, workVars, lock, target, popped, seen, cache>>

\* The reference latents are looked up before the prompt latents.
NextRole(r) ==
    IF "reference" \in req[r].need THEN "reference" ELSE "prompt"

\* The latents for a role are there, from the cache or from the encoder.
Resolved(q, role) == [q EXCEPT !.need = q.need \ {role}, !.encoding = FALSE]

\* The encoder starts.
Missed(q) == [q EXCEPT !.encoding = TRUE]

\* get_cached_latent(): a hit is used, a miss starts the engine's encoder.
LookUp(r) ==
    /\ lock = Free /\ req[r].need # {} /\ ~req[r].encoding
    /\ req' = IF <<req[r].voice, NextRole(r)>> \in cache
                THEN [req EXCEPT ![r] = Resolved(req[r], NextRole(r))]
                ELSE [req EXCEPT ![r] = Missed(req[r])]
    /\ UNCHANGED <<proc, diskVars, workVars, lock, target, popped, seen, cache>>

\* Mutant: the latents are stored without looking for the directory.
Encoded_Unchecked(r) ==
    /\ lock = Free /\ req[r].encoding
    /\ cache' = cache \cup {<<req[r].voice, NextRole(r)>>}
    /\ req' = [req EXCEPT ![r] = Resolved(req[r], NextRole(r))]
    /\ UNCHANGED <<proc, diskVars, workVars, lock, target, popped, seen>>

\* The encoder is done: the latents are used, and cache_latent() keeps them
\* if the voice still exists.
Encoded(r) ==
    /\ lock = Free /\ req[r].encoding
    /\ cache' = IF dir[req[r].voice] = "live"
                  THEN cache \cup {<<req[r].voice, NextRole(r)>>} ELSE cache
    /\ req' = [req EXCEPT ![r] = Resolved(req[r], NextRole(r))]
    /\ UNCHANGED <<proc, diskVars, workVars, lock, target, popped, seen>>

\* The voice is resolved, or encoding fails, or the request is cancelled.
EndRequest(r) ==
    /\ req[r] # Idle
    /\ req' = [req EXCEPT ![r] = Idle]
    /\ UNCHANGED <<proc, diskVars, workVars, lock, target, popped, seen, cache>>

-----------------------------------------------------------------------------
(* The process *)

\* Only the directories survive a crash.
Crash ==
    /\ proc # "down"
    /\ proc' = "down"
    /\ creating' = {}
    /\ unremoved' = {}
    /\ lock' = Free
    /\ target' = [d \in Deleters |-> Free]
    /\ popped' = {}
    /\ seen' = [l \in Listers |-> {}]
    /\ cache' = {}
    /\ req' = [r \in Requests |-> Idle]
    /\ UNCHANGED diskVars

Start ==
    /\ proc = "down"
    /\ proc' = "booting"
    /\ UNCHANGED <<diskVars, workVars, lock, target, popped, seen, cache, req>>

\* Mutant: an interrupted delete is undone.
RemoveStale_Restores(v) ==
    /\ proc = "booting" /\ dir[v] \in {"tmp", "deleting"}
    /\ dir' = [dir EXCEPT ![v] = IF @ = "tmp" THEN "none" ELSE "live"]
    /\ UNCHANGED <<proc, files, workVars, lock, target, popped, seen, cache, req>>

\* _remove_stale_work_directories() removes one left-over directory.  If it
\* cannot, the constructor raises and the process ends as in a crash.
RemoveStale(v) ==
    /\ proc = "booting" /\ dir[v] \in {"tmp", "deleting"}
    /\ dir' = [dir EXCEPT ![v] = IF @ = "tmp" THEN "none" ELSE "gone"]
    /\ files' = [files EXCEPT ![v] = {}]
    /\ UNCHANGED <<proc, workVars, lock, target, popped, seen, cache, req>>

\* Mutant: only the .delete-* directories are looked for.
Booted_KeepsTmp ==
    /\ proc = "booting"
    /\ \A v \in Voices : dir[v] # "deleting"
    /\ proc' = "up"
    /\ UNCHANGED <<diskVars, workVars, lock, target, popped, seen, cache, req>>

\* The constructor returns when no left-over directory remains.
Booted ==
    /\ proc = "booting"
    /\ \A v \in Voices : dir[v] \notin {"tmp", "deleting"}
    /\ proc' = "up"
    /\ UNCHANGED <<diskVars, workVars, lock, target, popped, seen, cache, req>>

-----------------------------------------------------------------------------
CreateStep(v) == CreateBegin(v) \/ CreateFile(v) \/ Publish(v) \/ CreateFails(v)
DeleteStep(d) ==
    (\E v \in Voices : DeleteRename(d, v)) \/ DeletePop(d) \/ DeleteRemove(d)
ListStep(l) == ListBegin(l) \/ ListEnd(l)
RequestStep(r) ==
    \/ \E v \in Voices : Snapshot(r, v)
    \/ LookUp(r) \/ Encoded(r) \/ EndRequest(r)
ProcessStep ==
    Crash \/ Start \/ (\E v \in Voices : RemoveStale(v)) \/ Booted

Next ==
    \/ \E v \in Voices : CreateStep(v)
    \/ \E d \in Deleters : DeleteStep(d)
    \/ \E l \in Listers : ListStep(l)
    \/ \E r \in Requests : RequestStep(r)
    \/ ProcessStep

Spec == Init /\ [][Next]_vars

-----------------------------------------------------------------------------
(* Properties *)

TypeOK ==
    /\ proc \in {"down", "booting", "up"}
    /\ dir \in [Voices -> Places]
    /\ files \in [Voices -> SUBSET Files]
    /\ creating \subseteq Voices
    /\ unremoved \subseteq Voices
    /\ lock \in Deleters \cup Listers \cup {Free}
    /\ target \in [Deleters -> Voices \cup {Free}]
    /\ popped \subseteq Deleters
    /\ seen \in [Listers -> SUBSET Voices]
    /\ cache \subseteq Voices \X Roles
    /\ req \in [Requests -> Resolving \cup {Idle}]

\* A directory with a voice's name holds a complete voice, also when the
\* process died at any point of create() or delete().
VisibleVoiceComplete == \A v \in Live : files[v] = Complete

\* Whenever the lock is free the cache knows only voices that exist, even if
\* the voice was deleted while its latents were being encoded.
CacheOnlyLive == lock = Free => cache \subseteq Live \X Roles

\* Every voice a lister has seen can still be read: no delete slips between
\* reading the directory and reading the metadata.
ListedVoicesReadable == \A l \in Listers : seen[l] \subseteq Live

\* What create() and delete() work on.
AtWork == creating \cup ({target[d] : d \in Deleters} \ {Free})

\* While the server runs, the .tmp and .delete directories are those that a
\* create() or delete() in progress works on and those this run of the server
\* failed to remove, and nothing works on one of the latter; what earlier runs
\* left behind is gone.
WorkDirsAccounted ==
    /\ proc = "up" =>
          {v \in Voices : dir[v] \in {"tmp", "deleting"}} = AtWork \cup unremoved
    /\ AtWork \cap unremoved = {}

\* The store implements the registry, crashes included.
Registry == INSTANCE VoiceRegistry WITH
    listed <- Live,
    removed <- {v \in Voices : dir[v] \in {"deleting", "gone"}}
RefinesRegistry == Registry!Spec
=============================================================================

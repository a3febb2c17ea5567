--------------------------- MODULE RegistryStore ---------------------------
(***************************************************************************)
(* The in-memory registry (apis/src/registry.rs) and its file persistence  *)
(* (apis/src/persistence.rs).                                              *)
(*                                                                         *)
(* The five DashMaps (tools, resources, prompts, forwards, namespaces) are *)
(* one function on Keys; Rank[k] is the map that holds k, numbered in the  *)
(* order in which snapshot() lists them.  Workers are the threads that     *)
(* serve the management API and the filters.  A worker's request inserts   *)
(* or removes entries one at a time, then lists the maps, then hands the   *)
(* snapshot to a blocking task; no lock is held across these steps.        *)
(*                                                                         *)
(* Each save task truncates and writes one shared file, registry.json.tmp, *)
(* and renames it over registry.json.  A file is named by the save that    *)
(* created it: `tmp` and `file` say what the two paths point to, and a     *)
(* save keeps writing to the file it opened wherever that file now is.     *)
(***************************************************************************)
EXTENDS Naturals, FiniteSets

CONSTANTS
  Keys,         \* the registry's entries, over all five maps
  Rank,         \* Rank[k]: the map of k: 1 tools, 2 resources, 3 prompts, 4 forwards, 5 namespaces
  Values,       \* what an entry may hold
  Absent,       \* no entry
  Base,         \* the registry built by new(): the default namespace
  Workers,      \* threads that change the registry
  MaxRequests,  \* bound: mutating requests in a behaviour
  MaxCrashes    \* bound: restarts in a behaviour

Snapshots == [Keys -> Values \cup {Absent}]

ASSUME RankAssumption  == Rank \in [Keys -> 1..5]
ASSUME AbsentAssumption == Absent \notin Values
ASSUME BaseAssumption  == Base \in Snapshots
ASSUME BoundAssumption == MaxRequests \in Nat /\ MaxCrashes \in Nat

VARIABLES
  mem,          \* the maps' contents
  job,          \* job[w]: the request worker w is serving
  save,         \* save[i]: the task that saves the snapshot taken by request i
  disk,         \* disk[i]: the contents of the file created by save i
  tmp,          \* the file at registry.json.tmp, 0 when there is none
  file,         \* the file at registry.json, 0 when there is none
  requests,     \* mutating requests so far
  crashes,      \* restarts so far
  overlapped,   \* history: some request began before an earlier one was saved
  since         \* history: since[i][k], what k has held since request i wrote it, or since it
                \* began if it does not write k, until its snapshot is taken

vars == <<mem, job, save, disk, tmp, file, requests, crashes, overlapped, since>>

SaveIds == 1..MaxRequests
Blank   == [k \in Keys |-> Absent]

NoJob  == [pc |-> "idle", id |-> 0, todo |-> {}, value |-> Absent,
           changed |-> FALSE, listed |-> {}, snap |-> Blank]
NoSave == [pc |-> "none", fd |-> 0, snap |-> Blank]
NoData == [kind |-> "empty", snap |-> Blank]
Unwritten == [k \in Keys |-> {}]

Jobs  == [pc : {"idle", "writing", "listing"}, id : 0..MaxRequests,
          todo : SUBSET Keys, value : Values \cup {Absent}, changed : BOOLEAN,
          listed : SUBSET Keys, snap : Snapshots]
Saves == [pc : {"none", "queued", "opened", "written", "saved", "failed"},
          fd : 0..MaxRequests, snap : Snapshots]
\* A file is whole when it holds the JSON of one snapshot; load() refuses the others.
Data  == [kind : {"empty", "whole", "torn"}, snap : Snapshots]

Pending(i) == save[i].pc \in {"queued", "opened", "written"}
Quiet == /\ \A w \in Workers : job[w].pc = "idle"
         /\ \A i \in SaveIds : ~Pending(i)

Init ==
  /\ mem = Base
  /\ job = [w \in Workers |-> NoJob]
  /\ save = [i \in SaveIds |-> NoSave]
  /\ disk = [i \in SaveIds |-> NoData]
  /\ tmp = 0
  /\ file = 0
  /\ requests = 0
  /\ crashes = 0
  /\ overlapped = FALSE
  /\ since = [i \in SaveIds |-> Unwritten]

-----------------------------------------------------------------------------
(* Requests.                                                               *)

\* A batch stays within the tools, the resources or the prompts; forwards and
\* namespaces change one at a time.
Batch(S) ==
  /\ S # {}
  /\ \A j, k \in S : Rank[j] = Rank[k] /\ (j # k => Rank[k] <= 3)

Begin(w, S, v) ==
  /\ requests < MaxRequests
  /\ job[w].pc = "idle"
  /\ Batch(S)
  /\ requests' = requests + 1
  /\ job' = [job EXCEPT ![w] = [NoJob EXCEPT !.pc = "writing", !.id = requests + 1,
                                             !.todo = S, !.value = v]]
  /\ overlapped' = (overlapped \/ ~Quiet)
  /\ since' = [since EXCEPT ![requests + 1] = [k \in Keys |-> IF k \in S THEN {} ELSE {mem[k]}]]
  /\ UNCHANGED <<mem, save, disk, tmp, file, crashes>>

\* register_tool, register_tools_batch and their siblings
Register(w, S, v) == v \in Values /\ Begin(w, S, v)

\* remove_tool, remove_tools_batch and their siblings
Remove(w, S) == Begin(w, S, Absent)

\* Mutant: a batch removal that counts only its last name.
ChangedByLast(w, k) == job[w].value # Absent \/ mem[k] # Absent

\* A registration is persisted, and so is a removal that found one of its names.
Changed(w, k) == job[w].changed \/ job[w].value # Absent \/ mem[k] # Absent

\* Mutant: a batch is persisted, and left, at the first entry that it changes.
AfterFirst(w, k) ==
  LET left == job[w].todo \ {k}
  IN IF Changed(w, k) THEN [job[w] EXCEPT !.pc = "listing", !.todo = left, !.changed = TRUE]
     ELSE IF left # {} THEN [job[w] EXCEPT !.todo = left]
     ELSE NoJob

\* A request goes through its entries, and is persisted when it changed any.
AfterWrite(w, k) ==
  LET left == job[w].todo \ {k}
  IN IF left # {} THEN [job[w] EXCEPT !.todo = left, !.changed = Changed(w, k)]
     ELSE IF Changed(w, k) THEN [job[w] EXCEPT !.pc = "listing", !.todo = {}, !.changed = TRUE]
     ELSE NoJob

\* What the requests that are running may list from now on.
Recorded(w, k) ==
  [i \in SaveIds |->
     IF i = job[w].id THEN [since[i] EXCEPT ![k] = {job[w].value}]
     ELSE IF since[i][k] # {} /\ \E u \in Workers : job[u].id = i
     THEN [since[i] EXCEPT ![k] = @ \cup {job[w].value}]
     ELSE since[i]]

\* One DashMap insert or remove.
WriteEntry(w, k) ==
  /\ job[w].pc = "writing"
  /\ k \in job[w].todo
  /\ mem' = [mem EXCEPT ![k] = job[w].value]
  /\ since' = Recorded(w, k)
  /\ job' = [job EXCEPT ![w] = AfterWrite(w, k)]
  /\ UNCHANGED <<save, disk, tmp, file, requests, crashes, overlapped>>

\* Mutant: the namespaces, which seldom change, are taken from the newest save.
SnapshotReused(k) ==
  LET spawned == {i \in SaveIds : save[i].pc # "none"}
  IN IF Rank[k] # 5 \/ spawned = {} THEN mem[k]
     ELSE save[CHOOSE i \in spawned : \A j \in spawned : j <= i].snap[k]

\* What snapshot() copies for an entry.
SnapshotEntry(k) == mem[k]

\* persist(): snapshot() reads the maps in order, one entry at a time; the last
\* read hands the snapshot to spawn_blocking and the request is answered.
ListEntry(w, k) ==
  /\ job[w].pc = "listing"
  /\ k \notin job[w].listed
  /\ \A j \in Keys : Rank[j] < Rank[k] => j \in job[w].listed
  /\ LET listed == job[w].listed \cup {k}
         snap   == [job[w].snap EXCEPT ![k] = SnapshotEntry(k)]
     IN IF listed = Keys
        THEN /\ save' = [save EXCEPT ![job[w].id] =
                           [NoSave EXCEPT !.pc = "queued", !.snap = snap]]
             /\ job' = [job EXCEPT ![w] = NoJob]
        ELSE /\ job' = [job EXCEPT ![w].listed = listed, ![w].snap = snap]
             /\ UNCHANGED save
  /\ UNCHANGED <<mem, disk, tmp, file, requests, crashes, overlapped, since>>

-----------------------------------------------------------------------------
(* FilePersistence::save, run by a thread of the blocking pool.            *)

\* Mutant: save() writes registry.json in place.
TargetInPlace(i) == IF file # 0 THEN file ELSE IF tmp = 0 THEN i ELSE tmp

\* The file save i opens: the one at the temporary path, or a new one.
Target(i) == IF tmp = 0 THEN i ELSE tmp

\* Mutant: the temporary file is opened without O_TRUNC.
OpenedUntruncated(f) == disk[f]

\* What the file holds once it is open for writing.
Opened(f) == NoData

\* File::create: a new file at the temporary path, or the one there truncated.
\* Nothing orders the blocking tasks and nothing keeps two of them apart.
OpenTmp(i) ==
  /\ save[i].pc = "queued"
  /\ LET f == Target(i)
     IN /\ tmp' = f
        /\ disk' = [disk EXCEPT ![f] = Opened(f)]
        /\ save' = [save EXCEPT ![i].pc = "opened", ![i].fd = f]
  /\ UNCHANGED <<mem, job, file, requests, crashes, overlapped, since>>

\* The text is written from the start of the file: over an older, longer text
\* its tail remains.
Written(old, snap) ==
  IF old.kind = "empty" \/ old = [kind |-> "whole", snap |-> snap]
  THEN {[kind |-> "whole", snap |-> snap]}
  ELSE {[kind |-> "whole", snap |-> snap], [kind |-> "torn", snap |-> Blank]}

WriteTmp(i) ==
  /\ save[i].pc = "opened"
  /\ \E data \in Written(disk[save[i].fd], save[i].snap) :
       disk' = [disk EXCEPT ![save[i].fd] = data]
  /\ save' = [save EXCEPT ![i].pc = "written"]
  /\ UNCHANGED <<mem, job, tmp, file, requests, crashes, overlapped, since>>

\* The write stops part of the way (a full disk): the error is logged.
WriteFails(i) ==
  /\ save[i].pc = "opened"
  /\ disk' = [disk EXCEPT ![save[i].fd] = [kind |-> "torn", snap |-> Blank]]
  /\ save' = [save EXCEPT ![i].pc = "failed", ![i].fd = 0]
  /\ UNCHANGED <<mem, job, tmp, file, requests, crashes, overlapped, since>>

\* The directory or the file cannot be made, or the rename is refused.
SaveFails(i) ==
  /\ save[i].pc \in {"queued", "written"}
  /\ save' = [save EXCEPT ![i].pc = "failed", ![i].fd = 0]
  /\ UNCHANGED <<mem, job, disk, tmp, file, requests, crashes, overlapped, since>>

\* The rename moves whatever file is at the temporary path, and fails, with a
\* warning, when another save has already moved it.
RenameTmp(i) ==
  /\ save[i].pc = "written"
  /\ IF tmp = 0
     THEN /\ save' = [save EXCEPT ![i].pc = "failed", ![i].fd = 0]
          /\ UNCHANGED <<file, tmp>>
     ELSE /\ save' = [save EXCEPT ![i].pc = "saved", ![i].fd = 0]
          /\ file' = tmp
          /\ tmp' = 0
  /\ UNCHANGED <<mem, job, disk, requests, crashes, overlapped, since>>

-----------------------------------------------------------------------------
(* Crash or shutdown, and the next start.                                  *)

\* Mutant: the loaded lists replace the maps new() built.
LoadedAlone(files) ==
  IF file # 0 /\ files[file].kind = "whole" THEN files[file].snap ELSE Base

\* load_persisted: a missing file loads nothing, an unreadable one is logged and
\* loads nothing, and what is loaded is added to the registry new() built.
Loaded(files) ==
  IF file # 0 /\ files[file].kind = "whole"
  THEN [k \in Keys |-> IF files[file].snap[k] # Absent THEN files[file].snap[k] ELSE Base[k]]
  ELSE Base

\* Nothing is written at shutdown, so a shutdown is a crash: requests and save
\* tasks vanish, and a write that was under way may be cut short.
Crash ==
  /\ crashes < MaxCrashes
  /\ crashes' = crashes + 1
  /\ \E cut \in SUBSET {i \in SaveIds : save[i].pc = "opened"} :
       LET files == [f \in SaveIds |-> IF \E i \in cut : save[i].fd = f
                                       THEN [kind |-> "torn", snap |-> Blank]
                                       ELSE disk[f]]
       IN disk' = files /\ mem' = Loaded(files)
  /\ job' = [w \in Workers |-> NoJob]
  /\ save' = [i \in SaveIds |-> NoSave]
  /\ since' = [i \in SaveIds |-> Unwritten]
  /\ UNCHANGED <<tmp, file, requests, overlapped>>

-----------------------------------------------------------------------------
WorkerStep(w) == \E k \in Keys : WriteEntry(w, k) \/ ListEntry(w, k)
SaveStep(i)   == OpenTmp(i) \/ WriteTmp(i) \/ WriteFails(i) \/ SaveFails(i) \/ RenameTmp(i)

Next ==
  \/ \E w \in Workers, S \in SUBSET Keys, v \in Values : Register(w, S, v)
  \/ \E w \in Workers, S \in SUBSET Keys : Remove(w, S)
  \/ \E w \in Workers : WorkerStep(w)
  \/ \E i \in SaveIds : SaveStep(i)
  \/ Crash

Spec == Init /\ [][Next]_vars

\* A request once started runs to its end and the blocking pool runs every task;
\* nobody has to send a request or crash.
Fairness == /\ \A w \in Workers : WF_vars(WorkerStep(w))
            /\ \A i \in SaveIds : WF_vars(SaveStep(i))

FairSpec == Spec /\ Fairness
-----------------------------------------------------------------------------
(* Properties.                                                             *)

\* Type invariant of the registry, its requests, its save tasks and the two files.  A
\* request that lists the maps has nothing left to write.
TypeOK ==
  /\ mem \in Snapshots
  /\ job \in [Workers -> Jobs]
  /\ \A w \in Workers : job[w].pc = "listing" => job[w].todo = {}
  /\ save \in [SaveIds -> Saves]
  /\ disk \in [SaveIds -> Data]
  /\ tmp \in 0..MaxRequests
  /\ file \in 0..MaxRequests
  /\ requests \in 0..MaxRequests
  /\ crashes \in 0..MaxCrashes
  /\ overlapped \in BOOLEAN
  /\ since \in [SaveIds -> [Keys -> SUBSET (Values \cup {Absent})]]

Spawned == {i \in SaveIds : save[i].pc # "none"}

\* The maps are listed one after the other while other requests go on.  Even so, a save
\* has each entry of its own request as the request left it, or as somebody put it later,
\* and any other entry as it was at some moment while the request was running.
SnapshotsAreRecent == \A i \in Spawned, k \in Keys : save[i].snap[k] \in since[i][k]

\* persist() lists the maps after the change and never under a lock, so a snapshot
\* may mix several requests; even so, once no request is running, one of the saves
\* spawned since the start took exactly what memory holds.
SomeSaveIsCurrent ==
  (\A w \in Workers : job[w].pc = "idle") /\ Spawned # {}
    => \E i \in Spawned : save[i].snap = mem

FileWhole == file # 0 => disk[file].kind = "whole"

\* As long as each request is saved before the next begins, registry.json is
\* missing or holds one complete snapshot, whatever crashes and failed writes do
\* to the temporary file.
SerialFileWhole == ~overlapped => FileWhole

Newest(i) == i \in Spawned /\ \A j \in Spawned : j <= i

\* As long as each request is saved before the next begins, a save that ends well
\* leaves in registry.json what memory holds.
SerialDurable ==
  ~overlapped /\ Quiet
    => \A i \in SaveIds : Newest(i) /\ save[i].pc = "saved"
                            => file # 0 /\ disk[file] = [kind |-> "whole", snap |-> mem]

\* ... so that a restart then brings the same registry back, but for a removed
\* default namespace, which new() puts in before anything is loaded.
SerialRestart ==
  [][crashes' # crashes /\ ~overlapped /\ Quiet
       /\ (\E i \in SaveIds : Newest(i) /\ save[i].pc = "saved")
     => mem' = [k \in Keys |-> IF mem[k] = Absent THEN Base[k] ELSE mem[k]]]_vars

\* The stages that a request and a save task have before them.
JobStage(j)  == CASE j.pc = "writing" -> 2 [] j.pc = "listing" -> 1 [] OTHER -> 0
SaveStage(s) == CASE s.pc = "queued" -> 3 [] s.pc = "opened" -> 2 [] s.pc = "written" -> 1
                  [] OTHER -> 0

JobNearer(x, j) ==
  \/ JobStage(x) < JobStage(j)
  \/ x.pc = j.pc /\ x.listed = j.listed /\ x.todo \subseteq j.todo /\ x.todo # j.todo
  \/ x.pc = j.pc /\ x.todo = j.todo /\ j.listed \subseteq x.listed /\ x.listed # j.listed

\* A request goes through its names and then through the maps, and the save it spawned
\* opens, writes and renames, each once: no other request, save or failure starts them
\* over or replaces a save that is waiting or was made.  Only a crash ends them early.
NeverStartedOver ==
  [][/\ \A w \in Workers : job[w].pc # "idle" =>
          IF WorkerStep(w) THEN JobNearer(job'[w], job[w])
          ELSE job'[w] = job[w] \/ crashes' # crashes
     /\ \A i \in Spawned : crashes' = crashes =>
          IF SaveStep(i) THEN SaveStage(save'[i]) < SaveStage(save[i])
          ELSE save'[i] = save[i]]_vars

\* Every change a request made is at last in registry.json, when requests did not
\* overlap and its save did not fail.
DurableAtLast ==
  <>[](~overlapped => \A i \in SaveIds : Newest(i) /\ save[i].pc # "failed"
                        => save[i].pc = "saved" /\ disk[file].snap = mem)

\* docs/migration-from-classic.md:413: the registry is written "to a single
\* registry.json file using atomic writes".  The saves share one temporary file.
AtomicWrites == FileWhole

\* docs/configuration.md:62 and :69: file persistence makes the registry "survive
\* restarts".  Two saves may be renamed in the order opposite to their snapshots.
SurvivesRestart ==
  Quiet /\ Spawned # {} /\ file # 0 /\ disk[file].kind = "whole"
    /\ (\A i \in Spawned : save[i].pc = "saved")
      => disk[file].snap = mem
=============================================================================

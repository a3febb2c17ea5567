------------------------ MODULE RegistryStore_proofs ------------------------
(***************************************************************************)
(* Theorems about RegistryStore, for every set of entries, values and      *)
(* workers and every bound on requests and restarts.                       *)
(***************************************************************************)
EXTENDS RegistryStore, TLAPS

-----------------------------------------------------------------------------
(* Facts about the constant records.                                       *)

LEMMA BlankType == Blank \in Snapshots
  BY DEF Blank, Snapshots

LEMMA NoJobType == NoJob \in Jobs
  BY BlankType, BoundAssumption DEF NoJob, Jobs

LEMMA NoSaveType == NoSave \in Saves
  BY BlankType, BoundAssumption DEF NoSave, Saves

LEMMA NoDataType == NoData \in Data
  BY BlankType DEF NoData, Data

\* What a write leaves in a file is again the contents of a file.
LEMMA WrittenType ==
  ASSUME NEW old \in Data, NEW snap \in Snapshots, NEW data \in Written(old, snap)
  PROVE  data \in Data
  BY BlankType DEF Written, Data

\* The registry a start brings up.
LEMMA LoadedType ==
  ASSUME NEW files \in [SaveIds -> Data], file \in 0..MaxRequests
  PROVE  Loaded(files) \in Snapshots
<1>1. CASE file # 0 /\ files[file].kind = "whole"
  <2>1. files[file].snap \in Snapshots
    BY <1>1, BoundAssumption DEF SaveIds, Data
  <2>2. QED
    BY <1>1, <2>1, BaseAssumption DEF Loaded, Snapshots
<1>2. CASE ~(file # 0 /\ files[file].kind = "whole")
  BY <1>2, BaseAssumption DEF Loaded
<1>3. QED
  BY <1>1, <1>2

-----------------------------------------------------------------------------
(* Type correctness.                                                       *)

LEMMA BeginType ==
  ASSUME TypeOK, NEW w \in Workers, NEW S \in SUBSET Keys,
         NEW v \in Values \cup {Absent}, Begin(w, S, v)
  PROVE  TypeOK'
<1>1. requests' \in 0..MaxRequests /\ requests' = requests + 1
  BY BoundAssumption DEF TypeOK, Begin
<1>2. [NoJob EXCEPT !.pc = "writing", !.id = requests + 1, !.todo = S, !.value = v] \in Jobs
  BY <1>1, NoJobType DEF Jobs
<1>3. job' \in [Workers -> Jobs]
  BY <1>2 DEF TypeOK, Begin
<1>4. overlapped' \in BOOLEAN
  BY DEF TypeOK, Begin, Quiet
<1>5. \A u \in Workers : job'[u].pc = "listing" => job'[u].todo = {}
  BY DEF TypeOK, Begin, NoJob
<1>6. since' \in [SaveIds -> [Keys -> SUBSET (Values \cup {Absent})]]
  BY DEF TypeOK, Begin, Snapshots
<1>7. QED
  BY <1>1, <1>3, <1>4, <1>5, <1>6 DEF TypeOK, Begin

LEMMA WriteEntryType ==
  ASSUME TypeOK, NEW w \in Workers, NEW k \in Keys, WriteEntry(w, k)
  PROVE  TypeOK'
<1> DEFINE left == job[w].todo \ {k}
<1>1. job[w] \in Jobs
  BY DEF TypeOK
<1>2. job[w].value \in Values \cup {Absent} /\ left \in SUBSET Keys
  BY <1>1 DEF Jobs
<1>3. /\ mem' \in Snapshots
      /\ since' \in [SaveIds -> [Keys -> SUBSET (Values \cup {Absent})]]
  BY <1>2 DEF TypeOK, WriteEntry, Recorded, Snapshots
<1>4. Changed(w, k) \in BOOLEAN
  BY <1>1 DEF Changed, Jobs
<1>5. /\ [job[w] EXCEPT !.todo = left, !.changed = Changed(w, k)] \in Jobs
      /\ [job[w] EXCEPT !.pc = "listing", !.todo = {}, !.changed = TRUE] \in Jobs
  BY <1>1, <1>2, <1>4 DEF Jobs
<1>6. job' \in [Workers -> Jobs]
  BY <1>5, NoJobType DEF TypeOK, WriteEntry, AfterWrite
<1>7. AfterWrite(w, k).pc = "listing" => AfterWrite(w, k).todo = {}
  BY <1>1 DEF AfterWrite, WriteEntry, NoJob, Jobs
<1>8. \A u \in Workers : job'[u].pc = "listing" => job'[u].todo = {}
  BY <1>7 DEF TypeOK, WriteEntry
<1>9. QED
  BY <1>3, <1>6, <1>8 DEF TypeOK, WriteEntry

LEMMA ListEntryType ==
  ASSUME TypeOK, NEW w \in Workers, NEW k \in Keys, ListEntry(w, k)
  PROVE  TypeOK'
<1> DEFINE listed == job[w].listed \cup {k}
           snap   == [job[w].snap EXCEPT ![k] = SnapshotEntry(k)]
<1>1. job[w] \in Jobs
  BY DEF TypeOK
<1>2. listed \in SUBSET Keys /\ snap \in Snapshots
  BY <1>1 DEF Jobs, Snapshots, SnapshotEntry, TypeOK
<1>3. CASE listed = Keys
  <2>1. [NoSave EXCEPT !.pc = "queued", !.snap = snap] \in Saves
    BY <1>2, NoSaveType DEF Saves
  <2>2. save' \in [SaveIds -> Saves] /\ job' \in [Workers -> Jobs]
    BY <1>3, <2>1, NoJobType DEF TypeOK, ListEntry
  <2>3. \A u \in Workers : job'[u].pc = "listing" => job'[u].todo = {}
    BY <1>3 DEF TypeOK, ListEntry, NoJob
  <2>4. QED
    BY <2>2, <2>3 DEF TypeOK, ListEntry
<1>4. CASE listed # Keys
  <2>1. [job[w] EXCEPT !.listed = listed, !.snap = snap] \in Jobs
    BY <1>1, <1>2 DEF Jobs
  <2>2. job' = [job EXCEPT ![w] = [job[w] EXCEPT !.listed = listed, !.snap = snap]]
    BY <1>4 DEF ListEntry, TypeOK
  <2>3. job' \in [Workers -> Jobs] /\ save' = save
    BY <1>4, <2>1, <2>2 DEF TypeOK, ListEntry
  <2>4. \A u \in Workers : job'[u].pc = "listing" => job'[u].todo = {}
    BY <1>1, <2>2 DEF TypeOK, ListEntry, Jobs
  <2>5. QED
    BY <2>3, <2>4 DEF TypeOK, ListEntry
<1>5. QED
  BY <1>3, <1>4

\* A save task keeps its type when it moves on and opens or closes a file.
LEMMA SaveMoves ==
  ASSUME NEW s \in Saves, NEW f \in 0..MaxRequests,
         NEW pc \in {"none", "queued", "opened", "written", "saved", "failed"}
  PROVE  [s EXCEPT !.pc = pc, !.fd = f] \in Saves
<1>1. s.snap \in Snapshots
  BY DEF Saves
<1>2. [s EXCEPT !.pc = pc] \in Saves
  BY DEF Saves
<1>3. [s EXCEPT !.pc = pc, !.fd = f] = [[s EXCEPT !.pc = pc] EXCEPT !.fd = f]
  BY <1>2 DEF Saves
<1>4. QED
  BY <1>1, <1>2, <1>3 DEF Saves

LEMMA SaveStepType ==
  ASSUME TypeOK, NEW i \in SaveIds, SaveStep(i)
  PROVE  TypeOK'
<1>1. i \in 1..MaxRequests /\ save[i] \in Saves /\ 0 \in 0..MaxRequests
  BY BoundAssumption DEF SaveIds, TypeOK
<1>2. CASE OpenTmp(i)
  <2>1. Target(i) \in SaveIds
    BY <1>1, BoundAssumption DEF Target, TypeOK, SaveIds
  <2>2. [save[i] EXCEPT !.pc = "opened", !.fd = Target(i)] \in Saves
    <3>1. Target(i) \in 0..MaxRequests
      BY <2>1 DEF SaveIds
    <3>2. QED
      BY <1>1, <3>1, SaveMoves
  <2>3. save' = [save EXCEPT ![i] = [save[i] EXCEPT !.pc = "opened", !.fd = Target(i)]]
    BY <1>2 DEF OpenTmp, TypeOK
  <2>4. save' \in [SaveIds -> Saves]
    BY <2>2, <2>3 DEF TypeOK
  <2>5. disk' \in [SaveIds -> Data] /\ tmp' \in 0..MaxRequests
    BY <1>2, <2>1, NoDataType, BoundAssumption DEF OpenTmp, Opened, TypeOK, SaveIds
  <2>6. QED
    BY <1>2, <2>4, <2>5 DEF OpenTmp, TypeOK
<1>3. CASE WriteTmp(i)
  <2>1. PICK data \in Written(disk[save[i].fd], save[i].snap) :
          disk' = [disk EXCEPT ![save[i].fd] = data]
    BY <1>3 DEF WriteTmp
  <2>2. disk' \in [SaveIds -> Data]
    <3>1. CASE save[i].fd \in SaveIds
      BY <1>1, <2>1, <3>1, WrittenType DEF TypeOK, Saves
    <3>2. CASE save[i].fd \notin SaveIds
      BY <2>1, <3>2 DEF TypeOK
    <3>3. QED
      BY <3>1, <3>2
  <2>3. [save[i] EXCEPT !.pc = "written"] \in Saves
    BY <1>1 DEF Saves
  <2>4. save' = [save EXCEPT ![i] = [save[i] EXCEPT !.pc = "written"]]
    BY <1>3 DEF WriteTmp, TypeOK
  <2>5. save' \in [SaveIds -> Saves]
    BY <2>3, <2>4 DEF TypeOK
  <2>6. QED
    BY <1>3, <2>2, <2>5 DEF WriteTmp, TypeOK
<1>4. CASE WriteFails(i)
  <2>1. [save[i] EXCEPT !.pc = "failed", !.fd = 0] \in Saves
    BY <1>1, SaveMoves
  <2>2. save' = [save EXCEPT ![i] = [save[i] EXCEPT !.pc = "failed", !.fd = 0]]
    BY <1>4 DEF WriteFails, TypeOK
  <2>3. save' \in [SaveIds -> Saves]
    BY <2>1, <2>2 DEF TypeOK
  <2>4. disk' \in [SaveIds -> Data]
    BY <1>4, BlankType DEF WriteFails, TypeOK, Data
  <2>5. QED
    BY <1>4, <2>3, <2>4 DEF WriteFails, TypeOK
<1>5. CASE SaveFails(i)
  <2>1. [save[i] EXCEPT !.pc = "failed", !.fd = 0] \in Saves
    BY <1>1, SaveMoves
  <2>2. save' = [save EXCEPT ![i] = [save[i] EXCEPT !.pc = "failed", !.fd = 0]]
    BY <1>5 DEF SaveFails, TypeOK
  <2>3. save' \in [SaveIds -> Saves]
    BY <2>1, <2>2 DEF TypeOK
  <2>4. QED
    BY <1>5, <2>3 DEF SaveFails, TypeOK
<1>6. CASE RenameTmp(i)
  <2>1. /\ [save[i] EXCEPT !.pc = "failed", !.fd = 0] \in Saves
        /\ [save[i] EXCEPT !.pc = "saved", !.fd = 0] \in Saves
    BY <1>1, SaveMoves
  <2>2. \/ save' = [save EXCEPT ![i] = [save[i] EXCEPT !.pc = "failed", !.fd = 0]]
        \/ save' = [save EXCEPT ![i] = [save[i] EXCEPT !.pc = "saved", !.fd = 0]]
    BY <1>6 DEF RenameTmp, TypeOK
  <2>3. save' \in [SaveIds -> Saves]
    BY <2>1, <2>2 DEF TypeOK
  <2>4. file' \in 0..MaxRequests /\ tmp' \in 0..MaxRequests
    BY <1>6, BoundAssumption DEF RenameTmp, TypeOK
  <2>5. QED
    BY <1>6, <2>3, <2>4 DEF RenameTmp, TypeOK
<1>7. QED
  BY <1>2, <1>3, <1>4, <1>5, <1>6 DEF SaveStep

LEMMA CrashType == TypeOK /\ Crash => TypeOK'
<1> SUFFICES ASSUME TypeOK, Crash PROVE TypeOK'
  OBVIOUS
<1>1. PICK cut \in SUBSET {i \in SaveIds : save[i].pc = "opened"} :
        LET files == [f \in SaveIds |-> IF \E i \in cut : save[i].fd = f
                                        THEN [kind |-> "torn", snap |-> Blank]
                                        ELSE disk[f]]
        IN disk' = files /\ mem' = Loaded(files)
  BY DEF Crash
<1>2. disk' \in [SaveIds -> Data]
  BY <1>1, BlankType DEF TypeOK, Data
<1>3. mem' = Loaded(disk')
  BY <1>1
<1>4. mem' \in Snapshots
  BY <1>2, <1>3, LoadedType DEF TypeOK
<1>5. job' \in [Workers -> Jobs] /\ save' \in [SaveIds -> Saves]
  BY NoJobType, NoSaveType DEF Crash
<1>6. crashes' \in 0..MaxCrashes
  BY BoundAssumption DEF Crash, TypeOK
<1>7. /\ \A w \in Workers : job'[w].pc # "listing"
      /\ since' \in [SaveIds -> [Keys -> SUBSET (Values \cup {Absent})]]
  BY DEF Crash, NoJob, Unwritten
<1>8. QED
  BY <1>2, <1>4, <1>5, <1>6, <1>7 DEF Crash, TypeOK

LEMMA InitType == Init => TypeOK
<1> SUFFICES ASSUME Init PROVE TypeOK
  OBVIOUS
<1>1. job \in [Workers -> Jobs] /\ save \in [SaveIds -> Saves] /\ disk \in [SaveIds -> Data]
  BY NoJobType, NoSaveType, NoDataType DEF Init
<1>2. /\ mem \in Snapshots /\ \A w \in Workers : job[w].pc # "listing"
      /\ since \in [SaveIds -> [Keys -> SUBSET (Values \cup {Absent})]]
  BY BaseAssumption DEF Init, Snapshots, NoJob, Unwritten
<1>3. 0 \in 0..MaxRequests /\ 0 \in 0..MaxCrashes
  BY BoundAssumption
<1>4. QED
  BY <1>1, <1>2, <1>3 DEF Init, TypeOK

LEMMA NextType == TypeOK /\ [Next]_vars => TypeOK'
<1> SUFFICES ASSUME TypeOK, [Next]_vars PROVE TypeOK'
  OBVIOUS
<1>1. ASSUME NEW w \in Workers, NEW S \in SUBSET Keys, NEW v \in Values, Register(w, S, v)
      PROVE  TypeOK'
  BY <1>1, BeginType DEF Register
<1>2. ASSUME NEW w \in Workers, NEW S \in SUBSET Keys, Remove(w, S)
      PROVE  TypeOK'
  BY <1>2, BeginType DEF Remove
<1>3. ASSUME NEW w \in Workers, WorkerStep(w)
      PROVE  TypeOK'
  BY <1>3, WriteEntryType, ListEntryType DEF WorkerStep
<1>4. ASSUME NEW i \in SaveIds, SaveStep(i)
      PROVE  TypeOK'
  BY <1>4, SaveStepType
<1>5. CASE Crash
  BY <1>5, CrashType
<1>6. CASE UNCHANGED vars
  BY <1>6 DEF TypeOK, vars
<1>7. QED
  BY <1>1, <1>2, <1>3, <1>4, <1>5, <1>6 DEF Next

\* Registry, requests, save tasks and files keep their types.
THEOREM TypeCorrect == Spec => []TypeOK
<1>1. QED
  BY InitType, NextType, PTL DEF Spec
-----------------------------------------------------------------------------
(* One of the saves is current.                                            *)

\* The request of a job has a number of its own, whose save has not been spawned,
\* and nothing is listed before everything is written.
JobsInv ==
  /\ \A w \in Workers : job[w].pc # "idle" =>
       job[w].id \in 1..requests /\ save[job[w].id].pc = "none"
  /\ \A u, w \in Workers : job[u].pc # "idle" /\ job[w].pc # "idle" /\ u # w =>
       job[u].id # job[w].id
  /\ \A i \in SaveIds : i > requests => save[i].pc = "none"
  /\ \A w \in Workers : job[w].pc = "writing" => job[w].listed = {}

\* A worker that will list what memory holds from now on, or has listed it so far.
Tracks(w) == \/ job[w].pc = "writing" /\ job[w].changed
             \/ job[w].pc = "listing" /\ \A k \in job[w].listed : job[w].snap[k] = mem[k]

\* Once something was persisted since the start, a worker still tracks memory or a
\* spawned save took it whole: whoever changes memory becomes such a worker.
CurrentInv ==
  /\ JobsInv
  /\ (\E w \in Workers : job[w].pc = "listing") \/ Spawned # {} =>
       \/ \E w \in Workers : Tracks(w)
       \/ \E i \in Spawned : save[i].snap = mem

LEMMA JobsStep ==
  ASSUME TypeOK, JobsInv, [Next]_vars
  PROVE  JobsInv'
<1>1. ASSUME NEW w \in Workers, NEW S \in SUBSET Keys, NEW v \in Values \cup {Absent},
             Begin(w, S, v)
      PROVE  JobsInv'
  <2>1. /\ job'[w].pc = "writing" /\ job'[w].id = requests + 1 /\ job'[w].listed = {}
        /\ \A u \in Workers \ {w} : job'[u] = job[u]
        /\ requests' = requests + 1 /\ save' = save
    BY <1>1 DEF Begin, TypeOK, NoJob
  <2>2. save[requests + 1].pc = "none" /\ requests \in Nat
    BY <1>1, BoundAssumption DEF Begin, JobsInv, TypeOK, SaveIds
  <2>3. QED
    BY <2>1, <2>2 DEF JobsInv, TypeOK, SaveIds
<1>2. ASSUME NEW w \in Workers, NEW k \in Keys, WriteEntry(w, k)
      PROVE  JobsInv'
  <2>1. /\ job'[w].pc # "idle" => job'[w].id = job[w].id
        /\ job'[w].pc = "writing" => job'[w].listed = job[w].listed
        /\ \A u \in Workers \ {w} : job'[u] = job[u]
        /\ job[w].pc = "writing" /\ requests' = requests /\ save' = save
    BY <1>2 DEF WriteEntry, AfterWrite, TypeOK, NoJob, Jobs
  <2>2. QED
    BY <2>1 DEF JobsInv
<1>3. ASSUME NEW w \in Workers, NEW k \in Keys, ListEntry(w, k)
      PROVE  JobsInv'
  <2>1. /\ job'[w].pc # "idle" => job'[w].id = job[w].id /\ save' = save
        /\ job'[w].pc # "writing"
        /\ \A u \in Workers \ {w} : job'[u] = job[u]
        /\ job[w].pc = "listing" /\ requests' = requests
    BY <1>3 DEF ListEntry, TypeOK, NoJob, Jobs
  <2>2. \A i \in SaveIds : i # job[w].id => save'[i] = save[i]
    BY <1>3 DEF ListEntry, TypeOK
  <2>3. requests \in Nat /\ 1..requests \subseteq SaveIds
    BY BoundAssumption DEF TypeOK, SaveIds
  <2>4. \A u \in Workers : job'[u].pc # "idle" => save'[job'[u].id].pc = "none"
    BY <2>1, <2>2, <2>3 DEF JobsInv
  <2>5. \A i \in SaveIds : i > requests => i # job[w].id
    BY <2>1, <2>3 DEF JobsInv, SaveIds
  <2>6. QED
    BY <2>1, <2>2, <2>4, <2>5 DEF JobsInv
<1>4. ASSUME NEW i \in SaveIds, SaveStep(i)
      PROVE  JobsInv'
  <2>1. /\ job' = job /\ requests' = requests
        /\ save[i].pc # "none"
        /\ \A j \in SaveIds \ {i} : save'[j] = save[j]
    BY <1>4 DEF SaveStep, OpenTmp, WriteTmp, WriteFails, SaveFails, RenameTmp, TypeOK
  <2>2. \A w \in Workers : job[w].pc # "idle" => job[w].id \in SaveIds \ {i}
    BY <2>1, BoundAssumption DEF JobsInv, TypeOK, SaveIds
  <2>3. \A j \in SaveIds : j > requests => j # i
    BY <2>1 DEF JobsInv
  <2>4. QED
    BY <2>1, <2>2, <2>3 DEF JobsInv
<1>5. CASE Crash
  <2>1. /\ \A w \in Workers : job'[w].pc = "idle"
        /\ \A i \in SaveIds : save'[i].pc = "none"
    BY <1>5 DEF Crash, NoJob, NoSave
  <2>2. QED
    BY <2>1 DEF JobsInv
<1>6. CASE UNCHANGED vars
  BY <1>6 DEF JobsInv, vars
<1>7. QED
  BY <1>1, <1>2, <1>3, <1>4, <1>5, <1>6 DEF Next, Register, Remove, WorkerStep

\* Writing an entry: the worker that changed memory tracks it from then on, and a
\* worker that found nothing to change leaves memory to whoever tracked it.
LEMMA CurrentWriteEntry ==
  ASSUME TypeOK, CurrentInv, NEW w \in Workers, NEW k \in Keys, WriteEntry(w, k)
  PROVE  CurrentInv'
<1>1. /\ job[w].pc = "writing" /\ job[w] \in Jobs /\ job[w].listed = {}
      /\ mem' = [mem EXCEPT ![k] = job[w].value]
      /\ save' = save
      /\ \A u \in Workers \ {w} : job'[u] = job[u]
  BY DEF WriteEntry, AfterWrite, TypeOK, CurrentInv, JobsInv
<1>2. JobsInv'
  BY JobsStep DEF CurrentInv, Next, WorkerStep
<1>3. CASE Changed(w, k)
  <2>1. \/ job'[w] = [job[w] EXCEPT !.todo = job[w].todo \ {k}, !.changed = TRUE]
        \/ job'[w] = [job[w] EXCEPT !.pc = "listing", !.todo = {}, !.changed = TRUE]
    BY <1>1, <1>3 DEF WriteEntry, AfterWrite, TypeOK, Changed, Jobs
  <2>2. Tracks(w)'
    BY <1>1, <2>1 DEF Tracks, Jobs
  <2>3. QED
    BY <1>2, <2>2 DEF CurrentInv
<1>4. CASE ~Changed(w, k)
  <2>1. mem' = mem /\ ~job[w].changed
    BY <1>1, <1>4 DEF Changed, TypeOK, Snapshots
  <2>2. job'[w].pc # "listing"
    BY <1>1, <1>4 DEF WriteEntry, AfterWrite, TypeOK, NoJob, Jobs
  <2>3. \A u \in Workers : Tracks(u) => Tracks(u)'
    BY <1>1, <2>1 DEF Tracks
  <2>4. Spawned' = Spawned /\ \A i \in Spawned : save'[i].snap = save[i].snap
    BY <1>1 DEF Spawned
  <2>5. QED
    BY <1>1, <1>2, <2>1, <2>2, <2>3, <2>4 DEF CurrentInv
<1>5. QED
  BY <1>3, <1>4

LEMMA CurrentListEntry ==
  ASSUME TypeOK, CurrentInv, NEW w \in Workers, NEW k \in Keys, ListEntry(w, k)
  PROVE  CurrentInv'
<1> DEFINE listed == job[w].listed \cup {k}
           snap   == [job[w].snap EXCEPT ![k] = mem[k]]
<1>1. /\ job[w].pc = "listing" /\ job[w] \in Jobs
      /\ mem' = mem
      /\ \A u \in Workers \ {w} : job'[u] = job[u]
      /\ save[job[w].id].pc = "none" /\ job[w].id \in SaveIds
  BY BoundAssumption DEF ListEntry, TypeOK, CurrentInv, JobsInv, SaveIds
<1>2. JobsInv'
  BY JobsStep DEF CurrentInv, Next, WorkerStep
<1>3. \A i \in SaveIds : i # job[w].id => save'[i] = save[i]
  BY DEF ListEntry, TypeOK
<1>4. \A u \in Workers \ {w} : Tracks(u) => Tracks(u)'
  BY <1>1 DEF Tracks
<1>5. \A i \in Spawned : i \in Spawned' /\ save'[i].snap = save[i].snap
  BY <1>1, <1>3 DEF Spawned
<1>6. snap \in Snapshots
  BY <1>1 DEF Jobs, Snapshots, TypeOK
<1>7. ASSUME Tracks(w)
      PROVE  Tracks(w)' \/ \E i \in Spawned' : save'[i].snap = mem'
  <2>1. \A j \in listed : snap[j] = mem[j]
    BY <1>1, <1>6, <1>7 DEF Tracks, Jobs, Snapshots
  <2>2. CASE listed = Keys
    <3>1. snap = mem
      BY <1>6, <2>1, <2>2 DEF TypeOK, Snapshots
    <3>2. save' = [save EXCEPT ![job[w].id] = [NoSave EXCEPT !.pc = "queued", !.snap = snap]]
      BY <2>2 DEF ListEntry, SnapshotEntry
    <3>3. save'[job[w].id].pc = "queued" /\ save'[job[w].id].snap = snap
      BY <1>1, <3>2 DEF TypeOK, NoSave
    <3>4. QED
      BY <1>1, <3>1, <3>3 DEF Spawned
  <2>3. CASE listed # Keys
    <3>1. job' = [job EXCEPT ![w].listed = listed, ![w].snap = snap]
      BY <2>3 DEF ListEntry, SnapshotEntry
    <3>2. job'[w].pc = "listing" /\ job'[w].listed = listed /\ job'[w].snap = snap
      BY <1>1, <3>1 DEF TypeOK, Jobs
    <3>3. QED
      BY <1>1, <2>1, <3>2 DEF Tracks
  <2>4. QED
    BY <2>2, <2>3
<1>8. \/ \E u \in Workers : Tracks(u)
      \/ \E i \in Spawned : save[i].snap = mem
  BY <1>1 DEF CurrentInv
<1>9. \/ \E u \in Workers : Tracks(u)'
      \/ \E i \in Spawned' : save'[i].snap = mem'
  BY <1>1, <1>4, <1>5, <1>7, <1>8
<1>10. QED
  BY <1>2, <1>9 DEF CurrentInv

\* A step of a save leaves memory, the requests and the other saves alone, and what it
\* saves.
LEMMA SaveStepKeeps ==
  ASSUME TypeOK, NEW i \in SaveIds, SaveStep(i)
  PROVE  /\ mem' = mem /\ job' = job /\ requests' = requests /\ overlapped' = overlapped
         /\ Pending(i)
         /\ \A j \in SaveIds \ {i} : save'[j] = save[j]
         /\ \A j \in SaveIds : save'[j].snap = save[j].snap
         /\ \A j \in SaveIds : save'[j].pc # "none" <=> save[j].pc # "none"
<1>1. save[i] \in Saves
  BY DEF TypeOK
<1>2. /\ mem' = mem /\ job' = job /\ requests' = requests /\ overlapped' = overlapped
      /\ Pending(i)
  BY DEF SaveStep, OpenTmp, WriteTmp, WriteFails, SaveFails, RenameTmp, Pending
<1>3. /\ \A j \in SaveIds \ {i} : save'[j] = save[j]
      /\ save'[i].snap = save[i].snap /\ save'[i].pc # "none"
  <2>1. CASE OpenTmp(i)
    BY <1>1, <2>1 DEF OpenTmp, TypeOK, Saves
  <2>2. CASE WriteTmp(i)
    BY <1>1, <2>2 DEF WriteTmp, TypeOK, Saves
  <2>3. CASE WriteFails(i)
    BY <1>1, <2>3 DEF WriteFails, TypeOK, Saves
  <2>4. CASE SaveFails(i)
    BY <1>1, <2>4 DEF SaveFails, TypeOK, Saves
  <2>5. CASE RenameTmp(i)
    BY <1>1, <2>5 DEF RenameTmp, TypeOK, Saves
  <2>6. QED
    BY <2>1, <2>2, <2>3, <2>4, <2>5 DEF SaveStep
<1>4. QED
  BY <1>2, <1>3 DEF Pending

LEMMA CurrentStep ==
  ASSUME TypeOK, CurrentInv, [Next]_vars
  PROVE  CurrentInv'
<1>1. JobsInv'
  BY JobsStep DEF CurrentInv
<1>2. ASSUME NEW w \in Workers, NEW S \in SUBSET Keys, NEW v \in Values \cup {Absent},
             Begin(w, S, v)
      PROVE  CurrentInv'
  <2>1. /\ job[w].pc = "idle" /\ job'[w].pc = "writing"
        /\ \A u \in Workers \ {w} : job'[u] = job[u]
        /\ mem' = mem /\ save' = save
    BY <1>2 DEF Begin, TypeOK, NoJob
  <2>2. \A u \in Workers : Tracks(u) => Tracks(u)'
    BY <2>1 DEF Tracks
  <2>3. Spawned' = Spawned
    BY <2>1 DEF Spawned
  <2>4. QED
    BY <1>1, <2>1, <2>2, <2>3 DEF CurrentInv
<1>3. ASSUME NEW i \in SaveIds, SaveStep(i)
      PROVE  CurrentInv'
  <2>1. /\ job' = job /\ mem' = mem
        /\ \A j \in SaveIds : save'[j].snap = save[j].snap
        /\ \A j \in SaveIds : save'[j].pc # "none" <=> save[j].pc # "none"
    BY <1>3, SaveStepKeeps
  <2>2. Spawned' = Spawned /\ \A w \in Workers : Tracks(w) => Tracks(w)'
    BY <2>1 DEF Spawned, Tracks
  <2>3. QED
    BY <1>1, <2>1, <2>2 DEF CurrentInv, Spawned
<1>4. CASE Crash
  <2>1. /\ \A w \in Workers : job'[w].pc = "idle"
        /\ Spawned' = {}
    BY <1>4 DEF Crash, NoJob, NoSave, Spawned
  <2>2. QED
    BY <1>1, <2>1 DEF CurrentInv
<1>5. CASE UNCHANGED vars
  BY <1>1, <1>5 DEF CurrentInv, Tracks, Spawned, vars
<1>6. QED
  BY <1>2, <1>3, <1>4, <1>5, CurrentWriteEntry, CurrentListEntry
  DEF Next, Register, Remove, WorkerStep

LEMMA CurrentInit == Init => CurrentInv
  BY DEF Init, CurrentInv, JobsInv, Spawned, NoJob, NoSave

\* Once no request runs, one of the saves spawned since the start took exactly
\* what memory holds, although no lock orders changes and snapshots.
THEOREM SomeSaveAlwaysCurrent == Spec => []SomeSaveIsCurrent
<1>1. CurrentInv => SomeSaveIsCurrent
  BY DEF CurrentInv, SomeSaveIsCurrent, Tracks
<1>2. TypeOK /\ CurrentInv /\ [Next]_vars => CurrentInv'
  BY CurrentStep
<1>3. QED
  BY CurrentInit, <1>1, <1>2, TypeCorrect, PTL DEF Spec

-----------------------------------------------------------------------------
(* Snapshots are recent.                                                   *)

\* What a request has written, or leaves alone, is in memory as it was at some moment since,
\* and so is what it has listed.
Recent(w) ==
  LET j == job[w]
  IN /\ \A k \in Keys \ j.todo : mem[k] \in since[j.id][k]
     /\ \A k \in j.listed : j.snap[k] \in since[j.id][k]

RecentInv ==
  /\ JobsInv
  /\ \A w \in Workers : job[w].pc # "idle" => Recent(w)
  /\ SnapshotsAreRecent

LEMMA RecentBegin ==
  ASSUME TypeOK, RecentInv, NEW w \in Workers, NEW S \in SUBSET Keys,
         NEW v \in Values \cup {Absent}, Begin(w, S, v)
  PROVE  RecentInv'
<1>1. /\ mem' = mem /\ save' = save /\ requests + 1 \in SaveIds
      /\ \A u \in Workers \ {w} : job'[u] = job[u]
      /\ \A i \in SaveIds : i # requests + 1 => since'[i] = since[i]
      /\ save[requests + 1].pc = "none"
  BY BoundAssumption DEF Begin, TypeOK, RecentInv, JobsInv, SaveIds
<1>2. JobsInv'
  BY JobsStep DEF RecentInv, Next, Register, Remove
<1>3. /\ job'[w].id = requests + 1 /\ job'[w].todo = S /\ job'[w].listed = {}
      /\ \A k \in Keys \ S : since'[requests + 1][k] = {mem[k]}
  BY <1>1 DEF Begin, TypeOK, NoJob
<1>4. Recent(w)'
  BY <1>1, <1>3 DEF Recent
<1>5. ASSUME NEW u \in Workers \ {w}, job'[u].pc # "idle"
      PROVE  Recent(u)'
  <2>1. job[u].id # requests + 1 /\ job[u].id \in SaveIds /\ Recent(u)
    BY <1>1, <1>5, BoundAssumption DEF RecentInv, JobsInv, TypeOK, SaveIds
  <2>2. QED
    BY <1>1, <2>1 DEF Recent
<1>6. SnapshotsAreRecent'
  BY <1>1 DEF RecentInv, SnapshotsAreRecent, Spawned
<1>7. QED
  BY <1>2, <1>4, <1>5, <1>6 DEF RecentInv

LEMMA RecentWriteEntry ==
  ASSUME TypeOK, RecentInv, NEW w \in Workers, NEW k \in Keys, WriteEntry(w, k)
  PROVE  RecentInv'
<1>1. /\ job[w].pc = "writing" /\ job[w] \in Jobs /\ job[w].listed = {}
      /\ job[w].id \in SaveIds /\ save[job[w].id].pc = "none"
      /\ mem' = [mem EXCEPT ![k] = job[w].value]
      /\ save' = save
      /\ \A u \in Workers \ {w} : job'[u] = job[u]
  BY BoundAssumption DEF WriteEntry, TypeOK, RecentInv, JobsInv, SaveIds
<1>2. JobsInv'
  BY JobsStep DEF RecentInv, Next, WorkerStep
<1>3. since' = Recorded(w, k)
  BY DEF WriteEntry
<1>4. ASSUME job'[w].pc # "idle"
      PROVE  Recent(w)'
  <2>1. /\ job'[w].id = job[w].id /\ job'[w].listed = {}
        /\ Keys \ job'[w].todo \subseteq (Keys \ job[w].todo) \cup {k}
    BY <1>1, <1>4 DEF WriteEntry, AfterWrite, TypeOK, Jobs, NoJob
  <2>2. since'[job[w].id] = [since[job[w].id] EXCEPT ![k] = {job[w].value}]
    BY <1>1, <1>3 DEF Recorded
  <2>3. /\ Recent(w) /\ mem \in Snapshots
        /\ since[job[w].id] \in [Keys -> SUBSET (Values \cup {Absent})]
    BY <1>1 DEF RecentInv, TypeOK
  <2>4. \A j \in Keys \ job'[w].todo : mem'[j] \in since'[job[w].id][j]
    BY <1>1, <2>1, <2>2, <2>3 DEF Recent, Snapshots
  <2>5. QED
    BY <2>1, <2>4 DEF Recent
<1>5. ASSUME NEW u \in Workers \ {w}, job'[u].pc # "idle"
      PROVE  Recent(u)'
  <2>1. job[u].id # job[w].id /\ job[u].id \in SaveIds /\ Recent(u) /\ job'[u] = job[u]
    BY <1>1, <1>5, BoundAssumption DEF RecentInv, JobsInv, TypeOK, SaveIds
  <2>2. since'[job[u].id] = IF since[job[u].id][k] # {}
                            THEN [since[job[u].id] EXCEPT ![k] = @ \cup {job[w].value}]
                            ELSE since[job[u].id]
    BY <1>3, <2>1 DEF Recorded
  <2>3. mem \in Snapshots /\ since[job[u].id] \in [Keys -> SUBSET (Values \cup {Absent})]
        /\ job[u].listed \subseteq Keys
    BY <2>1 DEF TypeOK, Jobs
  <2>4. \A j \in Keys \ job[u].todo : mem'[j] \in since'[job[u].id][j]
    BY <1>1, <2>1, <2>2, <2>3 DEF Recent, Snapshots
  <2>5. \A j \in job[u].listed : job[u].snap[j] \in since'[job[u].id][j]
    BY <2>1, <2>2, <2>3 DEF Recent
  <2>6. QED
    BY <2>1, <2>4, <2>5 DEF Recent
<1>6. ASSUME NEW i \in Spawned', NEW j \in Keys
      PROVE  save'[i].snap[j] \in since'[i][j]
  <2>1. i \in SaveIds /\ i # job[w].id /\ save[i].snap[j] \in since[i][j]
    BY <1>1, <1>6 DEF RecentInv, SnapshotsAreRecent, Spawned
  <2>2. since[i][j] \subseteq since'[i][j]
    BY <1>3, <2>1 DEF Recorded, TypeOK
  <2>3. QED
    BY <1>1, <2>1, <2>2
<1>7. QED
  BY <1>2, <1>4, <1>5, <1>6 DEF RecentInv, SnapshotsAreRecent

LEMMA RecentListEntry ==
  ASSUME TypeOK, RecentInv, NEW w \in Workers, NEW k \in Keys, ListEntry(w, k)
  PROVE  RecentInv'
<1> DEFINE listed == job[w].listed \cup {k}
           snap   == [job[w].snap EXCEPT ![k] = mem[k]]
<1>1. /\ job[w].pc = "listing" /\ job[w].todo = {} /\ job[w] \in Jobs
      /\ mem' = mem /\ since' = since
      /\ \A u \in Workers \ {w} : job'[u] = job[u]
      /\ job[w].id \in SaveIds /\ Recent(w)
  BY BoundAssumption DEF ListEntry, TypeOK, RecentInv, JobsInv, SaveIds
<1>2. JobsInv'
  BY JobsStep DEF RecentInv, Next, WorkerStep
<1>3. \A i \in SaveIds : i # job[w].id => save'[i] = save[i]
  BY DEF ListEntry, TypeOK
<1>4. /\ \A j \in listed : snap[j] \in since[job[w].id][j]
      /\ \A j \in Keys : mem[j] \in since[job[w].id][j]
  BY <1>1 DEF Recent, Jobs, Snapshots
<1>5. ASSUME NEW u \in Workers \ {w}, job'[u].pc # "idle"
      PROVE  Recent(u)'
  BY <1>1, <1>5 DEF RecentInv, Recent
<1>6. CASE listed = Keys
  <2>1. /\ save' = [save EXCEPT ![job[w].id] = [NoSave EXCEPT !.pc = "queued", !.snap = snap]]
        /\ job'[w].pc = "idle"
    BY <1>6 DEF ListEntry, SnapshotEntry, TypeOK, NoJob
  <2>2. save'[job[w].id].snap = snap
    BY <1>1, <2>1 DEF TypeOK, NoSave
  <2>3. ASSUME NEW i \in Spawned', NEW j \in Keys
        PROVE  save'[i].snap[j] \in since'[i][j]
    <3>1. CASE i = job[w].id
      BY <1>1, <1>4, <1>6, <2>2, <3>1
    <3>2. CASE i # job[w].id
      BY <1>1, <1>3, <3>2 DEF RecentInv, SnapshotsAreRecent, Spawned
    <3>3. QED
      BY <3>1, <3>2
  <2>4. QED
    BY <1>2, <1>5, <2>1, <2>3 DEF RecentInv, SnapshotsAreRecent
<1>7. CASE listed # Keys
  <2>1. job' = [job EXCEPT ![w].listed = listed, ![w].snap = snap] /\ save' = save
    BY <1>7 DEF ListEntry, SnapshotEntry
  <2>2. /\ job'[w].id = job[w].id /\ job'[w].todo = {} /\ job'[w].listed = listed
        /\ job'[w].snap = snap
    BY <1>1, <2>1 DEF TypeOK, Jobs
  <2>3. Recent(w)'
    BY <1>1, <1>4, <2>2 DEF Recent
  <2>4. SnapshotsAreRecent'
    BY <1>1, <2>1 DEF RecentInv, SnapshotsAreRecent, Spawned
  <2>5. QED
    BY <1>2, <1>5, <2>3, <2>4 DEF RecentInv
<1>8. QED
  BY <1>6, <1>7

LEMMA RecentStep ==
  ASSUME TypeOK, RecentInv, [Next]_vars
  PROVE  RecentInv'
<1>1. JobsInv'
  BY JobsStep DEF RecentInv
<1>2. ASSUME NEW i \in SaveIds, SaveStep(i)
      PROVE  RecentInv'
  <2>1. /\ job' = job /\ mem' = mem
        /\ \A j \in SaveIds : save'[j].snap = save[j].snap
        /\ \A j \in SaveIds : save'[j].pc # "none" <=> save[j].pc # "none"
    BY <1>2, SaveStepKeeps
  <2>2. since' = since
    BY <1>2 DEF SaveStep, OpenTmp, WriteTmp, WriteFails, SaveFails, RenameTmp
  <2>3. QED
    BY <1>1, <2>1, <2>2 DEF RecentInv, Recent, SnapshotsAreRecent, Spawned
<1>3. CASE Crash
  <2>1. /\ \A w \in Workers : job'[w].pc = "idle"
        /\ Spawned' = {}
    BY <1>3 DEF Crash, NoJob, NoSave, Spawned
  <2>2. QED
    BY <1>1, <2>1 DEF RecentInv, SnapshotsAreRecent
<1>4. CASE UNCHANGED vars
  BY <1>1, <1>4 DEF RecentInv, Recent, SnapshotsAreRecent, Spawned, vars
<1>5. QED
  BY <1>2, <1>3, <1>4, RecentBegin, RecentWriteEntry, RecentListEntry
  DEF Next, Register, Remove, WorkerStep

LEMMA RecentInit == Init => RecentInv
  BY DEF Init, RecentInv, JobsInv, SnapshotsAreRecent, Spawned, NoJob, NoSave

\* A save has what its own request wrote, or what was put there later, and every other
\* entry as it was at some moment of the request, however requests interleave.
THEOREM AlwaysRecent == Spec => []SnapshotsAreRecent
<1>1. RecentInv => SnapshotsAreRecent
  BY DEF RecentInv
<1>2. TypeOK /\ RecentInv /\ [Next]_vars => RecentInv'
  BY RecentStep
<1>3. QED
  BY RecentInit, TypeCorrect, <1>1, <1>2, PTL DEF Spec
-----------------------------------------------------------------------------
(* Requests that do not overlap.                                           *)

Busy(w) == job[w].pc # "idle"

\* The request or the save under way is the last one, it is the only one, and what it
\* has copied is what memory holds.
OneAtATime ==
  /\ \A w \in Workers : Busy(w) => job[w].id = requests
  /\ \A w \in Workers : job[w].pc = "listing" => \A k \in job[w].listed : job[w].snap[k] = mem[k]
  /\ \A i \in SaveIds : Pending(i) =>
       i = requests /\ save[i].snap = mem /\ \A w \in Workers : ~Busy(w)

\* registry.json is not the file that is being written, nor the one that is going to be
\* created.
FilesApart ==
  /\ tmp # 0 => tmp # file
  /\ (\E w \in Workers : Busy(w)) \/ (\E i \in SaveIds : save[i].pc = "queued") => file < requests

\* The save under way has the file at the temporary path open, and that holds what the
\* save has written.
TmpIsOpen ==
  \A i \in SaveIds :
    /\ save[i].pc \in {"opened", "written"} => tmp # 0 /\ save[i].fd = tmp
    /\ save[i].pc = "opened" => disk[tmp].kind = "empty"
    /\ save[i].pc = "written" => disk[tmp] = [kind |-> "whole", snap |-> save[i].snap]

\* The last save, once it is renamed, stays what memory holds until a request changes
\* something.
SavedIsCurrent ==
  \A i \in SaveIds :
    Newest(i) /\ save[i].pc = "saved"
      /\ (\A w \in Workers : Busy(w) => job[w].pc = "writing" /\ ~job[w].changed)
    => file # 0 /\ disk[file] = [kind |-> "whole", snap |-> mem]

SerialInv ==
  /\ JobsInv
  /\ tmp <= requests /\ file <= requests
  /\ ~overlapped => OneAtATime /\ FilesApart /\ TmpIsOpen /\ FileWhole /\ SavedIsCurrent

\* Under OneAtATime a busy worker is alone, and no save is under way.
LEMMA BusyIsAlone ==
  ASSUME TypeOK, JobsInv, OneAtATime, NEW w \in Workers, Busy(w)
  PROVE  /\ job[w].id = requests /\ requests \in SaveIds
         /\ \A u \in Workers \ {w} : job[u].pc = "idle"
         /\ \A i \in SaveIds : ~Pending(i)
<1>1. requests \in Nat /\ 1..requests \subseteq SaveIds
  BY BoundAssumption DEF TypeOK, SaveIds
<1>2. QED
  BY <1>1 DEF OneAtATime, JobsInv, Busy

LEMMA SerialBegin ==
  ASSUME TypeOK, SerialInv, NEW w \in Workers, NEW S \in SUBSET Keys,
         NEW v \in Values \cup {Absent}, Begin(w, S, v)
  PROVE  SerialInv'
<1>1. /\ job'[w].pc = "writing" /\ job'[w].id = requests + 1 /\ ~job'[w].changed
      /\ \A u \in Workers \ {w} : job'[u] = job[u]
      /\ requests' = requests + 1 /\ requests \in Nat
      /\ mem' = mem /\ save' = save /\ disk' = disk /\ tmp' = tmp /\ file' = file
  BY BoundAssumption DEF Begin, TypeOK, NoJob
<1>2. JobsInv' /\ tmp' <= requests' /\ file' <= requests'
  <2>1. JobsInv'
    BY JobsStep DEF SerialInv, Next, Register, Remove, Begin
  <2>2. QED
    BY <1>1, <2>1 DEF SerialInv, TypeOK
<1>3. SUFFICES ASSUME ~overlapped'
               PROVE  (OneAtATime /\ FilesApart /\ TmpIsOpen /\ FileWhole /\ SavedIsCurrent)'
  BY <1>2 DEF SerialInv
<1>4. /\ ~overlapped /\ Quiet
      /\ OneAtATime /\ FilesApart /\ TmpIsOpen /\ FileWhole /\ SavedIsCurrent
  BY <1>3 DEF Begin, SerialInv, TypeOK
<1>5. /\ \A u \in Workers : job[u].pc = "idle"
      /\ \A i \in SaveIds : ~Pending(i) /\ ~Pending(i)'
  BY <1>1, <1>4 DEF Quiet, Pending
<1>6. OneAtATime'
  BY <1>1, <1>5 DEF OneAtATime, Busy
<1>7. FilesApart'
  BY <1>1, <1>4 DEF FilesApart, SerialInv, TypeOK
<1>8. TmpIsOpen' /\ FileWhole'
  BY <1>1, <1>4 DEF TmpIsOpen, FileWhole
<1>9. SavedIsCurrent'
  BY <1>1, <1>4, <1>5 DEF SavedIsCurrent, Newest, Spawned, Busy
<1>10. QED
  BY <1>6, <1>7, <1>8, <1>9

LEMMA SerialWriteEntry ==
  ASSUME TypeOK, SerialInv, NEW w \in Workers, NEW k \in Keys, WriteEntry(w, k)
  PROVE  SerialInv'
<1>1. /\ job[w].pc = "writing" /\ job[w] \in Jobs /\ job[w].listed = {}
      /\ mem' = [mem EXCEPT ![k] = job[w].value]
      /\ save' = save /\ disk' = disk /\ tmp' = tmp /\ file' = file
      /\ requests' = requests /\ overlapped' = overlapped
      /\ \A u \in Workers \ {w} : job'[u] = job[u]
  BY DEF WriteEntry, AfterWrite, TypeOK, SerialInv, JobsInv
<1>2. JobsInv'
  BY JobsStep DEF SerialInv, Next, WorkerStep
<1>3. SUFFICES ASSUME ~overlapped
               PROVE  (OneAtATime /\ FilesApart /\ TmpIsOpen /\ FileWhole /\ SavedIsCurrent)'
  BY <1>1, <1>2 DEF SerialInv
<1>4. OneAtATime /\ FilesApart /\ TmpIsOpen /\ FileWhole /\ SavedIsCurrent /\ JobsInv
  BY <1>3 DEF SerialInv
<1>5. /\ job[w].id = requests
      /\ \A u \in Workers \ {w} : job[u].pc = "idle"
      /\ \A i \in SaveIds : ~Pending(i)
  BY <1>1, <1>4, BusyIsAlone DEF Busy
<1>6. /\ job'[w].pc # "idle" => job'[w].id = requests /\ job'[w].listed = {}
      /\ job'[w].pc = "writing" => job'[w].changed = Changed(w, k)
      /\ Changed(w, k) => job'[w].pc # "idle"
  <2> DEFINE left == job[w].todo \ {k}
             more == [job[w] EXCEPT !.todo = left, !.changed = Changed(w, k)]
             list == [job[w] EXCEPT !.pc = "listing", !.todo = {}, !.changed = TRUE]
  <2>1. \/ job'[w] = more
        \/ job'[w] = list
        \/ job'[w] = NoJob /\ ~Changed(w, k)
    BY DEF WriteEntry, AfterWrite, TypeOK
  <2>2. /\ more.pc = "writing" /\ more.id = job[w].id /\ more.listed = {}
        /\ more.changed = Changed(w, k)
    BY <1>1 DEF Jobs
  <2>3. list.pc = "listing" /\ list.id = job[w].id /\ list.listed = {}
    BY <1>1 DEF Jobs
  <2>4. NoJob.pc = "idle"
    BY DEF NoJob
  <2> HIDE DEF more, list
  <2>5. QED
    BY <1>5, <2>1, <2>2, <2>3, <2>4
<1>7. OneAtATime'
  BY <1>1, <1>5, <1>6 DEF OneAtATime, Busy, Pending
<1>8. FilesApart' /\ TmpIsOpen' /\ FileWhole'
  BY <1>1, <1>4 DEF FilesApart, TmpIsOpen, FileWhole, Busy
<1>9. SavedIsCurrent'
  <2>1. CASE Changed(w, k)
    <3>1. job'[w].pc # "idle" /\ ~(job'[w].pc = "writing" /\ ~job'[w].changed)
      BY <1>6, <2>1
    <3>2. QED
      BY <3>1 DEF SavedIsCurrent, Busy
  <2>2. CASE ~Changed(w, k)
    <3>1. mem' = mem /\ ~job[w].changed
      BY <1>1, <2>2 DEF Changed, TypeOK, Snapshots
    <3>2. \A u \in Workers : Busy(u) => job[u].pc = "writing" /\ ~job[u].changed
      BY <1>1, <1>5, <3>1 DEF Busy
    <3>3. QED
      BY <1>1, <1>4, <3>1, <3>2 DEF SavedIsCurrent, Newest, Spawned
  <2>3. QED
    BY <2>1, <2>2
<1>10. QED
  BY <1>7, <1>8, <1>9

LEMMA SerialListEntry ==
  ASSUME TypeOK, SerialInv, NEW w \in Workers, NEW k \in Keys, ListEntry(w, k)
  PROVE  SerialInv'
<1> DEFINE listed == job[w].listed \cup {k}
           snap   == [job[w].snap EXCEPT ![k] = mem[k]]
           i      == job[w].id
<1>1. /\ job[w].pc = "listing" /\ job[w] \in Jobs
      /\ mem' = mem /\ disk' = disk /\ tmp' = tmp /\ file' = file
      /\ requests' = requests /\ overlapped' = overlapped
      /\ \A u \in Workers \ {w} : job'[u] = job[u]
      /\ i \in SaveIds /\ save[i].pc = "none"
  BY BoundAssumption DEF ListEntry, TypeOK, SerialInv, JobsInv, SaveIds
<1>2. JobsInv'
  BY JobsStep DEF SerialInv, Next, WorkerStep
<1>3. SUFFICES ASSUME ~overlapped
               PROVE  (OneAtATime /\ FilesApart /\ TmpIsOpen /\ FileWhole /\ SavedIsCurrent)'
  BY <1>1, <1>2 DEF SerialInv
<1>4. OneAtATime /\ FilesApart /\ TmpIsOpen /\ FileWhole /\ SavedIsCurrent /\ JobsInv
  BY <1>3 DEF SerialInv
<1>5. /\ i = requests
      /\ \A u \in Workers \ {w} : job[u].pc = "idle"
      /\ \A j \in SaveIds : ~Pending(j)
  BY <1>1, <1>4, BusyIsAlone DEF Busy
<1>6. snap \in Snapshots /\ \A j \in listed : snap[j] = mem[j]
  BY <1>1, <1>4 DEF Jobs, Snapshots, TypeOK, OneAtATime
<1>7. \A j \in SaveIds : j \in Spawned => j < i
  BY <1>1, <1>4, <1>5 DEF Spawned, JobsInv, SaveIds, TypeOK
<1>8. CASE listed = Keys
  <2>1. snap = mem
    BY <1>6, <1>8 DEF TypeOK, Snapshots
  <2>2. save' = [save EXCEPT ![i] = [NoSave EXCEPT !.pc = "queued", !.snap = mem]]
    BY <1>8, <2>1 DEF ListEntry, SnapshotEntry
  <2>3. /\ save'[i].pc = "queued" /\ save'[i].snap = mem
        /\ \A j \in SaveIds \ {i} : save'[j] = save[j]
        /\ \A u \in Workers : job'[u].pc = "idle"
    BY <1>1, <1>5, <1>8, <2>2 DEF TypeOK, NoSave, NoJob, ListEntry
  <2>4. OneAtATime'
    BY <1>1, <1>5, <2>3 DEF OneAtATime, Busy, Pending
  <2>5. FilesApart'
    BY <1>1, <1>4 DEF FilesApart, Busy
  <2>6. TmpIsOpen' /\ FileWhole'
    BY <1>1, <1>4, <2>3 DEF TmpIsOpen, FileWhole
  <2>7. SavedIsCurrent'
    <3>1. ASSUME NEW j \in SaveIds, Newest(j)' PROVE j = i
      BY <1>1, <1>7, <2>3, <3>1 DEF Newest, Spawned, SaveIds
    <3>2. QED
      BY <2>3, <3>1 DEF SavedIsCurrent
  <2>8. QED
    BY <2>4, <2>5, <2>6, <2>7
<1>9. CASE listed # Keys
  <2>1. job' = [job EXCEPT ![w].listed = listed, ![w].snap = snap] /\ save' = save
    BY <1>9 DEF ListEntry, SnapshotEntry
  <2>2. /\ job'[w].pc = "listing" /\ job'[w].listed = listed /\ job'[w].snap = snap
        /\ job'[w].id = i
    BY <1>1, <2>1 DEF TypeOK, Jobs
  <2>3. OneAtATime'
    <3>1. \A u \in Workers : job'[u].pc # "idle" => u = w
      BY <1>1, <1>5
    <3>2. \A j \in SaveIds : ~Pending(j)'
      BY <1>5, <2>1 DEF Pending
    <3>3. \A u \in Workers : Busy(u)' => job'[u].id = requests'
      BY <1>1, <1>5, <2>2, <3>1 DEF Busy
    <3>4. \A u \in Workers : job'[u].pc = "listing" =>
            \A j \in job'[u].listed : job'[u].snap[j] = mem'[j]
      <4> HIDE DEF snap, listed
      <4>1. QED
        BY <1>1, <1>6, <2>2, <3>1
    <3>5. QED
      BY <3>2, <3>3, <3>4 DEF OneAtATime
  <2>4. FilesApart' /\ TmpIsOpen' /\ FileWhole'
    BY <1>1, <1>4, <2>1 DEF FilesApart, TmpIsOpen, FileWhole, Busy
  <2>5. SavedIsCurrent'
    BY <2>2 DEF SavedIsCurrent, Busy
  <2>6. QED
    BY <2>3, <2>4, <2>5
<1>10. QED
  BY <1>8, <1>9

LEMMA SerialSaveStep ==
  ASSUME TypeOK, SerialInv, NEW i \in SaveIds, SaveStep(i)
  PROVE  SerialInv'
<1>1. /\ mem' = mem /\ job' = job /\ requests' = requests /\ overlapped' = overlapped
      /\ Pending(i)
      /\ \A j \in SaveIds \ {i} : save'[j] = save[j]
      /\ \A j \in SaveIds : save'[j].snap = save[j].snap
      /\ \A j \in SaveIds : save'[j].pc # "none" <=> save[j].pc # "none"
  BY SaveStepKeeps
<1>2. JobsInv'
  BY JobsStep DEF SerialInv, Next
<1>3. i \in 1..MaxRequests /\ i <= requests /\ save[i] \in Saves /\ requests \in Nat
  BY <1>1, BoundAssumption DEF SerialInv, JobsInv, Pending, SaveIds, TypeOK
<1>4. tmp' <= requests' /\ file' <= requests'
  <2>1. tmp' \in {tmp, i, 0} /\ file' \in {file, tmp}
    BY DEF SaveStep, OpenTmp, WriteTmp, WriteFails, SaveFails, RenameTmp, Target
  <2>2. QED
    BY <1>1, <1>3, <2>1 DEF SerialInv
<1>5. SUFFICES ASSUME ~overlapped
               PROVE  (OneAtATime /\ FilesApart /\ TmpIsOpen /\ FileWhole /\ SavedIsCurrent)'
  BY <1>1, <1>2, <1>4 DEF SerialInv
<1>6. OneAtATime /\ FilesApart /\ TmpIsOpen /\ FileWhole /\ SavedIsCurrent
  BY <1>5 DEF SerialInv
<1>7. /\ i = requests /\ save[i].snap = mem
      /\ \A w \in Workers : job[w].pc = "idle"
      /\ \A j \in SaveIds \ {i} : ~Pending(j) /\ ~Pending(j)'
  BY <1>1, <1>6 DEF OneAtATime, Busy, Pending
<1>8. OneAtATime'
  BY <1>1, <1>7 DEF OneAtATime, Busy
\* The step is that of the newest save, so that no other one need be looked at.
<1>9. ASSUME NEW j \in SaveIds, Newest(j)'
      PROVE  j = i
  <2>1. i \in Spawned' /\ j \in Spawned
    BY <1>1, <1>9 DEF Newest, Spawned, Pending
  <2>2. i <= j
    BY <1>9, <2>1 DEF Newest
  <2>3. j <= requests
    BY <1>2, <2>1, <1>3 DEF Spawned, SerialInv, JobsInv, SaveIds
  <2>4. QED
    BY <1>3, <1>7, <2>2, <2>3 DEF SaveIds
<1>10. CASE OpenTmp(i)
  <2> DEFINE f == Target(i)
  <2>1. /\ save[i].pc = "queued" /\ tmp' = f /\ file' = file
        /\ disk' = [disk EXCEPT ![f] = NoData]
        /\ f \in SaveIds /\ f # 0
    BY <1>3, <1>10, BoundAssumption DEF OpenTmp, Opened, Target, TypeOK, SaveIds
  <2>2. save'[i].pc = "opened" /\ save'[i].fd = f
    BY <1>10 DEF OpenTmp, TypeOK, Saves
  <2>3. f # file
    BY <1>3, <1>6, <1>7, <2>1 DEF FilesApart, Target, TypeOK
  <2>4. disk'[f].kind = "empty" /\ (file # 0 => disk'[file] = disk[file])
    BY <2>1, <2>3, BoundAssumption DEF NoData, TypeOK, SaveIds
  <2>5. \A j \in SaveIds : save'[j].pc # "queued"
    BY <1>7, <2>2 DEF Pending
  <2>6. FilesApart'
    BY <1>1, <1>7, <2>1, <2>3, <2>5 DEF FilesApart, Busy
  <2>7. TmpIsOpen'
    BY <1>7, <2>1, <2>2, <2>4 DEF TmpIsOpen, Pending
  <2>8. FileWhole'
    BY <1>6, <2>1, <2>4 DEF FileWhole
  <2>9. SavedIsCurrent'
    BY <1>9, <2>2 DEF SavedIsCurrent
  <2>10. QED
    BY <1>8, <2>6, <2>7, <2>8, <2>9
<1>11. CASE WriteTmp(i)
  <2>1. /\ save[i].pc = "opened" /\ tmp' = tmp /\ file' = file
        /\ tmp # 0 /\ save[i].fd = tmp /\ disk[tmp].kind = "empty" /\ tmp # file
        /\ tmp \in SaveIds
    <3>1. /\ save[i].pc = "opened" /\ tmp' = tmp /\ file' = file
          /\ tmp # 0 /\ save[i].fd = tmp /\ disk[tmp].kind = "empty" /\ tmp # file
      BY <1>6, <1>11 DEF WriteTmp, TmpIsOpen, FilesApart
    <3>2. tmp \in SaveIds
      BY <3>1, BoundAssumption DEF TypeOK, SaveIds
    <3>3. QED
      BY <3>1, <3>2
  <2>2. disk' = [disk EXCEPT ![tmp] = [kind |-> "whole", snap |-> save[i].snap]]
    <3>1. PICK data \in Written(disk[save[i].fd], save[i].snap) :
            disk' = [disk EXCEPT ![save[i].fd] = data]
      BY <1>11 DEF WriteTmp
    <3>2. data = [kind |-> "whole", snap |-> save[i].snap]
      BY <2>1 DEF Written
    <3>3. QED
      BY <2>1, <3>1, <3>2
  <2>3. save'[i].pc = "written" /\ save'[i].fd = tmp
    BY <1>11, <2>1 DEF WriteTmp, TypeOK, Saves
  <2>4. /\ disk'[tmp] = [kind |-> "whole", snap |-> save[i].snap]
        /\ file # 0 => disk'[file] = disk[file]
    BY <2>1, <2>2 DEF TypeOK
  <2>5. FilesApart'
    BY <1>1, <1>7, <2>1, <2>3 DEF FilesApart, Busy, Pending
  <2>6. TmpIsOpen'
    BY <1>1, <1>7, <2>1, <2>3, <2>4 DEF TmpIsOpen, Pending
  <2>7. FileWhole'
    BY <1>6, <2>1, <2>4 DEF FileWhole
  <2>8. SavedIsCurrent'
    BY <1>9, <2>3 DEF SavedIsCurrent
  <2>9. QED
    BY <1>8, <2>5, <2>6, <2>7, <2>8
<1>12. CASE WriteFails(i)
  <2>1. /\ save[i].pc = "opened" /\ tmp' = tmp /\ file' = file
        /\ tmp # 0 /\ save[i].fd = tmp /\ tmp # file
    BY <1>6, <1>12 DEF WriteFails, TmpIsOpen, FilesApart
  <2>2. disk' = [disk EXCEPT ![tmp] = [kind |-> "torn", snap |-> Blank]]
    BY <1>12, <2>1 DEF WriteFails
  <2>3. save'[i].pc = "failed"
    BY <1>12 DEF WriteFails, TypeOK, Saves
  <2>4. FilesApart'
    BY <1>1, <1>7, <2>1, <2>3 DEF FilesApart, Busy, Pending
  <2>5. TmpIsOpen'
    BY <1>7, <2>3 DEF TmpIsOpen, Pending
  <2>6. FileWhole'
    BY <1>6, <2>1, <2>2 DEF FileWhole
  <2>7. SavedIsCurrent'
    BY <1>9, <2>3 DEF SavedIsCurrent
  <2>8. QED
    BY <1>8, <2>4, <2>5, <2>6, <2>7
<1>13. CASE SaveFails(i)
  <2>1. tmp' = tmp /\ file' = file /\ disk' = disk /\ save'[i].pc = "failed"
    BY <1>13 DEF SaveFails, TypeOK, Saves
  <2>2. FilesApart'
    BY <1>1, <1>6, <1>7, <2>1 DEF FilesApart, Busy, Pending
  <2>3. TmpIsOpen' /\ FileWhole'
    BY <1>6, <1>7, <2>1 DEF TmpIsOpen, FileWhole, Pending
  <2>4. SavedIsCurrent'
    BY <1>9, <2>1 DEF SavedIsCurrent
  <2>5. QED
    BY <1>8, <2>2, <2>3, <2>4
<1>14. CASE RenameTmp(i)
  <2>1. save[i].pc = "written" /\ tmp # 0 /\ disk[tmp] = [kind |-> "whole", snap |-> mem]
    BY <1>6, <1>7, <1>14 DEF RenameTmp, TmpIsOpen
  <2>2. /\ file' = tmp /\ tmp' = 0 /\ disk' = disk /\ save'[i].pc = "saved"
    BY <1>14, <2>1 DEF RenameTmp, TypeOK, Saves
  <2>3. FilesApart'
    BY <1>1, <1>7, <2>2 DEF FilesApart, Busy, Pending
  <2>4. TmpIsOpen' /\ FileWhole'
    BY <1>7, <2>1, <2>2 DEF TmpIsOpen, FileWhole, Pending
  <2>5. SavedIsCurrent'
    BY <1>1, <2>1, <2>2 DEF SavedIsCurrent
  <2>6. QED
    BY <1>8, <2>3, <2>4, <2>5
<1>15. QED
  BY <1>10, <1>11, <1>12, <1>13, <1>14 DEF SaveStep

\* A crash cuts short what is written at the temporary path, and never the file that is
\* read at the next start.
LEMMA CrashSpares ==
  ASSUME TypeOK, SerialInv, Crash, ~overlapped, file # 0
  PROVE  disk'[file] = disk[file]
<1>1. PICK cut \in SUBSET {i \in SaveIds : save[i].pc = "opened"} :
        LET files == [f \in SaveIds |-> IF \E i \in cut : save[i].fd = f
                                        THEN [kind |-> "torn", snap |-> Blank]
                                        ELSE disk[f]]
        IN disk' = files /\ mem' = Loaded(files)
  BY DEF Crash
<1>2. file \in SaveIds
  BY BoundAssumption DEF TypeOK, SaveIds
<1>3. ASSUME NEW i \in cut
      PROVE  save[i].fd # file
  BY DEF SerialInv, TmpIsOpen, FilesApart
<1>4. QED
  BY <1>1, <1>2, <1>3

LEMMA SerialCrash ==
  ASSUME TypeOK, SerialInv, Crash
  PROVE  SerialInv'
<1>1. /\ tmp' = tmp /\ file' = file /\ requests' = requests /\ overlapped' = overlapped
      /\ \A w \in Workers : job'[w].pc = "idle"
      /\ \A i \in SaveIds : save'[i].pc = "none"
  BY DEF Crash, NoJob, NoSave
<1>2. JobsInv'
  BY JobsStep DEF SerialInv, Next
<1>3. SUFFICES ASSUME ~overlapped
               PROVE  (OneAtATime /\ FilesApart /\ TmpIsOpen /\ FileWhole /\ SavedIsCurrent)'
  BY <1>1, <1>2 DEF SerialInv
<1>4. OneAtATime' /\ TmpIsOpen' /\ SavedIsCurrent'
  BY <1>1 DEF OneAtATime, Busy, Pending, TmpIsOpen, SavedIsCurrent
<1>5. FilesApart'
  BY <1>1, <1>3 DEF FilesApart, Busy, SerialInv
<1>6. FileWhole'
  BY <1>1, <1>3, CrashSpares DEF FileWhole, SerialInv
<1>7. QED
  BY <1>4, <1>5, <1>6

LEMMA SerialInit == Init => SerialInv
<1> SUFFICES ASSUME Init PROVE SerialInv
  OBVIOUS
<1>1. JobsInv
  BY DEF Init, JobsInv, NoJob, NoSave
<1>2. /\ \A w \in Workers : job[w].pc = "idle"
      /\ \A i \in SaveIds : save[i].pc = "none"
      /\ tmp = 0 /\ file = 0 /\ requests = 0
  BY DEF Init, NoJob, NoSave
<1>3. OneAtATime /\ FilesApart /\ TmpIsOpen /\ FileWhole /\ SavedIsCurrent
  BY <1>2 DEF OneAtATime, FilesApart, TmpIsOpen, FileWhole, SavedIsCurrent, Busy, Pending
<1>4. QED
  BY <1>1, <1>2, <1>3 DEF SerialInv

LEMMA SerialNext == TypeOK /\ SerialInv /\ [Next]_vars => SerialInv'
<1> SUFFICES ASSUME TypeOK, SerialInv, [Next]_vars PROVE SerialInv'
  OBVIOUS
<1>1. ASSUME NEW w \in Workers, NEW S \in SUBSET Keys, NEW v \in Values, Register(w, S, v)
      PROVE  SerialInv'
  BY <1>1, SerialBegin DEF Register
<1>2. ASSUME NEW w \in Workers, NEW S \in SUBSET Keys, Remove(w, S)
      PROVE  SerialInv'
  BY <1>2, SerialBegin DEF Remove
<1>3. ASSUME NEW w \in Workers, WorkerStep(w)
      PROVE  SerialInv'
  BY <1>3, SerialWriteEntry, SerialListEntry DEF WorkerStep
<1>4. ASSUME NEW i \in SaveIds, SaveStep(i)
      PROVE  SerialInv'
  BY <1>4, SerialSaveStep
<1>5. CASE Crash
  BY <1>5, SerialCrash
<1>6. CASE UNCHANGED vars
  <2>1. JobsInv'
    BY JobsStep DEF SerialInv
  <2>2. OneAtATime' = OneAtATime /\ FilesApart' = FilesApart /\ TmpIsOpen' = TmpIsOpen
    BY <1>6 DEF OneAtATime, FilesApart, TmpIsOpen, Busy, Pending, vars
  <2>3. FileWhole' = FileWhole /\ SavedIsCurrent' = SavedIsCurrent
    BY <1>6 DEF FileWhole, SavedIsCurrent, Newest, Spawned, Busy, vars
  <2>4. QED
    BY <1>6, <2>1, <2>2, <2>3 DEF SerialInv, vars
<1>7. QED
  BY <1>1, <1>2, <1>3, <1>4, <1>5, <1>6 DEF Next

LEMMA SerialHolds == Spec => []SerialInv
<1>1. QED
  BY SerialInit, SerialNext, TypeCorrect, PTL DEF Spec

\* As long as each request is saved before the next begins, registry.json is missing or
\* holds one complete snapshot, whatever crashes and failed writes do to the temporary
\* file.
THEOREM SerialFileAlwaysWhole == Spec => []SerialFileWhole
<1>1. SerialInv => SerialFileWhole
  BY DEF SerialInv, SerialFileWhole
<1>2. QED
  BY <1>1, SerialHolds, PTL

\* As long as each request is saved before the next begins, a save that ends well leaves
\* in registry.json what memory holds.
THEOREM SerialAlwaysDurable == Spec => []SerialDurable
<1>1. SerialInv => SerialDurable
  BY DEF SerialInv, SerialDurable, SavedIsCurrent, Quiet, Busy
<1>2. QED
  BY <1>1, SerialHolds, PTL

LEMMA RestartStep ==
  ASSUME TypeOK, SerialInv, [Next]_vars, crashes' # crashes, ~overlapped, Quiet,
         NEW i \in SaveIds, Newest(i), save[i].pc = "saved"
  PROVE  mem' = [k \in Keys |-> IF mem[k] = Absent THEN Base[k] ELSE mem[k]]
<1>1. Crash
  <2>1. \A w \in Workers, S \in SUBSET Keys, v \in Values : ~Register(w, S, v)
    BY DEF Register, Begin
  <2>2. \A w \in Workers, S \in SUBSET Keys : ~Remove(w, S)
    BY DEF Remove, Begin
  <2>3. \A w \in Workers : ~WorkerStep(w)
    BY DEF WorkerStep, WriteEntry, AfterWrite, ListEntry
  <2>4. \A j \in SaveIds : ~SaveStep(j)
    BY DEF SaveStep, OpenTmp, WriteTmp, WriteFails, SaveFails, RenameTmp
  <2>5. ~UNCHANGED vars
    BY DEF vars
  <2>6. QED
    BY <2>1, <2>2, <2>3, <2>4, <2>5 DEF Next
<1>2. file # 0 /\ disk[file] = [kind |-> "whole", snap |-> mem]
  BY DEF SerialInv, SavedIsCurrent, Quiet, Busy
<1>3. disk'[file] = [kind |-> "whole", snap |-> mem]
  BY <1>1, <1>2, CrashSpares
<1>4. mem' = Loaded(disk')
  BY <1>1 DEF Crash
<1>5. QED
  BY <1>2, <1>3, <1>4 DEF Loaded

\* A restart after a save that ended well brings the same registry back, but for a
\* removed default namespace, as long as requests did not overlap.
THEOREM RestartBringsBack == Spec => SerialRestart
<1>1. TypeOK /\ SerialInv /\ [Next]_vars =>
        [crashes' # crashes /\ ~overlapped /\ Quiet
           /\ (\E i \in SaveIds : Newest(i) /\ save[i].pc = "saved")
         => mem' = [k \in Keys |-> IF mem[k] = Absent THEN Base[k] ELSE mem[k]]]_vars
  BY RestartStep
<1>2. QED
  BY <1>1, SerialHolds, TypeCorrect, PTL DEF Spec, SerialRestart

-----------------------------------------------------------------------------
(* Nothing starts a request or a save over.                                *)

LEMMA JobStages ==
  ASSUME NEW j
  PROVE  /\ j.pc = "writing" => JobStage(j) = 2
         /\ j.pc = "listing" => JobStage(j) = 1
         /\ j.pc = "idle"    => JobStage(j) = 0
  BY DEF JobStage

LEMMA SaveStages ==
  ASSUME NEW s
  PROVE  /\ s.pc = "queued"  => SaveStage(s) = 3
         /\ s.pc = "opened"  => SaveStage(s) = 2
         /\ s.pc = "written" => SaveStage(s) = 1
         /\ s.pc \in {"saved", "failed"} => SaveStage(s) = 0
  BY DEF SaveStage

LEMMA WriteNearer ==
  ASSUME TypeOK, NEW w \in Workers, NEW k \in Keys, WriteEntry(w, k)
  PROVE  JobNearer(job'[w], job[w])
<1> DEFINE j == job[w]
           left == j.todo \ {k}
<1>1. /\ j \in Jobs /\ j.pc = "writing" /\ k \in j.todo
      /\ job' = [job EXCEPT ![w] =
                   IF left # {} THEN [j EXCEPT !.todo = left, !.changed = Changed(w, k)]
                   ELSE IF Changed(w, k)
                   THEN [j EXCEPT !.pc = "listing", !.todo = {}, !.changed = TRUE]
                   ELSE NoJob]
      /\ job \in [Workers -> Jobs]
  BY DEF WriteEntry, AfterWrite, TypeOK
<1>2. CASE left # {}
  <2>1. job'[w].pc = j.pc /\ job'[w].listed = j.listed /\ job'[w].todo = j.todo \ {k}
    BY <1>1, <1>2 DEF Jobs
  <2>2. QED
    BY <1>1, <2>1 DEF JobNearer
<1>3. CASE left = {}
  <2>1. job'[w].pc \in {"listing", "idle"}
    BY <1>1, <1>3 DEF Jobs, NoJob
  <2>2. JobStage(j) = 2
    BY <1>1, JobStages
  <2>3. JobStage(job'[w]) \in {0, 1}
    BY <2>1, JobStages
  <2>4. QED
    BY <2>2, <2>3 DEF JobNearer
<1>4. QED
  BY <1>2, <1>3

LEMMA ListNearer ==
  ASSUME TypeOK, NEW w \in Workers, NEW k \in Keys, ListEntry(w, k)
  PROVE  JobNearer(job'[w], job[w])
<1> DEFINE j == job[w]
           listed == j.listed \cup {k}
<1>1. /\ j \in Jobs /\ j.pc = "listing" /\ k \notin j.listed /\ job \in [Workers -> Jobs]
      /\ \/ job' = [job EXCEPT ![w] = NoJob]
         \/ job' = [job EXCEPT ![w].listed = listed,
                               ![w].snap = [j.snap EXCEPT ![k] = SnapshotEntry(k)]]
  BY DEF ListEntry, TypeOK
<1>2. CASE job' = [job EXCEPT ![w] = NoJob]
  <2>1. job'[w].pc = "idle"
    BY <1>1, <1>2 DEF NoJob
  <2>2. JobStage(job'[w]) < JobStage(j)
    BY <1>1, <2>1, JobStages
  <2>3. QED
    BY <2>2 DEF JobNearer
<1>3. CASE job' = [job EXCEPT ![w].listed = listed,
                              ![w].snap = [j.snap EXCEPT ![k] = SnapshotEntry(k)]]
  <2>1. job'[w].pc = j.pc /\ job'[w].todo = j.todo /\ job'[w].listed = listed
    BY <1>1, <1>3 DEF Jobs
  <2>2. QED
    BY <1>1, <2>1 DEF JobNearer
<1>4. QED
  BY <1>1, <1>2, <1>3

LEMMA SaveNearer ==
  ASSUME TypeOK, NEW i \in SaveIds, SaveStep(i)
  PROVE  SaveStage(save'[i]) < SaveStage(save[i])
<1>1. save \in [SaveIds -> Saves]
  BY DEF TypeOK
<1>2. CASE OpenTmp(i)
  <2>1. save[i].pc = "queued" /\ save'[i].pc = "opened"
    BY <1>1, <1>2 DEF OpenTmp, Saves
  <2>2. QED
    BY <2>1, SaveStages
<1>3. CASE WriteTmp(i)
  BY <1>1, <1>3, SaveStages DEF WriteTmp, Saves
<1>4. CASE WriteFails(i)
  <2>1. save[i].pc = "opened" /\ save'[i].pc = "failed"
    BY <1>1, <1>4 DEF WriteFails, Saves
  <2>2. QED
    BY <2>1, SaveStages
<1>5. CASE SaveFails(i)
  <2>1. save[i].pc \in {"queued", "written"} /\ save'[i].pc = "failed"
    BY <1>1, <1>5 DEF SaveFails, Saves
  <2>2. QED
    BY <2>1, SaveStages
<1>6. CASE RenameTmp(i)
  <2>1. save[i].pc = "written" /\ save'[i].pc \in {"saved", "failed"}
    BY <1>1, <1>6 DEF RenameTmp, Saves
  <2>2. QED
    BY <2>1, SaveStages
<1>7. QED
  BY <1>2, <1>3, <1>4, <1>5, <1>6 DEF SaveStep

\* What a step of one worker leaves of the others' requests and of the saves, as each
\* request saves under a number of its own.
LEMMA WorkerKeeps ==
  ASSUME TypeOK, JobsInv, NEW w \in Workers, WorkerStep(w)
  PROVE  /\ \A u \in Workers \ {w} : job'[u] = job[u]
         /\ \A i \in Spawned : save'[i] = save[i]
         /\ crashes' = crashes
<1>1. ASSUME NEW k \in Keys, WriteEntry(w, k)
      PROVE  /\ \A u \in Workers \ {w} : job'[u] = job[u]
             /\ \A i \in Spawned : save'[i] = save[i]
             /\ crashes' = crashes
  BY <1>1 DEF WriteEntry, AfterWrite, TypeOK
<1>2. ASSUME NEW k \in Keys, ListEntry(w, k)
      PROVE  /\ \A u \in Workers \ {w} : job'[u] = job[u]
             /\ \A i \in Spawned : save'[i] = save[i]
             /\ crashes' = crashes
  <2>1. \A u \in Workers \ {w} : job'[u] = job[u]
    BY <1>2 DEF ListEntry, TypeOK
  <2>2. \A i \in Spawned : i # job[w].id
    BY <1>2 DEF ListEntry, JobsInv, Spawned
  <2>3. \A i \in SaveIds : i # job[w].id => save'[i] = save[i]
    BY <1>2 DEF ListEntry, TypeOK
  <2>4. QED
    BY <1>2, <2>1, <2>2, <2>3 DEF ListEntry, Spawned
<1>3. QED
  BY <1>1, <1>2 DEF WorkerStep

\* A step that leaves a busy worker's request alone, or is one of it.
LEMMA RequestGoesOn ==
  ASSUME TypeOK, JobsInv, [Next]_vars, NEW w \in Workers, job[w].pc # "idle"
  PROVE  IF WorkerStep(w) THEN JobNearer(job'[w], job[w])
         ELSE job'[w] = job[w] \/ crashes' # crashes
<1>1. CASE WorkerStep(w)
  BY <1>1, WriteNearer, ListNearer DEF WorkerStep
<1>2. CASE ~WorkerStep(w)
  <2>1. ASSUME NEW u \in Workers, NEW S \in SUBSET Keys, NEW v, Begin(u, S, v)
        PROVE  job'[w] = job[w]
    BY <2>1 DEF Begin, TypeOK
  <2>2. ASSUME NEW u \in Workers, WorkerStep(u) PROVE job'[w] = job[w]
    BY <1>2, <2>2, WorkerKeeps
  <2>3. ASSUME NEW i \in SaveIds, SaveStep(i) PROVE job'[w] = job[w]
    BY <2>3 DEF SaveStep, OpenTmp, WriteTmp, WriteFails, SaveFails, RenameTmp
  <2>4. CASE Crash
    BY <1>2, <2>4 DEF Crash, TypeOK
  <2>5. CASE UNCHANGED vars
    BY <1>2, <2>5 DEF vars
  <2>6. QED
    BY <1>2, <2>1, <2>2, <2>3, <2>4, <2>5 DEF Next, Register, Remove
<1>3. QED
  BY <1>1, <1>2

\* A step that leaves a spawned save alone, or is one of it.
LEMMA SaveGoesOn ==
  ASSUME TypeOK, JobsInv, [Next]_vars, NEW i \in Spawned, crashes' = crashes
  PROVE  IF SaveStep(i) THEN SaveStage(save'[i]) < SaveStage(save[i])
         ELSE save'[i] = save[i]
<1>1. i \in SaveIds
  BY DEF Spawned
<1>2. CASE SaveStep(i)
  BY <1>1, <1>2, SaveNearer
<1>3. CASE ~SaveStep(i)
  <2>1. ASSUME NEW u \in Workers, NEW S \in SUBSET Keys, NEW v, Begin(u, S, v)
        PROVE  save'[i] = save[i]
    BY <2>1 DEF Begin
  <2>2. ASSUME NEW u \in Workers, WorkerStep(u) PROVE save'[i] = save[i]
    BY <2>2, WorkerKeeps
  <2>3. ASSUME NEW j \in SaveIds, SaveStep(j) PROVE save'[i] = save[i]
    <3>1. i # j
      BY <1>3, <2>3
    <3>2. QED
      BY <1>1, <2>3, <3>1
         DEF SaveStep, OpenTmp, WriteTmp, WriteFails, SaveFails, RenameTmp, TypeOK
  <2>4. CASE Crash
    BY <2>4 DEF Crash, TypeOK
  <2>5. CASE UNCHANGED vars
    BY <1>3, <2>5 DEF vars
  <2>6. QED
    BY <1>3, <2>1, <2>2, <2>3, <2>4, <2>5 DEF Next, Register, Remove
<1>4. QED
  BY <1>2, <1>3

\* Every step of a request or of a save lowers a measure of what it has before it, and
\* nothing but a crash touches it otherwise.
THEOREM GoesForward == Spec => NeverStartedOver
<1>1. TypeOK /\ JobsInv /\ [Next]_vars =>
        [/\ \A w \in Workers : job[w].pc # "idle" =>
              IF WorkerStep(w) THEN JobNearer(job'[w], job[w])
              ELSE job'[w] = job[w] \/ crashes' # crashes
         /\ \A i \in Spawned : crashes' = crashes =>
              IF SaveStep(i) THEN SaveStage(save'[i]) < SaveStage(save[i])
              ELSE save'[i] = save[i]]_vars
  BY RequestGoesOn, SaveGoesOn
<1>2. Init => JobsInv
  BY CurrentInit DEF CurrentInv
<1>3. QED
  BY <1>1, <1>2, JobsStep, TypeCorrect, PTL DEF Spec, NeverStartedOver
====

---------------------------- MODULE FileStorage ----------------------------
(***************************************************************************)
(* The in-memory backend with its storage file: Windermere.Save, called by *)
(* an extension or at shutdown (windermere/windermere.go), the two         *)
(* platforms' saveSCIMBackend (windermere/saveinmemory_*.go), Serialize    *)
(* and Load (scimserverlite/inmemory.go), and what a crash and a restart   *)
(* make of them.                                                           *)
(*                                                                         *)
(* Serialize holds the mutex only to read backend.resources; json.Marshal  *)
(* then ranges over the live maps while requests write to them. For each   *)
(* map it allocates len(map) entries and ranges over the map: more entries *)
(* than that are an index out of range, fewer leave an invalid value, and  *)
(* both panic; the runtime may also notice the race. Each kills the        *)
(* process, since nothing recovers there.                                  *)
(***************************************************************************)
EXTENDS InMemoryBackend

CONSTANTS
  Platforms,   \* the operating systems the program is built for
  Disks,       \* what may be at backingPath at first: the program could load it
  NoTenant,    \* the tenant "", under which Load puts the old format
  NoFile,      \* there is no storage file
  Damaged,     \* a storage file that is not JSON
  Nowhere      \* the saver is not ranging over a map

\* The two formats of a storage file: version 0 has no tenants.
OldFile == [version : {0}, types : [Types \X IDs -> Stored]]
NewFile ==
  [version : {1}, resources : [Slots -> Stored], made : SUBSET (Tenants \X Types)]

ASSUME StorageAssumption ==
  /\ Platforms \subseteq {"linux", "windows"}
  /\ NoTenant \in Tenants
  /\ Nowhere \notin Tenants \X Types
  /\ {NoFile, Damaged} \cap (OldFile \cup NewFile) = {} /\ NoFile # Damaged
  /\ Disks \subseteq {NoFile} \cup OldFile \cup NewFile

VARIABLES
  platform,
  disk,      \* what is at backingPath
  saver,     \* the goroutine in Save
  seen       \* history: the values each resource has had, or been about to
             \* get, since Serialize read backend.resources

storageVars == <<vars, platform, disk, saver, seen>>

\* kept is Live for what the saver reads in the backend's own maps, and the
\* entry of the old map if Clear has replaced the map meanwhile.
NotSaving ==
  [at |-> "idle", todo |-> {}, map |-> Nowhere, len |-> 0, must |-> {}, made |-> {},
   kept |-> [s \in Slots |-> Live], out |-> [s \in Slots |-> Absent]]

NothingSeen == [s \in Slots |-> {}]

-----------------------------------------------------------------------------
(* Reading the file at start.                                              *)

\* What is read back of a string that was saved while it was written.
Garbage ==
  [json |-> "garbage", attrs |-> {}, typed |-> FALSE, id |-> NotString,
   unitCode |-> FALSE, data |-> CHOOSE d \in Data : TRUE]

Contents(f) ==
  CASE f = NoFile -> [resources |-> [s \in Slots |-> Absent], made |-> {}]
    [] f # NoFile /\ f.version = 0 ->
         [resources |-> [s \in Slots |->
            IF s[1] = NoTenant THEN f.types[<<s[2], s[3]>>] ELSE Absent],
          made |-> {k \in {NoTenant} \X Types : \E id \in IDs : f.types[<<k[2], id>>] # Absent}]
    [] OTHER -> [resources |-> f.resources, made |-> f.made]

StorageInit ==
  /\ Init
  /\ platform \in Platforms
  /\ disk \in Disks
  /\ resources = Contents(disk).resources
  /\ made = Contents(disk).made
  /\ saver = NotSaving
  /\ seen = NothingSeen

-----------------------------------------------------------------------------
(* The process ends and starts.                                            *)

\* Slip: the parsed forms are not built.
BootUnparsed(file) ==
  /\ resources' = file.resources
  /\ parsed' = [s \in Slots |-> Absent]
  /\ made' = file.made

\* Load in a new process.
Boot(file) ==
  /\ resources' = file.resources
  /\ parsed' = [s \in Slots |-> ParsedOf(s[2], file.resources[s])]
  /\ made' = file.made

\* No goroutine has begun anything, and none is left of an earlier process.
Fresh ==
  /\ lock' = Free
  /\ pc' = [p \in Callers |-> "idle"]
  /\ call' = [p \in Callers |-> Nil]
  /\ result' = [p \in Callers |-> Nil]
  /\ it' = [p \in Callers |-> NoIteration]
  /\ saver' = NotSaving
  /\ seen' = NothingSeen

\* What was in memory is gone.
Die ==
  /\ fatal' = TRUE
  /\ Boot(Contents(NoFile))
  /\ Fresh
  /\ UNCHANGED <<platform, disk>>

-----------------------------------------------------------------------------
(* Requests go on during a save.                                           *)

\* What callers at an assignment are about to put under a resource.
Incoming(s) ==
  {call[q].body : q \in {w \in Callers : pc[w] = "write" /\ Slot(call[w]) = s}}
  \cup (IF \E w \in Callers : pc[w] = "remove" /\ Slot(call[w]) = s THEN {Absent} ELSE {})

\* Entry id of the map the saver is ranging over.
Entry(id) == <<saver.map[1], saver.map[2], id>>

\* The saver keeps the maps that a Clear replaces, and need no longer produce
\* an entry that is deleted.
Follow ==
  LET kept == [s \in Slots |->
        IF saver.kept[s] = Live /\ \E p \in Callers :
             pc[p] = "locked" /\ pc'[p] = "clearParsed" /\ call[p].tenant = s[1]
        THEN resources[s] ELSE saver.kept[s]]
  IN  [saver EXCEPT
         !.kept = kept,
         !.must = {id \in @ : kept[Entry(id)] # Live \/ resources'[Entry(id)] # Absent}]

Witness ==
  [s \in Slots |-> seen[s] \cup {resources'[s]} \cup Incoming(s)']

Request ==
  /\ Next
  /\ saver' = IF saver.at = "marshal" THEN Follow ELSE saver
  /\ seen' = IF saver.at = "marshal" THEN Witness ELSE seen
  /\ UNCHANGED <<platform, disk>>

-----------------------------------------------------------------------------
(* Serialize.                                                              *)

Saving(at) == ~fatal /\ saver.at = at

Save ==
  /\ Saving("idle")
  /\ saver' = [saver EXCEPT !.at = "waiting"]
  /\ UNCHANGED <<vars, platform, disk, seen>>

\* Slip: backend.resources is read without the lock.
SerializeUnlocked ==
  /\ Saving("waiting")
  /\ saver' = [saver EXCEPT !.at = "marshal", !.todo = made, !.made = made]
  /\ seen' = [s \in Slots |-> {resources[s]}]
  /\ UNCHANGED <<vars, platform, disk>>

\* resources := backend.resources, under the lock. json.Marshal then collects
\* the tenants and their types, which is taken for one step here.
Serialize ==
  /\ Saving("waiting")
  /\ lock = Free
  /\ saver' = [saver EXCEPT !.at = "marshal", !.todo = made, !.made = made]
  /\ seen' = [s \in Slots |-> {resources[s]}]
  /\ UNCHANGED <<vars, platform, disk>>

Ranged(id) == IF saver.kept[Entry(id)] = Live THEN resources[Entry(id)]
                                              ELSE saver.kept[Entry(id)]

\* make([]reflectWithString, v.Len()) and the start of v.MapRange().
RangeStart ==
  /\ Saving("marshal") /\ saver.map = Nowhere
  /\ \E k \in saver.todo :
       LET ids == {id \in IDs :
                     LET s == <<k[1], k[2], id>>
                     IN  (IF saver.kept[s] = Live THEN resources[s] ELSE saver.kept[s]) # Absent}
       IN  saver' = [saver EXCEPT !.map = k, !.len = Cardinality(ids), !.must = ids]
  /\ UNCHANGED <<vars, platform, disk, seen>>

\* Callers in the middle of a write to the map the saver is ranging over.
SaverRacing ==
  {q \in Callers : /\ pc[q] \in {"write", "remove"}
                   /\ <<Slot(call[q])[1], Slot(call[q])[2]>> = saver.map
                   /\ saver.kept[Slot(call[q])] = Live}

\* What else it may read of an entry that is being written: what is written, or
\* a mixture with what was there before, which is saved as garbage.
MidWrite(id) ==
  LET writers == {q \in SaverRacing : Slot(call[q]) = Entry(id)}
      bodies  == {call[q].body : q \in {w \in writers : pc[w] = "write"}}
  IN  bodies \cup (IF writers # {} /\ bodies # {Ranged(id)} THEN {Garbage} ELSE {})

\* One turn of the loop.
RangeNext ==
  /\ Saving("marshal") /\ saver.map # Nowhere
  /\ \E id \in IDs :
       /\ saver.out[Entry(id)] = Absent
       /\ \E v \in ({Ranged(id)} \ {Absent}) \cup MidWrite(id) :
            saver' = [saver EXCEPT !.out[Entry(id)] = v]
  /\ UNCHANGED <<vars, platform, disk, seen>>

Produced == {id \in IDs : saver.out[Entry(id)] # Absent}

\* Slip: the iteration goes on after its end.
RangeEndOpen ==
  /\ Saving("marshal") /\ saver.map # Nowhere
  /\ saver.must \subseteq Produced
  /\ Cardinality(Produced) = saver.len
  /\ saver' = [saver EXCEPT !.todo = @ \ {saver.map}, !.must = {}, !.len = 0]
  /\ UNCHANGED <<vars, platform, disk, seen>>

\* The loop is over when all entries that were there all along are produced.
RangeEnd ==
  /\ Saving("marshal") /\ saver.map # Nowhere
  /\ saver.must \subseteq Produced
  /\ Cardinality(Produced) = saver.len
  /\ saver' = [saver EXCEPT !.map = Nowhere, !.todo = @ \ {saver.map}, !.must = {}, !.len = 0]
  /\ UNCHANGED <<vars, platform, disk, seen>>

\* Another number of entries than the map had at first: sv[i] is out of range, or
\* an entry of sv has never been set.
RangePanics ==
  /\ Saving("marshal") /\ saver.map # Nowhere
  /\ saver.must \subseteq Produced
  /\ Cardinality(Produced) # saver.len
  /\ Die

\* fatal error: concurrent map iteration and map write
MarshalRace ==
  /\ Saving("marshal") /\ saver.map # Nowhere
  /\ SaverRacing # {}
  /\ Die

-----------------------------------------------------------------------------
(* Writing the file.                                                       *)

NewContents == [version |-> 1, resources |-> saver.out, made |-> saver.made]

Marshalled == Saving("marshal") /\ saver.map = Nowhere /\ saver.todo = {}

\* The file holds what was marshalled, and Save returns.
Saved ==
  /\ disk' = NewContents
  /\ saver' = NotSaving
  /\ seen' = NothingSeen
  /\ UNCHANGED <<vars, platform>>

\* renameio.WriteFile: the new file takes the place of the old one.
Replace == Marshalled /\ platform = "linux" /\ Saved

\* Slip: the file is written in place on every platform.
TruncateAnywhere ==
  /\ Marshalled
  /\ disk' = Damaged
  /\ saver' = [saver EXCEPT !.at = "write"]
  /\ UNCHANGED <<vars, platform, seen>>

\* os.WriteFile: the file is truncated, and then written.
Truncate ==
  /\ Marshalled
  /\ platform = "windows"
  /\ disk' = Damaged
  /\ saver' = [saver EXCEPT !.at = "write"]
  /\ UNCHANGED <<vars, platform, seen>>

Write == Saving("write") /\ Saved

\* An error, after which the program goes on with the file as it is.
SaveFails ==
  /\ Marshalled \/ Saving("write")
  /\ saver' = NotSaving
  /\ seen' = NothingSeen
  /\ UNCHANGED <<vars, platform, disk>>

-----------------------------------------------------------------------------
(* The process dies, and the service manager starts it again ("Restart=    *)
(* on-failure" in configs/windermere.service).                             *)

Crash ==
  /\ ~fatal
  /\ Die

\* Slip: New fails on a resource that the parser rejects.
LoadableStrict(f) ==
  /\ f # Damaged
  /\ \A s \in Slots : LET r == Contents(f).resources[s]
                      IN  r # Absent => validatingObjectParser(s[2], r).kind = "ok"

Loadable(f) ==
  /\ f # Damaged
  /\ \A s \in Slots : LET r == Contents(f).resources[s]
                      IN  r # Absent => validatingObjectParser(s[2], r).kind # "panic"

\* New loads the file, or fails, and then the program ends at once (log.Fatalf).
Restart ==
  /\ fatal /\ Loadable(disk)
  /\ fatal' = FALSE
  /\ Boot(Contents(disk))
  /\ Fresh
  /\ UNCHANGED <<platform, disk>>

-----------------------------------------------------------------------------
SaverStep ==
  RangeStart \/ RangeNext \/ RangeEnd \/ RangePanics \/ Replace \/ Truncate \/ Write

StorageNext ==
  \/ Request \/ Save \/ Serialize \/ SaverStep \/ MarshalRace \/ SaveFails
  \/ Crash \/ Restart

\* The saver runs, and takes its turn at the mutex like everybody else; the
\* service manager tries again for ever.
StorageFairness ==
  /\ Fairness
  /\ WF_storageVars(SaverStep)
  /\ SF_storageVars(Serialize)
  /\ WF_storageVars(Restart)

StorageSpec == StorageInit /\ [][StorageNext]_storageVars /\ StorageFairness

-----------------------------------------------------------------------------
(* Properties.                                                             *)

\* Type correctness of the file and of the saver; between its maps the saver
\* holds no lock, and nothing it collects is outside of the outline it made.
StorageTypeOK ==
  /\ TypeOK
  /\ disk \in {NoFile, Damaged} \cup OldFile \cup NewFile
  /\ saver.at \in {"idle", "waiting", "marshal", "write"}
  /\ saver.map \in saver.todo \cup {Nowhere}
  /\ saver.todo \subseteq saver.made
  /\ \A s \in Slots : saver.out[s] # Absent => <<s[1], s[2]>> \in saver.made

\* "Save makes sure the datamodel is persisted to disk" (windermere.go): a file
\* that Save has written holds for every resource a value that it has had since
\* that save began. Serialize ranges over the live maps, so that a resource may
\* be garbled, but only if it changed during the save; and whatever else happens
\* to the process, what an earlier save has written stays.
SavesAreReal ==
  [][disk' # disk /\ disk' # Damaged =>
       \A s \in Slots :
         \/ Contents(disk').resources[s] \in seen[s]
         \/ Contents(disk').resources[s] = Garbage /\ Cardinality(seen[s]) > 1]_storageVars

\* On Linux there is no moment at which a crash leaves a file that the program
\* cannot start from, as long as the configuration stays the same.
AlwaysLoadable == platform = "linux" => Loadable(disk)

\* On Linux a program that has crashed, in the middle of a save or of a request,
\* is back after a while, whatever has been saved by then.
ComesBack == (fatal /\ platform = "linux") ~> ~fatal

\* A save ends, however many requests compete with it for the mutex.
SaveEnds == (saver.at # "idle") ~> (saver.at = "idle" \/ fatal)
=============================================================================

------------------------- MODULE CandidateStoreDisk -------------------------
(***************************************************************************)
(* The files of the candidate store (store/candidate_store.py) and a       *)
(* process that may be killed between, or in the middle of, any two of its *)
(* file writes.  An operation changes the caches, which only its own       *)
(* process sees, and then performs its file writes one by one: `todo` is   *)
(* what it has left.  A file is written by truncating and filling it; a    *)
(* tree is copied or removed part by part.                                 *)
(***************************************************************************)
EXTENDS CandidateStore, FiniteSets

CONSTANTS
  Ids,          \* candidate ids
  ScoreLists,   \* val score lists
  Cursors,      \* dataset cursors
  MaxCrashes,   \* bounds of the model: kills of the process,
  MaxRecords    \* iteration records appended

ASSUME DiskAssumption ==
  /\ Ids \subseteq Nat \ {NoCandidate} /\ IsFiniteSet(Ids)
  /\ ScoreLists \subseteq Seq(Nat) /\ Cursors \subseteq Cursor
  /\ MaxCrashes \in Nat /\ MaxRecords \in Nat

VARIABLES
  mem,      \* _meta_cache and _summary_cache
  dirs,     \* candidate directories
  todo,     \* file writes left of the operation in progress
  boot,     \* "down", the two steps of the startup recovery, or "up"
  stats,    \* root_candidate_id of _statistics_cache
  statsFile,\* statistics.json: a root id, or no readable one
  records,  \* lines of iteration_records.jsonl: a record, or malformed
  appended, \* history: records whose append returned
  seed,     \* the root this launch has created, in optimize
  nursery,  \* candidates of this launch neither admitted nor retired yet
  before,   \* history: mem before the operation in progress
  doomed,   \* history: candidates whose delete began
  launch,   \* history, until the recovery is over: what was alive and the root
            \* at the kill, and the candidates loaded
  crashes   \* kills so far

caches == <<mem, stats>>
logs == <<records, appended>>
past == <<doomed, launch, crashes>>
born == <<seed, nursery>>
vars == <<caches, dirs, todo, boot, statsFile, logs, born, before, past>>

\* The content of a JSON file: nothing readable (no such file, or truncated),
\* or a value.
Unreadable == <<>>
Readable(value) == <<value>>
NoRoot == NoCandidate
Malformed == 0

\* What meta.json holds of a candidate; its scores are in summary.json.
MetaOf(rec) == [rec EXCEPT !.scores = <<>>]

\* A directory: the copied artifact, the data directories with the inherited
\* changelog, and the two JSON files.
Parts == {"artifact", "data", "meta", "summary"}
EmptyDir == [parts |-> {}, meta |-> Unreadable, summary |-> Unreadable]

\* Mutant: an unreadable meta.json makes a new candidate, as an unreadable
\* statistics.json makes new statistics.
LoadedOrNew(ds) ==
  [c \in DOMAIN ds |->
     [(IF ds[c].meta = Unreadable THEN CreateRoot(EmptyStore, c)[c] ELSE ds[c].meta[1]) EXCEPT
        !.scores = IF ds[c].summary = Unreadable THEN <<>> ELSE ds[c].summary[1]]]

\* _read_meta_from_disk and _read_summary_from_disk of every directory.  A
\* candidate with no readable summary has the empty one.
Loaded(ds) ==
  [c \in {d \in DOMAIN ds : ds[d].meta # Unreadable} |->
     [ds[c].meta[1] EXCEPT
        !.scores = IF ds[c].summary = Unreadable THEN <<>> ELSE ds[c].summary[1]]]

\* _read_statistics_from_disk
RootOf(file) == IF file = Unreadable THEN NoRoot ELSE file[1]

NoLaunch == [alive |-> {}, root |-> NoRoot, loaded |-> EmptyStore]

Init ==
  /\ mem = EmptyStore /\ before = EmptyStore
  /\ dirs = EmptyStore
  /\ todo = <<>> /\ boot = "up"
  /\ stats = NoRoot /\ statsFile = Unreadable
  /\ records = <<>> /\ appended = {}
  /\ seed = NoRoot /\ nursery = {} /\ doomed = {} /\ crashes = 0
  /\ launch = NoLaunch

(***************************************************************************)
(* File writes.                                                            *)
(***************************************************************************)
mkdir(c) == [do |-> "mkdir", of |-> c]
copy(c, part) == [do |-> "copy", of |-> c, part |-> part]
rmtree(c) == [do |-> "rmtree", of |-> c]

\* open(path, "w") and the write
_write_meta_to_disk(c, s) ==
  <<[do |-> "truncate", of |-> c, part |-> "meta"],
    [do |-> "fill", of |-> c, part |-> "meta", with |-> Readable(MetaOf(s[c]))]>>

_write_summary_to_disk(c, s) ==
  <<[do |-> "truncate", of |-> c, part |-> "summary"],
    [do |-> "fill", of |-> c, part |-> "summary", with |-> Readable(s[c].scores)]>>

SetPart(c, part, value, present) ==
  LET d == dirs[c]
  IN  dirs' = [dirs EXCEPT ![c] =
                 [parts   |-> IF present THEN d.parts \cup {part} ELSE d.parts \ {part},
                  meta    |-> IF part = "meta" THEN value ELSE d.meta,
                  summary |-> IF part = "summary" THEN value ELSE d.summary]]

\* One file write of the operation in progress.
FileStep ==
  /\ todo # <<>>
  /\ LET step == Head(todo)
         c == step.of
         done == todo' = Tail(todo)
     IN  CASE step.do = "mkdir" ->
                done /\ dirs' = Add(dirs, c, EmptyDir) /\ UNCHANGED <<statsFile, logs>>
           [] step.do = "copy" ->
                done /\ SetPart(c, step.part, Unreadable, TRUE) /\ UNCHANGED <<statsFile, logs>>
           [] step.do = "truncate" ->
                done /\ SetPart(c, step.part, Unreadable, TRUE) /\ UNCHANGED <<statsFile, logs>>
           [] step.do = "fill" ->
                done /\ SetPart(c, step.part, step.with, TRUE) /\ UNCHANGED <<statsFile, logs>>
           [] step.do = "rmtree" ->
                /\ IF dirs[c].parts = {}
                   THEN done /\ dirs' = [d \in DOMAIN dirs \ {c} |-> dirs[d]]
                   ELSE /\ \E part \in dirs[c].parts : SetPart(c, part, Unreadable, FALSE)
                        /\ UNCHANGED todo
                /\ UNCHANGED <<statsFile, logs>>
           [] step.do = "stats" ->
                done /\ statsFile' = step.with /\ UNCHANGED <<dirs, logs>>
           [] step.do = "append" ->
                /\ done
                /\ records' = [records EXCEPT ![Len(records)] = step.with]
                /\ appended' = appended \cup {step.of}
                /\ UNCHANGED <<dirs, statsFile>>
  /\ before' = IF todo' = <<>> THEN EmptyStore ELSE before
  /\ UNCHANGED <<caches, boot, born, past>>

\* An operation runs when the one before it has returned.
Operation(s, writes) ==
  /\ boot # "down" /\ todo = <<>>
  /\ mem' = s /\ before' = mem
  /\ todo' = writes
  /\ UNCHANGED <<stats, dirs, boot, statsFile, logs, launch, crashes>>

(***************************************************************************)
(* Candidates.                                                             *)
(***************************************************************************)
\* _gen_candidate_id: an id never used, here the next number.
Fresh(c) ==
  LET used == DOMAIN dirs \cup DOMAIN mem \cup doomed
  IN  c \notin used /\ \A d \in Ids : d < c => d \in used

\* Mutant: the artifact is copied once the candidate has its files.
create_rootCopiesLast(c) ==
  LET s == CreateRoot(mem, c)
  IN  /\ boot = "up" /\ stats = NoRoot /\ seed = NoRoot /\ Fresh(c)
      /\ Operation(s, <<mkdir(c), copy(c, "data")>>
                        \o _write_meta_to_disk(c, s) \o _write_summary_to_disk(c, s)
                        \o <<copy(c, "artifact")>>)
      /\ seed' = c /\ nursery' = nursery \cup {c}
      /\ UNCHANGED doomed

create_root(c) ==
  LET s == CreateRoot(mem, c)
  IN  /\ boot = "up" /\ stats = NoRoot /\ seed = NoRoot /\ Fresh(c)
      /\ Operation(s, <<mkdir(c), copy(c, "artifact"), copy(c, "data")>>
                        \o _write_meta_to_disk(c, s) \o _write_summary_to_disk(c, s))
      /\ seed' = c /\ nursery' = nursery \cup {c}
      /\ UNCHANGED doomed

\* Whose child is made, and where it stands: a slot's of the candidate it
\* evolves, past the slot's batch; a reflection's of the last, failed, member
\* of its chain, at the same place (_step_reflect, whose chain begins with a
\* child of the slot's candidate).
MakesChild(p, cursor) ==
  \/ mem[p].state = "evolving" /\ cursor \in Cursors
  \/ /\ p \in nursery /\ mem[p].scores = <<>> /\ mem[p].children = {}
     /\ cursor = mem[p].cursor

\* Mutant: the parent's entry first.
create_childLinksFirst(p, c, cursor) ==
  LET s == CreateChild(mem, p, c, cursor)
  IN  /\ boot = "up" /\ stats # NoRoot
      /\ p \in DOMAIN mem /\ MakesChild(p, cursor) /\ Fresh(c)
      /\ Operation(s, _write_meta_to_disk(p, s)
                        \o <<mkdir(c), copy(c, "artifact"), copy(c, "data")>>
                        \o _write_meta_to_disk(c, s) \o _write_summary_to_disk(c, s))
      /\ nursery' = nursery \cup {c}
      /\ UNCHANGED <<seed, doomed>>

\* The artifact and the inherited changelog, the child's own files, and last
\* its entry in the parent's children_ids.
create_child(p, c, cursor) ==
  LET s == CreateChild(mem, p, c, cursor)
  IN  /\ boot = "up" /\ stats # NoRoot
      /\ p \in DOMAIN mem /\ MakesChild(p, cursor) /\ Fresh(c)
      /\ Operation(s, <<mkdir(c), copy(c, "artifact"), copy(c, "data")>>
                        \o _write_meta_to_disk(c, s) \o _write_summary_to_disk(c, s)
                        \o _write_meta_to_disk(p, s))
      /\ nursery' = nursery \cup {c}
      /\ UNCHANGED <<seed, doomed>>

\* Mutant: the parent is not told.
deleteKeepsLink(c) ==
  /\ Operation([d \in DOMAIN mem \ {c} |-> mem[d]], <<rmtree(c)>>)
  /\ doomed' = doomed \cup {c}
  /\ nursery' = nursery \ {c}
  /\ UNCHANGED seed

\* The caches, the parent's children_ids, and last the directory.
delete(c) ==
  LET p == mem[c].parent
      linked == p \in DOMAIN mem /\ c \in mem[p].children
      s == Delete(mem, {c})
  IN  /\ Operation(s, (IF linked THEN _write_meta_to_disk(p, s) ELSE <<>>) \o <<rmtree(c)>>)
      /\ doomed' = doomed \cup {c}
      /\ nursery' = nursery \ {c}
      /\ UNCHANGED seed

set_state(c, st) ==
  LET s == SetState(mem, {c}, st)
  IN  /\ mem[c].state # st
      /\ Operation(s, _write_meta_to_disk(c, s))
      /\ nursery' = nursery \ {c}
      /\ UNCHANGED <<seed, doomed>>

set_progress(c, cursor) ==
  LET s == SetProgress(mem, c, cursor)
  IN  /\ Operation(s, _write_meta_to_disk(c, s))
      /\ UNCHANGED <<born, doomed>>

\* Mutant: the cache only.
update_summary_scoresCached(c, scores) ==
  /\ Operation(UpdateScores(mem, c, scores), <<>>)
  /\ UNCHANGED <<born, doomed>>

update_summary_scores(c, scores) ==
  LET s == UpdateScores(mem, c, scores)
  IN  /\ Operation(s, _write_summary_to_disk(c, s))
      /\ UNCHANGED <<born, doomed>>

retire(c) == IF CleanupUnavailable THEN delete(c) ELSE set_state(c, "unavailable")

(***************************************************************************)
(* What the optimizer does with them: score and admit new candidates, open *)
(* and close slots on pending ones, which move their cursor, retire a new  *)
(* or a pending one.  It never retires the last of the pool.               *)
(***************************************************************************)
Admit(c) ==
  /\ boot = "up" /\ c \in nursery
  /\ IF mem[c].scores = <<>>
     THEN \E scores \in ScoreLists : update_summary_scores(c, scores)
     ELSE set_state(c, "pending")

Slot(c) ==
  /\ boot = "up" /\ stats # NoRoot /\ c \in DOMAIN mem
  /\ \/ mem[c].state = "pending" /\ set_state(c, "evolving")
     \/ mem[c].state = "evolving" /\ set_state(c, "pending")
     \/ mem[c].state = "evolving" /\ \E cursor \in Cursors : set_progress(c, cursor)

Eliminate(c) ==
  /\ boot = "up" /\ stats # NoRoot
  /\ \/ c \in nursery
     \/ /\ c \in PoolByState(mem, {"pending"})
        /\ PoolByState(mem, {"pending", "evolving"}) # {c}
  /\ retire(c)

save_statistics(root) ==
  /\ boot = "up" /\ todo = <<>>
  /\ IF stats # NoRoot THEN root = stats
     ELSE root = seed /\ root \in PoolByState(mem, {"pending"})
  /\ stats' = root
  /\ todo' = <<[do |-> "stats", of |-> root, with |-> Unreadable],
               [do |-> "stats", of |-> root, with |-> Readable(root)]>>
  /\ before' = mem
  /\ UNCHANGED <<mem, dirs, boot, statsFile, logs, born, past>>

\* open(path, "a"): a line cut off by a crash has no line break, so the next
\* record ends up on the same, malformed line.
append_iteration_record(n) ==
  LET torn == records # <<>> /\ records[Len(records)].torn
  IN  /\ boot = "up" /\ todo = <<>> /\ stats # NoRoot
      /\ Len(records) < MaxRecords
      /\ n \notin appended /\ 1..(n - 1) \subseteq appended
      /\ records' = IF torn THEN records ELSE Append(records, [torn |-> TRUE, n |-> n])
      /\ todo' = <<[do |-> "append", of |-> n,
                    with |-> [torn |-> FALSE, n |-> IF torn THEN Malformed ELSE n]]>>
      /\ before' = mem
      /\ UNCHANGED <<caches, dirs, boot, statsFile, appended, born, past>>

\* Mutant: gives up at the first line it cannot parse.
read_iteration_recordsStrict ==
  LET bad == {j \in 1..Len(records) : records[j].torn \/ records[j].n = Malformed}
  IN  {records[i].n : i \in {j \in 1..Len(records) : \A b \in bad : j < b}}

read_iteration_records ==
  {records[i].n : i \in {j \in 1..Len(records) : ~records[j].torn /\ records[j].n # Malformed}}

(***************************************************************************)
(* The process is killed.  On the next launch __init__ loads what it can   *)
(* read and the optimizer recovers: unavailable candidates are deleted if  *)
(* the store cleans up, evolving ones are pending again.                   *)
(***************************************************************************)
Kill ==
  /\ boot # "down" /\ crashes < MaxCrashes
  /\ crashes' = crashes + 1
  /\ boot' = "down"
  /\ before' = Loaded(dirs)
  /\ launch' = [alive |-> PoolByState(mem, {"pending", "evolving"}), root |-> stats,
                loaded |-> EmptyStore]
  /\ mem' = EmptyStore /\ stats' = NoRoot /\ todo' = <<>>
  /\ seed' = NoRoot /\ nursery' = {}
  /\ UNCHANGED <<dirs, statsFile, logs, doomed>>

_load_all_from_disk ==
  /\ boot = "down"
  /\ mem' = Loaded(dirs)
  /\ stats' = RootOf(statsFile)
  /\ launch' = [launch EXCEPT !.loaded = mem']
  /\ boot' = "purge"
  /\ UNCHANGED <<dirs, todo, statsFile, logs, born, before, doomed, crashes>>

delete_unavailable_candidates(c) ==
  /\ boot = "purge" /\ CleanupUnavailable
  /\ c \in PoolByState(mem, {"unavailable"})
  /\ delete(c)

reset_evolving_to_pending(c) ==
  /\ boot = "reset"
  /\ c \in PoolByState(mem, {"evolving"})
  /\ set_state(c, "pending")

NextBootStep ==
  /\ todo = <<>>
  /\ \/ /\ boot = "purge"
        /\ CleanupUnavailable => PoolByState(mem, {"unavailable"}) = {}
        /\ boot' = "reset"
     \/ /\ boot = "reset"
        /\ PoolByState(mem, {"evolving"}) = {}
        /\ boot' = "up"
  /\ launch' = IF boot' = "up" THEN NoLaunch ELSE launch
  /\ UNCHANGED <<caches, dirs, todo, statsFile, logs, born, before, doomed, crashes>>

Next ==
  \/ FileStep
  \/ \E c \in Ids :
       \/ create_root(c)
       \/ \E p \in Ids, cursor \in Cursors : create_child(p, c, cursor)
       \/ Admit(c)
       \/ Slot(c)
       \/ Eliminate(c)
       \/ delete_unavailable_candidates(c)
       \/ reset_evolving_to_pending(c)
       \/ save_statistics(c)
  \/ \E n \in 1..MaxRecords : append_iteration_record(n)
  \/ Kill
  \/ _load_all_from_disk
  \/ NextBootStep

Spec == Init /\ [][Next]_vars

(***************************************************************************)
(* Properties.                                                             *)
(***************************************************************************)

\* Between operations the files say what the caches say, of the candidates and
\* of the statistics: a kill at an await, where no operation is in progress,
\* loses nothing.  That is what Optimizer takes for a crash.
WriteThrough ==
  todo = <<>> /\ boot # "down" => Loaded(dirs) = mem /\ RootOf(statsFile) = stats

\* "otherwise the parent's children_ids keeps a dangling reference to a
\* now-deleted candidate" (delete): at no point, kills included, does a
\* readable meta.json name a child without a directory.
NoDanglingChild ==
  \A p \in DOMAIN dirs :
    dirs[p].meta # Unreadable => dirs[p].meta[1].children \subseteq DOMAIN dirs

\* Whoever loads the directory, the next launch or the visualizer, and whenever
\* it does so, between any two file writes, gets whole candidates, unless their
\* deletion has begun: the artifact and data were there before the meta, the
\* scores before the candidate was selectable.
LoadedIsWhole ==
  LET loaded == Loaded(dirs)
  IN  \A c \in DOMAIN loaded \ doomed :
        /\ {"artifact", "data"} \subseteq dirs[c].parts
        /\ loaded[c].state # "unavailable" => loaded[c].scores # <<>>

\* The startup recovery, one file write after the other, candidates in any
\* order, comes to what CandidateStore!Recover makes of the loaded candidates in
\* one step.
BootIsRecover ==
  [][boot = "reset" /\ boot' = "up" => mem' = Recover(launch.loaded)]_vars

\* A kill costs at most one iteration record that had been appended.
RecordLoss ==
  Cardinality(appended \ read_iteration_records) <= crashes

\* The files implement the contract of the interface.
Contract == INSTANCE StoreContract WITH
  pop  <- IF boot = "down" THEN Loaded(dirs) ELSE mem,
  prev <- IF boot = "down" THEN Loaded(dirs) ELSE IF todo = <<>> THEN mem ELSE before

ContractSpec == Contract!Spec

\* docs/features.md: "an interruption and restart anywhere will resume cleanly".
\* What was alive is pending again, with its artifact, and the run is known to
\* have begun.  Fails: a kill during a write of meta.json or statistics.json
\* leaves a truncated file, which is skipped on load.
ResumesCleanly ==
  [][boot = "reset" /\ boot' = "up" /\ launch.root # NoRoot =>
       /\ stats' = launch.root
       /\ \A c \in launch.alive :
            /\ c \in DOMAIN mem' /\ mem'[c].state = "pending"
            /\ "artifact" \in dirs[c].parts]_vars
=============================================================================

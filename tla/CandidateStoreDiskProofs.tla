---------------------- MODULE CandidateStoreDiskProofs ----------------------
(*****************************************************************************)
(* Proofs about CandidateStoreDisk, for every set of ids and score lists     *)
(* and every number of kills and records.                                    *)
(*                                                                           *)
(* The files never lag behind the caches by more than the writes that        *)
(* `todo` still holds, and in the middle of an operation each file holds     *)
(* the candidate as it was before or as it is after, or nothing readable.    *)
(* IInv says so.  From it follow what a quiet moment guarantees              *)
(* (WriteThrough), what a kill or a reader in the middle of an operation     *)
(* may find (LoadedIsWhole, NoDanglingChild, ContractSpec) and where the     *)
(* recovery ends (BootIsRecover).  RecordInv does the same for the log of    *)
(* iteration records.                                                        *)
(*****************************************************************************)
EXTENDS CandidateStoreDisk, FiniteSetTheorems, TLAPS

(* JSON values and records.                                                 *)

(* A readable file is not an unreadable one, and holds its value.           *)
LEMMA ReadableIsNot == ASSUME NEW v PROVE Readable(v) # Unreadable /\ Readable(v)[1] = v
BY DEF Readable, Unreadable

(* What set_state, an entry in children_ids or new scores do to a record.   *)
LEMMA RecordFields ==
    ASSUME NEW r \in Candidate
    PROVE  /\ MetaOf(r) \in Candidate /\ MetaOf(r).scores = <<>>
           /\ MetaOf(r).state = r.state /\ MetaOf(r).parent = r.parent
           /\ MetaOf(r).children = r.children
           /\ r.state \in CandidateState /\ r.parent \in Nat /\ r.children \subseteq Nat
           /\ r.scores \in Seq(Nat)
           /\ r.scores = <<>> => MetaOf(r) = r
           /\ [MetaOf(r) EXCEPT !.scores = r.scores] = r
<1>1. MetaOf(r) \in Candidate
  <2>1. <<>> \in Seq(Nat)
    OBVIOUS
  <2> QED
    BY <2>1 DEF MetaOf, Candidate
<1>2. r.scores = <<>> => MetaOf(r) = r
  BY DEF MetaOf, Candidate
<1>3. [MetaOf(r) EXCEPT !.scores = r.scores] = r
  BY DEF MetaOf, Candidate
<1> QED
  BY <1>1, <1>2, <1>3 DEF MetaOf, Candidate

(* The three updates of a cached candidate touch one field each.            *)
LEMMA RecordUpdates ==
    ASSUME NEW r \in Candidate
    PROVE  /\ \A v \in Seq(Nat) :
                LET t == [r EXCEPT !.scores = v] IN
                /\ t \in Candidate /\ t.scores = v /\ MetaOf(t) = MetaOf(r)
                /\ t.state = r.state /\ t.parent = r.parent /\ t.children = r.children
           /\ \A st \in CandidateState :
                LET t == [r EXCEPT !.state = st] IN
                /\ t \in Candidate /\ t.scores = r.scores
                /\ t.state = st /\ t.parent = r.parent /\ t.children = r.children
           /\ \A C \in SUBSET Nat :
                LET t == [r EXCEPT !.children = C] IN
                /\ t \in Candidate /\ t.scores = r.scores
                /\ t.state = r.state /\ t.parent = r.parent /\ t.children = C
BY DEF MetaOf, Candidate

(* Lists of file writes.                                                    *)
IsList(s) == \E S : s \in Seq(S)

(* Head and Tail in terms of positions.                                     *)
LEMMA TailOfList ==
    ASSUME NEW s, IsList(s), s # <<>>
    PROVE  /\ Len(s) \in Nat \ {0} /\ Head(s) = s[1]
           /\ IsList(Tail(s)) /\ Len(Tail(s)) = Len(s) - 1
           /\ \A i \in 1 .. Len(Tail(s)) : Tail(s)[i] = s[i + 1]
<1>1. PICK S : s \in Seq(S)
  BY DEF IsList
<1>2. Tail(s) \in Seq(S)
  BY <1>1
<1> QED
  BY <1>1, <1>2 DEF IsList

(* The positions of the lists of writes there are.                          *)
LEMMA Positions ==
    ASSUME NEW w
    PROVE  /\ Len(w) = 1 => w # <<>> /\ 1 .. Len(w) = {1}
           /\ Len(w) = 2 => w # <<>> /\ 1 .. Len(w) = {1, 2}
           /\ Len(w) = 3 => w # <<>> /\ 1 .. Len(w) = {1, 2, 3}
           /\ Len(w) = 7 => w # <<>> /\ 1 .. Len(w) = {1, 2, 3, 4, 5, 6, 7}
           /\ Len(w) = 9 => w # <<>> /\ 1 .. Len(w) = {1, 2, 3, 4, 5, 6, 7, 8, 9}
<1>1. Len(w) # 0 => w # <<>>
  OBVIOUS
<1>2. 1 .. 1 = {1} /\ 1 .. 2 = {1, 2} /\ 1 .. 3 = {1, 2, 3}
  OBVIOUS
<1>3. 1 .. 7 = {1, 2, 3, 4, 5, 6, 7}
  OBVIOUS
<1>4. 1 .. 9 = {1, 2, 3, 4, 5, 6, 7, 8, 9}
  OBVIOUS
<1>5. ASSUME NEW n \in Nat \ {0}, Len(w) = n
      PROVE  w # <<>> /\ 1 .. Len(w) = 1 .. n
  BY <1>1, <1>5
<1> QED
  <2>1. Len(w) = 1 => w # <<>> /\ 1 .. Len(w) = 1 .. 1
    BY <1>5
  <2>2. Len(w) = 2 => w # <<>> /\ 1 .. Len(w) = 1 .. 2
    BY <1>5
  <2>3. Len(w) = 3 => w # <<>> /\ 1 .. Len(w) = 1 .. 3
    BY <1>5
  <2>4. Len(w) = 7 => w # <<>> /\ 1 .. Len(w) = 1 .. 7
    BY <1>5
  <2>5. Len(w) = 9 => w # <<>> /\ 1 .. Len(w) = 1 .. 9
    BY <1>5
  <2> QED
    BY <1>2, <1>3, <1>4, <2>1, <2>2, <2>3, <2>4, <2>5

(* The i-th write of w is `do` of a part of candidate c.                    *)
Is(w, i, do, c, part) == w[i].do = do /\ w[i].of = c /\ w[i].part = part

(* A JSON file is truncated, then filled with what the cache says.          *)
LEMMA MetaWrites ==
    ASSUME NEW c, NEW s
    PROVE  LET w == _write_meta_to_disk(c, s) IN
           /\ IsList(w) /\ Len(w) = 2
           /\ Is(w, 1, "truncate", c, "meta") /\ Is(w, 2, "fill", c, "meta")
           /\ w[2].with = Readable(MetaOf(s[c]))
<1> DEFINE w == _write_meta_to_disk(c, s)
<1>1. w \in Seq({w[1], w[2]})
  BY DEF _write_meta_to_disk
<1>2. /\ Len(w) = 2 /\ w[2].with = Readable(MetaOf(s[c]))
      /\ Is(w, 1, "truncate", c, "meta") /\ Is(w, 2, "fill", c, "meta")
  BY DEF _write_meta_to_disk, Is
<1> QED
  BY <1>1, <1>2 DEF IsList

(* As _write_meta_to_disk, for the scores.                                  *)
LEMMA SummaryWrites ==
    ASSUME NEW c, NEW s
    PROVE  LET w == _write_summary_to_disk(c, s) IN
           /\ IsList(w) /\ Len(w) = 2
           /\ Is(w, 1, "truncate", c, "summary") /\ Is(w, 2, "fill", c, "summary")
           /\ w[2].with = Readable(s[c].scores)
<1> DEFINE w == _write_summary_to_disk(c, s)
<1>1. w \in Seq({w[1], w[2]})
  BY DEF _write_summary_to_disk
<1>2. /\ Len(w) = 2 /\ w[2].with = Readable(s[c].scores)
      /\ Is(w, 1, "truncate", c, "summary") /\ Is(w, 2, "fill", c, "summary")
  BY DEF _write_summary_to_disk, Is
<1> QED
  BY <1>1, <1>2 DEF IsList

(* w is s followed by t.                                                    *)
Joined(w, s, t) ==
    /\ IsList(w) /\ Len(s) \in Nat /\ Len(t) \in Nat /\ Len(w) = Len(s) + Len(t)
    /\ \A i \in 1 .. Len(s) : w[i] = s[i]
    /\ \A i \in 1 .. Len(t) : w[Len(s) + i] = t[i]

(* Two lists one after the other, by positions.                             *)
LEMMA Concatenated ==
    ASSUME NEW s, IsList(s), NEW t, IsList(t)
    PROVE  Joined(s \o t, s, t)
<1>1. PICK S : s \in Seq(S)
  BY DEF IsList
<1>2. PICK T : t \in Seq(T)
  BY DEF IsList
<1>3. s \in Seq(S \cup T) /\ t \in Seq(S \cup T)
  BY <1>1, <1>2
<1> QED
  BY <1>3 DEF IsList, Joined

(* How create_root and create_child begin: the directory and its copies.    *)
NewFiles(c) == <<mkdir(c), copy(c, "artifact"), copy(c, "data")>>

LEMMA NewFilesWrites ==
    ASSUME NEW c
    PROVE  LET w == NewFiles(c) IN
           /\ IsList(w) /\ Len(w) = 3
           /\ w[1].do = "mkdir" /\ w[1].of = c
           /\ Is(w, 2, "copy", c, "artifact") /\ Is(w, 3, "copy", c, "data")
<1> DEFINE w == NewFiles(c)
<1>1. w \in Seq({w[1], w[2], w[3]})
  BY DEF NewFiles
<1>2. /\ Len(w) = 3 /\ w[1].do = "mkdir" /\ w[1].of = c
      /\ Is(w, 2, "copy", c, "artifact") /\ Is(w, 3, "copy", c, "data")
  BY DEF NewFiles, Is, mkdir, copy
<1> QED
  BY <1>1, <1>2 DEF IsList

(* The writes of a new candidate.                                           *)
CreatesFiles(w, c, s) ==
    /\ w[1].do = "mkdir" /\ w[1].of = c
    /\ Is(w, 2, "copy", c, "artifact") /\ Is(w, 3, "copy", c, "data")
    /\ Is(w, 4, "truncate", c, "meta") /\ Is(w, 5, "fill", c, "meta")
    /\ w[5].with = Readable(MetaOf(s[c]))
    /\ Is(w, 6, "truncate", c, "summary") /\ Is(w, 7, "fill", c, "summary")
    /\ w[7].with = Readable(s[c].scores)

(* create_root: the directory, its copies, the meta and the summary.        *)
LEMMA CreateRootWrites ==
    ASSUME NEW c, NEW s
    PROVE  LET w == NewFiles(c) \o _write_meta_to_disk(c, s) \o _write_summary_to_disk(c, s) IN
           IsList(w) /\ Len(w) = 7 /\ CreatesFiles(w, c, s)
<1> DEFINE a == NewFiles(c)
           b == _write_meta_to_disk(c, s)
           d == _write_summary_to_disk(c, s)
           e == a \o b
<1>1. /\ IsList(a) /\ Len(a) = 3 /\ a[1].do = "mkdir" /\ a[1].of = c
      /\ Is(a, 2, "copy", c, "artifact") /\ Is(a, 3, "copy", c, "data")
  BY NewFilesWrites
<1>2. /\ IsList(b) /\ Len(b) = 2 /\ Is(b, 1, "truncate", c, "meta")
      /\ Is(b, 2, "fill", c, "meta") /\ b[2].with = Readable(MetaOf(s[c]))
  BY MetaWrites
<1>3. /\ IsList(d) /\ Len(d) = 2 /\ Is(d, 1, "truncate", c, "summary")
      /\ Is(d, 2, "fill", c, "summary") /\ d[2].with = Readable(s[c].scores)
  BY SummaryWrites
<1> HIDE DEF a, b, d
<1>4. /\ IsList(e) /\ Len(e) = 5
      /\ \A i \in 1 .. 3 : e[i] = a[i]
      /\ \A i \in 1 .. 2 : e[3 + i] = b[i]
  <2>1. Joined(e, a, b)
    BY <1>1, <1>2, Concatenated
  <2> HIDE DEF e
  <2> QED
    BY <1>1, <1>2, <2>1 DEF Joined
<1>5. /\ e[1] = a[1] /\ e[2] = a[2] /\ e[3] = a[3] /\ e[4] = b[1] /\ e[5] = b[2]
  BY <1>4
<1> HIDE DEF e
<1> DEFINE w == e \o d
<1>6. /\ IsList(w) /\ Len(w) = 7
      /\ \A i \in 1 .. 5 : w[i] = e[i]
      /\ \A i \in 1 .. 2 : w[5 + i] = d[i]
  <2>1. Joined(w, e, d)
    BY <1>3, <1>4, Concatenated
  <2> HIDE DEF w
  <2> QED
    BY <1>3, <1>4, <2>1 DEF Joined
<1> HIDE DEF w
<1>7. /\ w[1] = a[1] /\ w[2] = a[2] /\ w[3] = a[3] /\ w[4] = b[1] /\ w[5] = b[2]
      /\ w[6] = d[1] /\ w[7] = d[2]
  BY <1>5, <1>6
<1>8. CreatesFiles(w, c, s)
  BY <1>1, <1>2, <1>3, <1>7 DEF CreatesFiles, Is
<1> QED
  BY <1>6, <1>8 DEF w, e, d, b, a

(* create_child: as create_root, and last the entry at the parent.          *)
LEMMA CreateChildWrites ==
    ASSUME NEW p, NEW c, NEW s
    PROVE  LET w == NewFiles(c) \o _write_meta_to_disk(c, s) \o _write_summary_to_disk(c, s)
                      \o _write_meta_to_disk(p, s) IN
           /\ IsList(w) /\ Len(w) = 9 /\ CreatesFiles(w, c, s)
           /\ Is(w, 8, "truncate", p, "meta") /\ Is(w, 9, "fill", p, "meta")
           /\ w[9].with = Readable(MetaOf(s[p]))
<1> DEFINE e == NewFiles(c) \o _write_meta_to_disk(c, s) \o _write_summary_to_disk(c, s)
           d == _write_meta_to_disk(p, s)
           w == e \o d
<1>1. IsList(e) /\ Len(e) = 7 /\ CreatesFiles(e, c, s)
  BY CreateRootWrites
<1>2. /\ IsList(d) /\ Len(d) = 2 /\ Is(d, 1, "truncate", p, "meta")
      /\ Is(d, 2, "fill", p, "meta") /\ d[2].with = Readable(MetaOf(s[p]))
  BY MetaWrites
<1> HIDE DEF e, d
<1>3. /\ IsList(w) /\ Len(w) = 9
      /\ \A i \in 1 .. 7 : w[i] = e[i]
      /\ \A i \in 1 .. 2 : w[7 + i] = d[i]
  <2>1. Joined(w, e, d)
    BY <1>1, <1>2, Concatenated
  <2> HIDE DEF w
  <2> QED
    BY <1>1, <1>2, <2>1 DEF Joined
<1> HIDE DEF w
<1>4. /\ w[1] = e[1] /\ w[2] = e[2] /\ w[3] = e[3] /\ w[4] = e[4] /\ w[5] = e[5]
      /\ w[6] = e[6] /\ w[7] = e[7] /\ w[8] = d[1] /\ w[9] = d[2]
  BY <1>3
<1>5. CreatesFiles(w, c, s)
  BY <1>1, <1>4 DEF CreatesFiles, Is
<1>6. /\ Is(w, 8, "truncate", p, "meta") /\ Is(w, 9, "fill", p, "meta")
      /\ w[9].with = Readable(MetaOf(s[p]))
  BY <1>2, <1>4 DEF Is
<1> QED
  BY <1>3, <1>5, <1>6 DEF w, e, d

(* The writes of a removal, the parent being told first. The writes of      *)
(* delete(c), whose parent p is still there.                                *)
RemovesFiles(w, p, c, s) ==
    /\ IsList(w) /\ Len(w) = 3
    /\ Is(w, 1, "truncate", p, "meta") /\ Is(w, 2, "fill", p, "meta")
    /\ w[2].with = Readable(MetaOf(s[p]))
    /\ w[3].do = "rmtree" /\ w[3].of = c

(* delete: the entry at the parent, if there is one, then the directory.    *)
LEMMA DeleteWrites ==
    ASSUME NEW p, NEW c, NEW s
    PROVE  LET v == <<rmtree(c)>>
               w == _write_meta_to_disk(p, s) \o v IN
           /\ IsList(<<>> \o v) /\ Len(<<>> \o v) = 1
           /\ (<<>> \o v)[1].do = "rmtree" /\ (<<>> \o v)[1].of = c
           /\ RemovesFiles(w, p, c, s)
<1> DEFINE v == <<rmtree(c)>>
           d == _write_meta_to_disk(p, s)
           w == d \o v
<1>1. v \in Seq({rmtree(c)}) /\ Len(v) = 1 /\ v[1].do = "rmtree" /\ v[1].of = c
  BY DEF rmtree
<1>2. /\ IsList(d) /\ Len(d) = 2 /\ Is(d, 1, "truncate", p, "meta")
      /\ Is(d, 2, "fill", p, "meta") /\ d[2].with = Readable(MetaOf(s[p]))
  BY MetaWrites
<1>3. IsList(v) /\ <<>> \o v = v
  <2> HIDE DEF v
  <2>1. <<>> \o v = v
    BY <1>1
  <2> QED
    BY <1>1, <2>1 DEF IsList
<1> HIDE DEF d, v
<1>4. /\ IsList(w) /\ Len(w) = 3
      /\ \A i \in 1 .. 2 : w[i] = d[i]
      /\ \A i \in 1 .. 1 : w[2 + i] = v[i]
  <2>1. Joined(w, d, v)
    BY <1>2, <1>3, Concatenated
  <2> HIDE DEF w
  <2> QED
    BY <1>1, <1>2, <2>1 DEF Joined
<1> HIDE DEF w
<1>5. w[1] = d[1] /\ w[2] = d[2] /\ w[3] = v[1]
  BY <1>4
<1>6. /\ Is(w, 1, "truncate", p, "meta") /\ Is(w, 2, "fill", p, "meta")
      /\ w[2].with = Readable(MetaOf(s[p])) /\ w[3].do = "rmtree" /\ w[3].of = c
  BY <1>1, <1>2, <1>5 DEF Is
<1>7. RemovesFiles(w, p, c, s)
  BY <1>4, <1>6 DEF RemovesFiles
<1> QED
  BY <1>1, <1>3, <1>7 DEF w, v, d

-----------------------------------------------------------------------------
(* The inductive invariant, part by part.                                   *)

(* A store value: candidates by id.                                         *)
IsStore(s) == DOMAIN s \subseteq Ids /\ s \in [DOMAIN s -> Candidate]

(* What meta.json may hold: a record without scores.                        *)
Metas == {r \in Candidate : r.scores = <<>>}

(* A JSON file: unreadable, or a value of S.                                *)
IsJson(x, S) == x = Unreadable \/ (x[1] \in S /\ x = Readable(x[1]))

(* A directory: without a meta.json there is nothing to read in it.         *)
DirOK(d) ==
    /\ d = [parts |-> d.parts, meta |-> d.meta, summary |-> d.summary]
    /\ d.parts \subseteq Parts
    /\ IsJson(d.meta, Metas) /\ IsJson(d.summary, Seq(Nat))
    /\ "meta" \notin d.parts => d.meta = Unreadable

(* Types, and that a process that is down has no memory.                    *)
TypeInv ==
    /\ IsStore(mem) /\ IsStore(before) /\ IsStore(launch.loaded)
    /\ launch = [alive |-> launch.alive, root |-> launch.root, loaded |-> launch.loaded]
    /\ DOMAIN dirs \subseteq Ids /\ dirs = [c \in DOMAIN dirs |-> dirs[c]]
    /\ \A c \in DOMAIN dirs : DirOK(dirs[c])
    /\ IsList(todo)
    /\ boot \in {"down", "purge", "reset", "up"}
    /\ boot = "down" => todo = <<>> /\ mem = EmptyStore
    /\ \A c \in nursery : c \in DOMAIN mem /\ mem[c].state = "unavailable"

(* A candidate that can be loaded, and the scores it would get.             *)
Known(c) == dirs[c].meta # Unreadable
Scores(d) == IF d.summary = Unreadable THEN <<>> ELSE d.summary[1]

(* Somewhere, in a cache or in a file, p has c among its children;          *)
(* somewhere c has the parent p.                                            *)
NamesChild(p, c) ==
    \/ p \in DOMAIN mem /\ c \in mem[p].children
    \/ p \in DOMAIN dirs /\ Known(p) /\ c \in dirs[p].meta[1].children
NamesParent(c, p) ==
    \/ c \in DOMAIN mem /\ mem[c].parent = p
    \/ c \in DOMAIN dirs /\ Known(c) /\ dirs[c].meta[1].parent = p

(* Caches and files agree on parents, so a child removed from the entry of  *)
(* its parent is named by no other.                                         *)
Tree == \A p, c, q \in Nat : NamesChild(p, c) /\ NamesParent(c, q) => q = p /\ p # c

(* LoadedIsWhole, of what is loadable at all.                               *)
Whole ==
    \A c \in DOMAIN dirs \ doomed : Known(c) =>
        /\ {"artifact", "data"} \subseteq dirs[c].parts
        /\ dirs[c].meta[1].state # "unavailable" => Scores(dirs[c]) # <<>>

(* Positions in todo; the write at i fills that part of c; some write will. *)
Steps == 1 .. Len(todo)

Writing(i, c, part) == todo[i].do = "fill" /\ todo[i].of = c /\ todo[i].part = part
Pending(c, part) == \E i \in Steps : Writing(i, c, part)

(* What each write still to do says of the caches and the files.            *)
MkdirOK(i) == LET c == todo[i].of IN
    todo[i].do = "mkdir" => /\ i = 1 /\ c \in DOMAIN mem /\ c \notin DOMAIN dirs
                            /\ c \notin DOMAIN before /\ mem[c].scores = <<>>
CopyOK(i) == LET c == todo[i].of IN
    todo[i].do = "copy" => c \in DOMAIN mem /\ todo[i].part \in {"artifact", "data"}
TruncateOK(i) == LET c == todo[i].of IN
    todo[i].do = "truncate" => /\ c \in DOMAIN mem /\ todo[i].part \in {"meta", "summary"}
                               /\ i + 1 \in Steps /\ Writing(i + 1, c, todo[i].part)
FillMetaOK(i) == LET c == todo[i].of IN
    todo[i].do = "fill" => /\ c \in DOMAIN mem /\ todo[i].part \in {"meta", "summary"}
                           /\ todo[i].part = "meta" => todo[i].with = Readable(MetaOf(mem[c]))
FillSummaryOK(i) == LET c == todo[i].of IN
    todo[i].do = "fill" /\ todo[i].part = "summary" =>
        /\ todo[i].with = Readable(mem[c].scores) /\ mem[c].state = "unavailable"
        /\ c \in DOMAIN dirs /\ Known(c) => dirs[c].meta[1].state = "unavailable"
        /\ IF c \in DOMAIN before THEN before[c].scores = <<>> ELSE mem[c].scores = <<>>
RmtreeOK(i) == LET c == todo[i].of IN
    todo[i].do = "rmtree" => /\ i = Len(todo) /\ c \in doomed /\ c \in DOMAIN before
                             /\ c \in DOMAIN dirs /\ c \notin DOMAIN mem
                             /\ \A p \in DOMAIN mem : c \notin mem[p].children
KindOK(i) ==
    todo[i].do \in {"mkdir", "copy", "truncate", "fill", "rmtree", "stats", "append"}
StepsOK == \A i \in Steps : /\ KindOK(i) /\ MkdirOK(i) /\ CopyOK(i) /\ TruncateOK(i)
                            /\ FillMetaOK(i) /\ FillSummaryOK(i) /\ RmtreeOK(i)
CopyFirst == \A i, j \in Steps :
    todo[i].do = "copy" /\ todo[j].do \in {"truncate", "fill"} => i < j

(* What is cached is on disk, or a write that makes it so is still to come. *)
HasDir == \A c \in DOMAIN mem :
    c \in DOMAIN dirs \/ (1 \in Steps /\ todo[1].do = "mkdir" /\ todo[1].of = c)
MetaAgrees == \A c \in DOMAIN mem :
    Pending(c, "meta") \/ (c \in DOMAIN dirs /\ dirs[c].meta = Readable(MetaOf(mem[c])))
ScoresAgree == \A c \in DOMAIN mem :
    Pending(c, "summary") \/ (c \in DOMAIN dirs /\ Scores(dirs[c]) = mem[c].scores)
(* What is on disk but not cached cannot be loaded, or is about to be       *)
(* removed.                                                                 *)
Garbage == \A c \in DOMAIN dirs \ DOMAIN mem :
    dirs[c].meta = Unreadable
      \/ (1 \in Steps /\ todo[Len(todo)].do = "rmtree" /\ todo[Len(todo)].of = c)
(* A cached candidate has its copies, or they are still to come; it is      *)
(* scored when it leaves the nursery; its children exist.                   *)
HasParts == \A c \in DOMAIN mem \ doomed, part \in {"artifact", "data"} :
    \/ c \in DOMAIN dirs /\ part \in dirs[c].parts
    \/ \E i \in Steps : todo[i].do = "copy" /\ todo[i].of = c /\ todo[i].part = part
Scored == \A c \in DOMAIN mem \ doomed :
    mem[c].state # "unavailable" => mem[c].scores # <<>>
Named == \A p \in DOMAIN mem : \A c \in mem[p].children : c \in DOMAIN dirs \cup DOMAIN mem

WriteInv == StepsOK /\ CopyFirst /\ HasDir /\ MetaAgrees /\ ScoresAgree /\ Garbage
            /\ HasParts /\ Scored /\ Named

(* In the middle of an operation: each file says what was before or what is *)
(* now, at most one is unreadable, and an operation changes the meta or the *)
(* scores of a candidate, never both.                                       *)
OldOrNewMeta == \A c \in DOMAIN dirs : Known(c) =>
    \/ c \in DOMAIN mem /\ dirs[c].meta[1] = MetaOf(mem[c])
    \/ c \in DOMAIN before /\ dirs[c].meta[1] = MetaOf(before[c])
OldOrNewScores == \A c \in DOMAIN dirs :
    /\ c \in DOMAIN mem /\ c \in DOMAIN before
         => Scores(dirs[c]) = mem[c].scores \/ Scores(dirs[c]) = before[c].scores
    /\ c \in DOMAIN mem /\ c \notin DOMAIN before => Scores(dirs[c]) = mem[c].scores
    /\ c \notin DOMAIN mem /\ c \in DOMAIN before
         => Scores(dirs[c]) = <<>> \/ Scores(dirs[c]) = before[c].scores
Lossy == \A c \in DOMAIN mem \cap DOMAIN before :
    c \in DOMAIN dirs /\ (Known(c) \/ Writing(1, c, "meta"))
OneFile == \A c \in DOMAIN mem \cap DOMAIN before :
    MetaOf(mem[c]) = MetaOf(before[c]) \/ mem[c].scores = before[c].scores
InterruptInv == OldOrNewMeta /\ OldOrNewScores /\ Lossy /\ OneFile

(* The recovery so far: from the loaded store s, unavailable candidates     *)
(* have been deleted and t is left; then evolving ones become pending.      *)
Purged(s, t) ==
    /\ DOMAIN t \subseteq DOMAIN s
    /\ \A c \in DOMAIN s \ DOMAIN t : s[c].state = "unavailable" /\ CleanupUnavailable
    /\ t = Delete(s, DOMAIN s \ DOMAIN t)
Kept(s) == IF CleanupUnavailable THEN Delete(s, PoolByState(s, {"unavailable"})) ELSE s
Resetting(s, t) ==
    /\ DOMAIN t = DOMAIN s
    /\ \A c \in DOMAIN s :
         t[c] = s[c] \/ (s[c].state = "evolving" /\ t[c] = [s[c] EXCEPT !.state = "pending"])
BootInv ==
    /\ boot = "purge" => Purged(launch.loaded, mem)
    /\ boot = "reset" => Resetting(Kept(launch.loaded), mem)


(* The inductive invariant.                                                 *)
IInv ==
    /\ TypeInv /\ Tree /\ Whole /\ NoDanglingChild /\ BootInv
    /\ boot # "down" => WriteInv
    /\ todo # <<>> => InterruptInv

-----------------------------------------------------------------------------
(* One file write.                                                          *)

(* What the first write of an operation does to the files.                  *)
Removed(c, part) == SetPart(c, part, Unreadable, FALSE)

(* What FileStep does, by the kind of the first write.                      *)
LEMMA FileStepCases ==
    ASSUME FileStep, IsList(todo), KindOK(1)
    PROVE  /\ todo # <<>>
           /\ UNCHANGED <<mem, stats, boot, seed, nursery, doomed, launch, crashes>>
           /\ before' = IF todo' = <<>> THEN EmptyStore ELSE before
           /\ \/ /\ todo[1].do = "rmtree" /\ dirs[todo[1].of].parts # {}
                 /\ \E part \in dirs[todo[1].of].parts : Removed(todo[1].of, part)
                 /\ todo' = todo /\ UNCHANGED <<statsFile, records, appended>>
              \/ /\ todo' = Tail(todo)
                 /\ \/ /\ todo[1].do = "mkdir" /\ dirs' = Add(dirs, todo[1].of, EmptyDir)
                       /\ UNCHANGED <<statsFile, records, appended>>
                    \/ /\ todo[1].do \in {"copy", "truncate"}
                       /\ SetPart(todo[1].of, todo[1].part, Unreadable, TRUE)
                       /\ UNCHANGED <<statsFile, records, appended>>
                    \/ /\ todo[1].do = "fill"
                       /\ SetPart(todo[1].of, todo[1].part, todo[1].with, TRUE)
                       /\ UNCHANGED <<statsFile, records, appended>>
                    \/ /\ todo[1].do = "rmtree" /\ dirs[todo[1].of].parts = {}
                       /\ dirs' = [d \in DOMAIN dirs \ {todo[1].of} |-> dirs[d]]
                       /\ UNCHANGED <<statsFile, records, appended>>
                    \/ /\ todo[1].do = "stats"
                       /\ statsFile' = todo[1].with /\ UNCHANGED <<dirs, records, appended>>
                    \/ /\ todo[1].do = "append"
                       /\ records' = [records EXCEPT ![Len(records)] = todo[1].with]
                       /\ appended' = appended \cup {todo[1].of}
                       /\ UNCHANGED <<dirs, statsFile>>
<1> DEFINE x == todo[1]
<1>1. todo # <<>> /\ Head(todo) = x
  BY TailOfList DEF FileStep
<1>2. /\ UNCHANGED <<mem, stats, boot, seed, nursery, doomed, launch, crashes>>
      /\ before' = IF todo' = <<>> THEN EmptyStore ELSE before
  BY DEF FileStep, caches, born, past
<1>3. x.do \in {"mkdir", "copy", "truncate", "fill", "rmtree", "stats", "append"}
  BY DEF KindOK
<1> HIDE DEF x
<1>4. CASE x.do = "mkdir"
  BY <1>1, <1>2, <1>4 DEF FileStep, logs, x
<1>5. CASE x.do = "copy"
  BY <1>1, <1>2, <1>5 DEF FileStep, logs, x
<1>6. CASE x.do = "truncate"
  BY <1>1, <1>2, <1>6 DEF FileStep, logs, x
<1>7. CASE x.do = "fill"
  BY <1>1, <1>2, <1>7 DEF FileStep, logs, x
<1>8. CASE x.do = "rmtree"
  BY <1>1, <1>2, <1>8 DEF FileStep, logs, x, Removed
<1>9. CASE x.do = "stats"
  BY <1>1, <1>2, <1>9 DEF FileStep, logs, x
<1>10. CASE x.do = "append"
  BY <1>1, <1>2, <1>10 DEF FileStep, logs, x
<1> QED
  BY <1>3, <1>4, <1>5, <1>6, <1>7, <1>8, <1>9, <1>10

(* The operation goes on with the rest of its writes.                       *)
GoesOn ==
    /\ todo # <<>> /\ todo' = Tail(todo) /\ mem' = mem /\ doomed' = doomed /\ boot' = boot
    /\ nursery' = nursery /\ launch' = launch
    /\ before' = IF todo' = <<>> THEN EmptyStore ELSE before

(* The rest of the list is the list, one position on.                       *)
LEMMA Rest ==
    ASSUME IsList(todo), GoesOn
    PROVE  /\ Len(todo) \in Nat \ {0} /\ Len(todo)' = Len(todo) - 1 /\ IsList(todo')
           /\ 1 \in Steps /\ Len(todo) \in Steps
           /\ \A i \in Steps' : i + 1 \in Steps /\ todo'[i] = todo[i + 1]
           /\ \A i \in Steps : i # 1 => i - 1 \in Steps' /\ todo'[i - 1] = todo[i]
           /\ todo' # <<>> <=> Steps' # {}
           /\ todo' # <<>> => before' = before /\ Len(todo)' \in Steps' /\ 1 \in Steps'
                              /\ todo'[Len(todo')] = todo[Len(todo)]
<1>1. /\ Len(todo) \in Nat \ {0} /\ IsList(Tail(todo)) /\ Len(Tail(todo)) = Len(todo) - 1
      /\ \A i \in 1 .. Len(Tail(todo)) : Tail(todo)[i] = todo[i + 1]
  BY TailOfList DEF GoesOn
<1> DEFINE t == todo'
<1>2. t = Tail(todo) /\ before' = IF t = <<>> THEN EmptyStore ELSE before
  BY DEF GoesOn
<1> HIDE DEF t
<1>3. IsList(t) /\ Len(t) = Len(todo) - 1 /\ \A i \in 1 .. Len(t) : t[i] = todo[i + 1]
  BY <1>1, <1>2
<1>4. t # <<>> <=> Len(t) # 0
  BY <1>3 DEF IsList
<1>5. Steps' = 1 .. Len(t)
  BY DEF Steps, t
<1>6. /\ 1 \in Steps /\ Len(todo) \in Steps
      /\ \A i \in Steps' : i + 1 \in Steps /\ t[i] = todo[i + 1]
  <2>1. 1 \in Steps /\ Len(todo) \in Steps /\ Steps = 1 .. Len(todo)
    BY <1>1 DEF Steps
  <2>2. \A i \in 1 .. Len(t) : i + 1 \in 1 .. Len(todo)
    BY <1>1, <1>3
  <2> QED
    BY <1>3, <1>5, <2>1, <2>2
<1>7. \A i \in Steps : i # 1 => i - 1 \in Steps' /\ t[i - 1] = todo[i]
  <2> SUFFICES ASSUME NEW i \in Steps, i # 1 PROVE i - 1 \in Steps' /\ t[i - 1] = todo[i]
    OBVIOUS
  <2>1. i - 1 \in 1 .. Len(t) /\ (i - 1) + 1 = i
    BY <1>1, <1>3 DEF Steps
  <2> QED
    BY <2>1, <1>3, <1>5
<1>8. t # <<>> <=> Steps' # {}
  <2>1. Len(t) \in Nat
    BY <1>1, <1>3
  <2>2. Len(t) # 0 <=> 1 .. Len(t) # {}
    BY <2>1
  <2> QED
    BY <1>4, <1>5, <2>2
<1>9. t # <<>> => /\ before' = before /\ Len(t) \in Steps' /\ 1 \in Steps'
                  /\ t[Len(t)] = todo[Len(todo)]
  <2> SUFFICES ASSUME t # <<>> PROVE /\ Len(t) \in Steps' /\ 1 \in Steps'
                                     /\ t[Len(t)] = todo[Len(todo)]
    BY <1>2
  <2>1. Len(t) \in 1 .. Len(t) /\ 1 \in 1 .. Len(t) /\ Len(t) + 1 = Len(todo)
    BY <1>1, <1>3, <1>4
  <2> QED
    BY <2>1, <1>3, <1>5
<1> QED
  BY <1>1, <1>3, <1>6, <1>7, <1>8, <1>9 DEF t

(* What is still to be written, once the first write is done.               *)
LEMMA WritingMoves ==
    ASSUME IsList(todo), GoesOn
    PROVE  /\ \A i \in Steps' : \A c, part : Writing(i, c, part)' <=> Writing(i + 1, c, part)
           /\ \A c, part : Pending(c, part) <=> Pending(c, part)' \/ Writing(1, c, part)
<1>1. \A i \in Steps' : \A c, part : Writing(i, c, part)' <=> Writing(i + 1, c, part)
  BY Rest DEF Writing
<1>2. ASSUME NEW c, NEW part, Pending(c, part)
      PROVE  Pending(c, part)' \/ Writing(1, c, part)
  <2>1. PICK i \in Steps : Writing(i, c, part)
    BY <1>2 DEF Pending
  <2>2. CASE i # 1
    <3>1. i - 1 \in Steps' /\ todo'[i - 1] = todo[i]
      BY <2>2, Rest
    <3> QED
      BY <2>1, <3>1 DEF Pending, Writing
  <2> QED
    BY <2>1, <2>2
<1>3. ASSUME NEW c, NEW part, Pending(c, part)' PROVE Pending(c, part)
  <2>1. PICK i \in Steps' : Writing(i, c, part)'
    BY <1>3 DEF Pending
  <2> QED
    BY <2>1, <1>1, Rest DEF Pending
<1>4. \A c, part : Writing(1, c, part) => Pending(c, part)
  BY Rest DEF Pending
<1> QED
  BY <1>1, <1>2, <1>3, <1>4

(* What WriteInv and InterruptInv say of the list alone.                    *)
LEMMA ListKeeps ==
    ASSUME IsList(todo), GoesOn, WriteInv, InterruptInv
    PROVE  /\ \A i \in Steps' : KindOK(i)' /\ CopyOK(i)' /\ TruncateOK(i)' /\ FillMetaOK(i)'
           /\ \A i \in Steps' : todo'[i].do # "mkdir"
           /\ CopyFirst' /\ Scored' /\ (todo' # <<>> => OneFile')
<1>1. \A i \in Steps' : /\ KindOK(i + 1) /\ MkdirOK(i + 1) /\ CopyOK(i + 1) /\ TruncateOK(i + 1)
                        /\ FillMetaOK(i + 1) /\ i + 1 \in Steps /\ todo'[i] = todo[i + 1]
  BY Rest DEF WriteInv, StepsOK
<1>2. mem' = mem /\ doomed' = doomed
  BY DEF GoesOn
<1>3. \A i \in Steps' : KindOK(i)' /\ CopyOK(i)' /\ FillMetaOK(i)'
  BY <1>1, <1>2 DEF KindOK, CopyOK, FillMetaOK
<1>4. \A i \in Steps' : todo'[i].do # "mkdir"
  <2> SUFFICES ASSUME NEW i \in Steps', todo'[i].do = "mkdir" PROVE FALSE
    OBVIOUS
  <2>1. i \in Nat \ {0} /\ i + 1 = 1
    BY <1>1 DEF MkdirOK, Steps
  <2> QED
    BY <2>1
<1>5. ASSUME NEW i \in Steps' PROVE TruncateOK(i)'
  <2> SUFFICES ASSUME todo'[i].do = "truncate"
               PROVE  /\ i + 1 \in Steps' /\ todo'[i + 1].do = "fill"
                      /\ todo'[i + 1].of = todo'[i].of /\ todo'[i + 1].part = todo'[i].part
    BY <1>1, <1>2 DEF TruncateOK, Writing
  <2>1. /\ todo[i + 1].do = "truncate" /\ (i + 1) + 1 \in Steps
        /\ Writing((i + 1) + 1, todo[i + 1].of, todo[i + 1].part)
    BY <1>1 DEF TruncateOK
  <2>2. i \in Nat \ {0}
    BY DEF Steps
  <2>3. ((i + 1) + 1) - 1 = i + 1 /\ (i + 1) + 1 # 1
    BY <2>2
  <2>4. i + 1 \in Steps' /\ todo'[i + 1] = todo[(i + 1) + 1]
    BY <2>1, <2>3, Rest
  <2> QED
    BY <1>1, <2>1, <2>4 DEF Writing
<1>6. CopyFirst'
  <2> SUFFICES ASSUME NEW i \in Steps', NEW j \in Steps', todo'[i].do = "copy",
                      todo'[j].do \in {"truncate", "fill"}
               PROVE  i < j
    BY DEF CopyFirst
  <2>1. i + 1 < j + 1
    BY <1>1 DEF WriteInv, CopyFirst
  <2> QED
    BY <2>1 DEF Steps
<1>7. Scored' /\ (todo' # <<>> => OneFile')
  BY <1>2, Rest DEF WriteInv, InterruptInv, Scored, OneFile
<1> QED
  BY <1>3, <1>4, <1>5, <1>6, <1>7

(* The candidate a write is about, and what the list says of it.            *)
Written == todo[1].of

(* WriteInv says of the first write what its kind requires.                 *)
LEMMA FirstStep ==
    ASSUME TypeInv, WriteInv, todo # <<>>
    PROVE  /\ IsList(todo) /\ 1 \in Steps
           /\ KindOK(1) /\ MkdirOK(1) /\ CopyOK(1) /\ TruncateOK(1) /\ FillMetaOK(1)
           /\ FillSummaryOK(1) /\ RmtreeOK(1)
           /\ todo[1].do # "mkdir" => DOMAIN mem \subseteq DOMAIN dirs
           /\ todo[1].do \in {"truncate", "fill"} => \A i \in Steps : todo[i].do # "copy"
<1>1. IsList(todo) /\ Len(todo) \in Nat \ {0}
  BY TailOfList DEF TypeInv
<1>2. 1 \in Steps
  BY <1>1 DEF Steps
<1>3. todo[1].do # "mkdir" => DOMAIN mem \subseteq DOMAIN dirs
  BY DEF WriteInv, HasDir
<1>4. todo[1].do \in {"truncate", "fill"} => \A i \in Steps : todo[i].do # "copy"
  <2> SUFFICES ASSUME todo[1].do \in {"truncate", "fill"}, NEW i \in Steps, todo[i].do = "copy"
               PROVE  FALSE
    OBVIOUS
  <2>1. i < 1
    BY <1>2 DEF WriteInv, CopyFirst
  <2> QED
    BY <2>1 DEF Steps
<1> QED
  BY <1>1, <1>2, <1>3, <1>4 DEF WriteInv, StepsOK

(* A part of a directory is copied, truncated or filled.                    *)
PutFacts ==
    LET c == Written  d == dirs[c]  e == dirs'[c] IN
    /\ c \in DOMAIN mem /\ c \in DOMAIN dirs /\ DOMAIN mem \subseteq DOMAIN dirs
    /\ DOMAIN dirs' = DOMAIN dirs /\ dirs' = [b \in DOMAIN dirs' |-> dirs'[b]]
    /\ \A b \in DOMAIN dirs : b # c => dirs'[b] = dirs[b]
    /\ DirOK(d) /\ DirOK(e) /\ d.parts \subseteq e.parts
    /\ todo[1].do \in {"copy", "truncate", "fill"}
    /\ todo[1].do = "copy" =>
         /\ todo[1].part \in {"artifact", "data"}
         /\ todo[1].part \in e.parts /\ e.meta = d.meta /\ e.summary = d.summary
    /\ todo[1].do \in {"truncate", "fill"} =>
         /\ todo[1].part \in {"meta", "summary"}
         /\ todo[1].part = "meta" => e.summary = d.summary
         /\ todo[1].part = "summary" => e.meta = d.meta
         /\ \A i \in Steps : todo[i].do # "copy"
    /\ todo[1].do = "truncate" =>
         /\ todo[1].part = "meta" => e.meta = Unreadable
         /\ todo[1].part = "summary" => e.summary = Unreadable
    /\ todo[1].do = "fill" =>
         /\ todo[1].part = "meta" => e.meta = Readable(MetaOf(mem[c]))
         /\ todo[1].part = "summary" => e.summary = Readable(mem[c].scores)

(* A write to a part of a directory, from what the invariant says of it.    *)
LEMMA PutHolds ==
    ASSUME TypeInv, WriteInv, todo # <<>>, todo[1].do \in {"copy", "truncate", "fill"},
           SetPart(Written, todo[1].part,
                   IF todo[1].do = "fill" THEN todo[1].with ELSE Unreadable, TRUE)
    PROVE  PutFacts
<1> DEFINE c == Written
           d == dirs[c]
           part == todo[1].part
           value == IF todo[1].do = "fill" THEN todo[1].with ELSE Unreadable
<1>1. /\ c \in DOMAIN mem /\ c \in DOMAIN dirs /\ DOMAIN mem \subseteq DOMAIN dirs
      /\ CopyOK(1) /\ TruncateOK(1) /\ FillMetaOK(1) /\ FillSummaryOK(1)
      /\ todo[1].do \in {"truncate", "fill"} => \A i \in Steps : todo[i].do # "copy"
  BY FirstStep DEF CopyOK, TruncateOK, FillMetaOK, Written
<1>2. DirOK(d) /\ dirs = [b \in DOMAIN dirs |-> dirs[b]] /\ mem[c] \in Candidate
  BY <1>1 DEF TypeInv, IsStore
<1>3. SetPart(c, part, value, TRUE)
  OBVIOUS
<1> HIDE DEF c, part, value
<1>4. /\ DOMAIN dirs' = DOMAIN dirs /\ dirs' = [b \in DOMAIN dirs' |-> dirs'[b]]
      /\ \A b \in DOMAIN dirs : b # c => dirs'[b] = dirs[b]
      /\ dirs'[c] = [parts   |-> d.parts \cup {part},
                     meta    |-> IF part = "meta" THEN value ELSE d.meta,
                     summary |-> IF part = "summary" THEN value ELSE d.summary]
  <2>1. dirs' = [dirs EXCEPT ![c] = [parts   |-> d.parts \cup {part},
                       meta    |-> IF part = "meta" THEN value ELSE d.meta,
                       summary |-> IF part = "summary" THEN value ELSE d.summary]]
    BY <1>3 DEF SetPart
  <2> QED
    BY <1>1, <1>2, <2>1
<1>5. /\ todo[1].do = "copy" => part \in {"artifact", "data"} /\ value = Unreadable
      /\ todo[1].do = "truncate" => part \in {"meta", "summary"} /\ value = Unreadable
      /\ todo[1].do = "fill" => /\ part \in {"meta", "summary"}
                                /\ part = "meta" => value = Readable(MetaOf(mem[c]))
                                /\ part = "summary" => value = Readable(mem[c].scores)
  BY <1>1 DEF CopyOK, TruncateOK, FillMetaOK, FillSummaryOK, Written, c, part, value
<1>6. /\ IsJson(Unreadable, Metas) /\ IsJson(Unreadable, Seq(Nat))
      /\ IsJson(Readable(MetaOf(mem[c])), Metas) /\ IsJson(Readable(mem[c].scores), Seq(Nat))
  BY <1>2, RecordFields, ReadableIsNot DEF IsJson, Metas
<1>7. DirOK(dirs'[c])
  <2> DEFINE e == dirs'[c]
  <2>1. /\ e = [parts |-> e.parts, meta |-> e.meta, summary |-> e.summary]
        /\ e.parts = d.parts \cup {part}
        /\ e.meta = (IF part = "meta" THEN value ELSE d.meta)
        /\ e.summary = (IF part = "summary" THEN value ELSE d.summary)
    BY <1>4
  <2> HIDE DEF e
  <2>2. part \in Parts
    BY <1>5 DEF Parts
  <2>3. IsJson(e.meta, Metas) /\ IsJson(e.summary, Seq(Nat))
    BY <1>2, <1>5, <1>6, <2>1 DEF DirOK
  <2>4. "meta" \notin e.parts => e.meta = Unreadable
    BY <1>2, <2>1 DEF DirOK
  <2> QED
    BY <1>2, <2>1, <2>2, <2>3, <2>4 DEF DirOK, e
<1> QED
  BY <1>1, <1>2, <1>4, <1>5, <1>7 DEF PutFacts, c, part

(* What is left to show of a write: TypeInv and InterruptInv name more      *)
(* variables than a write touches.                                          *)
DirsInv ==
    /\ DOMAIN dirs \subseteq Ids /\ dirs = [c \in DOMAIN dirs |-> dirs[c]]
    /\ \A c \in DOMAIN dirs : DirOK(dirs[c])

(* A write keeps the types if it keeps those of the directories.            *)
LEMMA GoesOnType ==
    ASSUME TypeInv, GoesOn, DirsInv', boot # "down"
    PROVE  TypeInv'
<1>1. IsList(todo')
  BY Rest DEF TypeInv
<1>2. IsStore(EmptyStore)
  BY DEF IsStore, EmptyStore
<1>3. IsStore(mem') /\ IsStore(before') /\ IsStore(launch.loaded')
  BY <1>2 DEF TypeInv, GoesOn
<1> QED
  BY <1>1, <1>3 DEF TypeInv, DirsInv, GoesOn

(* The directory whose removal ends the list is still to be removed.        *)
LEMMA RemovalStays ==
    ASSUME IsList(todo), GoesOn, todo[1].do # "rmtree"
    PROVE  /\ \A i \in Steps' : RmtreeOK(i + 1) /\ DOMAIN dirs \subseteq DOMAIN dirs' => RmtreeOK(i)'
           /\ todo[Len(todo)].do = "rmtree" => 1 \in Steps' /\ todo'[Len(todo')] = todo[Len(todo)]
<1>1. ASSUME todo[Len(todo)].do = "rmtree"
      PROVE  1 \in Steps' /\ todo'[Len(todo')] = todo[Len(todo)]
  <2>1. Len(todo) # 1 /\ Len(todo) \in Steps
    BY <1>1, Rest
  <2>2. todo' # <<>>
    BY <2>1, Rest
  <2> QED
    BY <2>2, Rest
<1>2. ASSUME NEW i \in Steps', RmtreeOK(i + 1), DOMAIN dirs \subseteq DOMAIN dirs'
      PROVE  RmtreeOK(i)'
  <2>1. /\ todo'[i] = todo[i + 1] /\ before' = before /\ i \in Nat
        /\ Len(todo)' = Len(todo) - 1 /\ Len(todo) \in Nat
    BY Rest DEF Steps
  <2>2. mem' = mem /\ doomed' = doomed
    BY DEF GoesOn
  <2> QED
    BY <1>2, <2>1, <2>2 DEF RmtreeOK
<1> QED
  BY <1>1, <1>2

(* A copy, truncation or filling keeps what the invariant says of the       *)
(* files.                                                                   *)
LEMMA PutKeepsFiles ==
    ASSUME TypeInv, Tree, Whole, NoDanglingChild, WriteInv, InterruptInv, GoesOn, PutFacts
    PROVE  DirsInv' /\ Tree' /\ Whole' /\ NoDanglingChild'
<1> DEFINE c == Written
           d == dirs[c]
           e == dirs'[c]
<1>1. /\ mem' = mem /\ doomed' = doomed /\ DOMAIN mem \subseteq DOMAIN dirs
      /\ DOMAIN dirs' = DOMAIN dirs /\ c \in DOMAIN mem /\ c \in DOMAIN dirs
      /\ \A b \in DOMAIN dirs : b # c => dirs'[b] = dirs[b]
      /\ d.parts \subseteq e.parts /\ mem[c] \in Candidate
      /\ todo[1].do \in {"copy", "truncate", "fill"}
  BY DEF GoesOn, PutFacts, TypeInv, IsStore
<1>2. \/ e.meta = d.meta
      \/ e.meta = Unreadable
      \/ e.meta = Readable(MetaOf(mem[c])) /\ todo[1].do = "fill" /\ todo[1].part = "meta"
  BY DEF PutFacts
<1>3. \/ e.summary = d.summary
      \/ /\ todo[1].part = "summary" /\ e.meta = d.meta
         /\ todo[1].do \in {"truncate", "fill"}
  BY DEF PutFacts
<1>4. DirsInv'
  <2>1. dirs' = [b \in DOMAIN dirs' |-> dirs'[b]] /\ \A b \in DOMAIN dirs' : DirOK(dirs'[b])
    BY <1>1 DEF PutFacts, TypeInv
  <2> QED
    BY <1>1, <2>1 DEF DirsInv, TypeInv
<1>5. MetaOf(mem[c]).children = mem[c].children /\ MetaOf(mem[c]).parent = mem[c].parent
      /\ MetaOf(mem[c]).state = mem[c].state
  BY <1>1, RecordFields
<1>6. Readable(MetaOf(mem[c]))[1] = MetaOf(mem[c])
  BY ReadableIsNot
<1> HIDE DEF c, d, e
<1>7. Tree'
  <2>1. ASSUME NEW p \in Nat, NEW q \in Nat, NamesChild(p, q)' PROVE NamesChild(p, q)
    <3>1. CASE p # c
      BY <1>1, <2>1, <3>1 DEF NamesChild, Known
    <3>2. CASE p = c
      BY <1>1, <1>2, <1>5, <1>6, <2>1, <3>2 DEF NamesChild, Known, d, e
    <3> QED
      BY <3>1, <3>2
  <2>2. ASSUME NEW p \in Nat, NEW q \in Nat, NamesParent(q, p)' PROVE NamesParent(q, p)
    <3>1. CASE q # c
      BY <1>1, <2>2, <3>1 DEF NamesParent, Known
    <3>2. CASE q = c
      BY <1>1, <1>2, <1>5, <1>6, <2>2, <3>2 DEF NamesParent, Known, d, e
    <3> QED
      BY <3>1, <3>2
  <2> QED
    BY <2>1, <2>2 DEF Tree
<1>8. NoDanglingChild'
  <2> SUFFICES ASSUME NEW p \in DOMAIN dirs, dirs'[p].meta # Unreadable,
                      NEW q \in dirs'[p].meta[1].children
               PROVE  q \in DOMAIN dirs
    BY <1>1 DEF NoDanglingChild
  <2>1. CASE dirs'[p].meta = dirs[p].meta
    BY <2>1 DEF NoDanglingChild
  <2>2. CASE dirs'[p].meta # dirs[p].meta
    <3>1. p = c /\ dirs'[p].meta = Readable(MetaOf(mem[c]))
      BY <1>1, <1>2, <2>2 DEF d, e
    <3>2. q \in mem[c].children
      BY <1>5, <1>6, <3>1
    <3> QED
      BY <1>1, <3>2 DEF WriteInv, Named
  <2> QED
    BY <2>1, <2>2
<1>9. Whole'
  <2> SUFFICES ASSUME NEW b \in DOMAIN dirs \ doomed, dirs'[b].meta # Unreadable
               PROVE  /\ {"artifact", "data"} \subseteq dirs'[b].parts
                      /\ dirs'[b].meta[1].state # "unavailable" => Scores(dirs'[b]) # <<>>
    BY <1>1 DEF Whole, Known
  <2>1. CASE b # c
    BY <1>1, <2>1 DEF Whole, Known
  <2>2. CASE b = c /\ e.meta = d.meta
    <3>1. /\ {"artifact", "data"} \subseteq d.parts
          /\ d.meta[1].state # "unavailable" => Scores(d) # <<>>
      BY <2>2 DEF Whole, Known, d, e
    <3>2. CASE e.summary = d.summary
      <4>1. Scores(e) = Scores(d)
        BY <3>2 DEF Scores
      <4> QED
        BY <1>1, <2>2, <3>1, <4>1 DEF d, e
    <3>3. CASE e.summary # d.summary
      <4>1. todo[1].part = "summary" /\ todo[1].do \in {"truncate", "fill"}
        BY <1>3, <3>3
      <4>2. PICK i \in Steps : Writing(i, c, "summary")
        <5>1. CASE todo[1].do = "fill"
          BY <4>1, <5>1, Rest DEF Writing, TypeInv, c, Written
        <5>2. CASE todo[1].do = "truncate"
          <6>1. TruncateOK(1)
            BY FirstStep DEF GoesOn
          <6> QED
            BY <4>1, <5>2, <6>1 DEF TruncateOK, c, Written
        <5> QED
          BY <4>1, <5>1, <5>2
      <4>3. FillSummaryOK(i)
        BY <4>2 DEF WriteInv, StepsOK
      <4>4. d.meta[1].state = "unavailable"
        BY <1>1, <2>2, <4>2, <4>3 DEF FillSummaryOK, Writing, Known, d, e
      <4> QED
        BY <1>1, <2>2, <3>1, <4>4 DEF d, e
    <3> QED
      BY <3>2, <3>3
  <2>3. CASE b = c /\ e.meta # d.meta
    <3>1. e.meta = Readable(MetaOf(mem[c])) /\ todo[1].do = "fill" /\ todo[1].part = "meta"
      BY <1>2, <2>3 DEF e
    <3>2. \A i \in Steps : todo[i].do # "copy"
      BY <3>1 DEF PutFacts
    <3>3. {"artifact", "data"} \subseteq d.parts
      BY <1>1, <2>3, <3>2 DEF WriteInv, HasParts, d
    <3>4. e.summary = d.summary
      BY <1>3, <3>1
    <3>5. ASSUME mem[c].state # "unavailable" PROVE Scores(d) # <<>>
      <4>1. ~Pending(c, "summary")
        BY <3>5 DEF Pending, WriteInv, StepsOK, FillSummaryOK, Writing
      <4>2. Scores(d) = mem[c].scores
        BY <1>1, <4>1 DEF WriteInv, ScoresAgree, d
      <4> QED
        BY <1>1, <2>3, <3>5, <4>2 DEF WriteInv, Scored
    <3>6. Scores(e) = Scores(d)
      BY <3>4 DEF Scores
    <3> QED
      BY <1>1, <1>5, <1>6, <2>3, <3>1, <3>3, <3>5, <3>6 DEF d, e
  <2> QED
    BY <2>1, <2>2, <2>3
<1> QED
  BY <1>4, <1>7, <1>8, <1>9

(* It keeps what the invariant says of files and caches: what it writes is  *)
(* no longer pending, because it is there.                                  *)
LEMMA PutKeepsList ==
    ASSUME TypeInv, WriteInv, InterruptInv, GoesOn, PutFacts
    PROVE  WriteInv'
<1> DEFINE c == Written
           d == dirs[c]
           e == dirs'[c]
<1>1. /\ mem' = mem /\ doomed' = doomed /\ DOMAIN mem \subseteq DOMAIN dirs
      /\ DOMAIN dirs' = DOMAIN dirs /\ c \in DOMAIN mem /\ c \in DOMAIN dirs
      /\ \A b \in DOMAIN dirs : b # c => dirs'[b] = dirs[b]
      /\ d.parts \subseteq e.parts /\ mem[c] \in Candidate /\ IsList(todo)
      /\ todo[1].do \in {"copy", "truncate", "fill"}
  BY DEF GoesOn, PutFacts, TypeInv, IsStore
<1>2. \/ e.meta = d.meta
      \/ e.meta = Unreadable
      \/ e.meta = Readable(MetaOf(mem[c])) /\ todo[1].do = "fill" /\ todo[1].part = "meta"
  BY DEF PutFacts
<1>3. Readable(MetaOf(mem[c]))[1] = MetaOf(mem[c]) /\ MetaOf(mem[c]).state = mem[c].state
      /\ Readable(mem[c].scores) # Unreadable /\ Readable(mem[c].scores)[1] = mem[c].scores
  BY <1>1, RecordFields, ReadableIsNot
<1>4. /\ \A i \in Steps' : /\ KindOK(i)' /\ CopyOK(i)' /\ TruncateOK(i)' /\ FillMetaOK(i)'
                           /\ todo'[i].do # "mkdir"
      /\ CopyFirst' /\ Scored'
  BY <1>1, ListKeeps
<1>5. \A i \in Steps' : i + 1 \in Steps /\ todo'[i] = todo[i + 1] /\ before' = before
  BY <1>1, Rest
<1>6. todo[1].do # "rmtree"
  BY <1>1
<1> HIDE DEF c, d, e
<1>7. \A i \in Steps' : MkdirOK(i)'
  BY <1>4 DEF MkdirOK
<1>8. \A i \in Steps' : RmtreeOK(i)'
  <2>1. \A i \in Steps' : RmtreeOK(i + 1)
    BY <1>5 DEF WriteInv, StepsOK
  <2> QED
    BY <1>1, <1>6, <2>1, RemovalStays
<1>9. ASSUME NEW i \in Steps' PROVE FillSummaryOK(i)'
  <2> DEFINE b == todo'[i].of
  <2>1. FillSummaryOK(i + 1) /\ i + 1 \in Steps /\ todo'[i] = todo[i + 1] /\ before' = before
    BY <1>5 DEF WriteInv, StepsOK
  <2>2. CASE b # c \/ e.meta = d.meta
    BY <1>1, <2>1, <2>2 DEF FillSummaryOK, Known, d, e
  <2>3. CASE b = c /\ e.meta # d.meta
    BY <1>1, <1>2, <1>3, <2>1, <2>3 DEF FillSummaryOK, Known, d, e
  <2> QED
    BY <2>2, <2>3
<1>10. HasDir' /\ Named'
  BY <1>1 DEF HasDir, Named, WriteInv
<1>11. Garbage'
  <2> SUFFICES ASSUME NEW b \in DOMAIN dirs, b \notin DOMAIN mem, dirs[b].meta # Unreadable
               PROVE  1 \in Steps' /\ todo'[Len(todo')].do = "rmtree" /\ todo'[Len(todo')].of = b
    BY <1>1 DEF Garbage
  <2>1. todo[Len(todo)].do = "rmtree" /\ todo[Len(todo)].of = b
    BY DEF WriteInv, Garbage
  <2> QED
    BY <1>1, <1>6, <2>1, RemovalStays
<1>12. \A b, part : Pending(b, part) <=> Pending(b, part)' \/ Writing(1, b, part)
  BY <1>1, WritingMoves
<1>13. ASSUME NEW b, NEW part, todo[1].do = "truncate", todo[1].of = b, todo[1].part = part
       PROVE  Pending(b, part)'
  <2>1. TruncateOK(1)
    BY FirstStep DEF GoesOn
  <2>2. 2 \in Steps /\ Writing(2, b, part)
    BY <1>13, <2>1 DEF TruncateOK
  <2>3. Pending(b, part)
    BY <2>2 DEF Pending
  <2>4. ~Writing(1, b, part)
    BY <1>13 DEF Writing
  <2> QED
    BY <1>12, <2>3, <2>4
<1>14. MetaAgrees'
  <2> SUFFICES ASSUME NEW b \in DOMAIN mem, ~Pending(b, "meta")'
               PROVE  dirs'[b].meta = Readable(MetaOf(mem[b]))
    BY <1>1 DEF MetaAgrees
  <2>1. CASE Writing(1, b, "meta")
    <3>1. b = c /\ todo[1].do = "fill" /\ todo[1].part = "meta"
      BY <2>1 DEF Writing, c, Written
    <3> QED
      BY <3>1 DEF PutFacts, c
  <2>2. CASE ~Writing(1, b, "meta")
    <3>1. dirs[b].meta = Readable(MetaOf(mem[b]))
      BY <1>12, <2>2 DEF WriteInv, MetaAgrees
    <3>2. CASE b # c
      BY <1>1, <3>1, <3>2
    <3>3. CASE b = c
      <4>1. ~(todo[1].do = "fill" /\ todo[1].part = "meta")
        BY <2>2, <3>3 DEF Writing, c, Written
      <4>2. ~(todo[1].do = "truncate" /\ todo[1].part = "meta")
        BY <1>13, <3>3 DEF c, Written
      <4>3. e.meta = d.meta
        BY <4>1, <4>2 DEF PutFacts, c, d, e
      <4> QED
        BY <3>1, <3>3, <4>3 DEF d, e
    <3> QED
      BY <3>2, <3>3
  <2> QED
    BY <2>1, <2>2
<1>15. ScoresAgree'
  <2> SUFFICES ASSUME NEW b \in DOMAIN mem, ~Pending(b, "summary")'
               PROVE  Scores(dirs'[b]) = mem[b].scores
    BY <1>1 DEF ScoresAgree
  <2>1. CASE Writing(1, b, "summary")
    <3>1. b = c /\ todo[1].do = "fill" /\ todo[1].part = "summary"
      BY <2>1 DEF Writing, c, Written
    <3>2. e.summary = Readable(mem[c].scores)
      BY <3>1 DEF PutFacts, c, e
    <3> QED
      BY <1>3, <3>1, <3>2 DEF Scores, e
  <2>2. CASE ~Writing(1, b, "summary")
    <3>1. Scores(dirs[b]) = mem[b].scores
      BY <1>12, <2>2 DEF WriteInv, ScoresAgree
    <3>2. CASE b # c
      BY <1>1, <3>1, <3>2
    <3>3. CASE b = c
      <4>1. ~(todo[1].do = "fill" /\ todo[1].part = "summary")
        BY <2>2, <3>3 DEF Writing, c, Written
      <4>2. ~(todo[1].do = "truncate" /\ todo[1].part = "summary")
        BY <1>13, <3>3 DEF c, Written
      <4>3. e.summary = d.summary
        BY <4>1, <4>2 DEF PutFacts, c, d, e
      <4> QED
        BY <3>1, <3>3, <4>3 DEF Scores, d, e
    <3> QED
      BY <3>2, <3>3
  <2> QED
    BY <2>1, <2>2
<1>16. HasParts'
  <2> SUFFICES ASSUME NEW b \in DOMAIN mem \ doomed, NEW part \in {"artifact", "data"},
                      part \notin dirs'[b].parts
               PROVE  \E i \in Steps' : /\ todo'[i].do = "copy" /\ todo'[i].of = b
                                        /\ todo'[i].part = part
    BY <1>1 DEF HasParts
  <2>1. part \notin dirs[b].parts
    BY <1>1 DEF d, e
  <2>2. PICK i \in Steps : todo[i].do = "copy" /\ todo[i].of = b /\ todo[i].part = part
    BY <2>1 DEF WriteInv, HasParts
  <2>3. i # 1
    BY <2>2 DEF PutFacts, Written
  <2>4. i - 1 \in Steps' /\ todo'[i - 1] = todo[i]
    BY <1>1, <2>3, Rest
  <2> QED
    BY <2>2, <2>4
<1> QED
  BY <1>4, <1>7, <1>8, <1>9, <1>10, <1>11, <1>14, <1>15, <1>16 DEF WriteInv, StepsOK

(* It leaves every file at what was before or what is now.                  *)
LEMMA PutKeepsPast ==
    ASSUME TypeInv, WriteInv, InterruptInv, GoesOn, PutFacts, todo' # <<>>
    PROVE  InterruptInv'
<1> DEFINE c == Written
           d == dirs[c]
           e == dirs'[c]
<1>1. /\ mem' = mem /\ before' = before /\ DOMAIN mem \subseteq DOMAIN dirs
      /\ DOMAIN dirs' = DOMAIN dirs /\ c \in DOMAIN mem /\ c \in DOMAIN dirs
      /\ \A b \in DOMAIN dirs : b # c => dirs'[b] = dirs[b]
      /\ mem[c] \in Candidate /\ IsList(todo) /\ 1 \in Steps /\ 1 \in Steps'
      /\ todo[1].do \in {"copy", "truncate", "fill"}
  BY Rest DEF GoesOn, PutFacts, TypeInv, IsStore
<1>2. \/ e.meta = d.meta
      \/ e.meta = Unreadable /\ todo[1].do = "truncate" /\ todo[1].part = "meta"
      \/ e.meta = Readable(MetaOf(mem[c])) /\ todo[1].do = "fill" /\ todo[1].part = "meta"
  BY DEF PutFacts
<1>3. /\ Readable(MetaOf(mem[c])) # Unreadable
      /\ Readable(MetaOf(mem[c]))[1] = MetaOf(mem[c])
      /\ Readable(mem[c].scores) # Unreadable /\ Readable(mem[c].scores)[1] = mem[c].scores
  BY ReadableIsNot
<1>4. OneFile'
  BY <1>1, ListKeeps
<1>5. \A b, part : Writing(1, b, part)' <=> Writing(2, b, part)
  BY <1>1, WritingMoves
<1> HIDE DEF c, d, e
<1>6. OldOrNewMeta'
  BY <1>1, <1>2, <1>3 DEF InterruptInv, OldOrNewMeta, Known, d, e
<1>7. \/ Scores(e) = Scores(d)
      \/ Scores(e) = mem[c].scores
      \/ Scores(e) = <<>> /\ IF c \in DOMAIN before THEN before[c].scores = <<>>
                             ELSE mem[c].scores = <<>>
  <2>1. CASE todo[1].do = "copy" \/ todo[1].part = "meta"
    BY <1>1, <2>1 DEF PutFacts, Scores, c, d, e
  <2>2. CASE todo[1].do = "fill" /\ todo[1].part = "summary"
    BY <1>3, <2>2 DEF PutFacts, Scores, c, d, e
  <2>3. CASE todo[1].do = "truncate" /\ todo[1].part = "summary"
    <3>1. e.summary = Unreadable
      BY <2>3 DEF PutFacts, c, e
    <3>2. TruncateOK(1)
      BY FirstStep DEF GoesOn
    <3>3. 2 \in Steps /\ Writing(2, c, "summary")
      BY <2>3, <3>2 DEF TruncateOK, c, Written
    <3>4. FillSummaryOK(2)
      BY <3>3 DEF WriteInv, StepsOK
    <3> QED
      BY <3>1, <3>3, <3>4 DEF FillSummaryOK, Writing, Scores
  <2> QED
    BY <1>1, <2>1, <2>2, <2>3 DEF PutFacts
<1>8. OldOrNewScores'
  BY <1>1, <1>7 DEF InterruptInv, OldOrNewScores, d, e
<1>9. Lossy'
  <2> SUFFICES ASSUME NEW b \in DOMAIN mem, b \in DOMAIN before, dirs'[b].meta = Unreadable
               PROVE  b \in DOMAIN dirs /\ Writing(1, b, "meta")'
    BY <1>1 DEF Lossy, Known, Writing
  <2>1. b \in DOMAIN dirs /\ (Known(b) \/ Writing(1, b, "meta"))
    BY DEF InterruptInv, Lossy
  <2>2. CASE b = c /\ todo[1].do = "truncate" /\ todo[1].part = "meta"
    <3>1. TruncateOK(1)
      BY FirstStep DEF GoesOn
    <3>2. Writing(2, c, "meta")
      BY <2>2, <3>1 DEF TruncateOK, c, Written
    <3> QED
      BY <1>5, <2>1, <2>2, <3>2
  <2>3. CASE Writing(1, b, "meta")
    <3>1. b = c /\ todo[1].do = "fill" /\ todo[1].part = "meta"
      BY <2>3 DEF Writing, c, Written
    <3>2. e.meta = Readable(MetaOf(mem[c]))
      BY <3>1 DEF PutFacts, c, e
    <3> QED
      BY <1>3, <3>1, <3>2 DEF e
  <2>4. CASE ~Writing(1, b, "meta") /\ ~(b = c /\ todo[1].do = "truncate" /\ todo[1].part = "meta")
    <3>1. dirs[b].meta # Unreadable
      BY <2>1, <2>4 DEF Known
    <3>2. b # c
      BY <1>2, <1>3, <2>4, <3>1 DEF d, e
    <3> QED
      BY <1>1, <2>1, <3>1, <3>2
  <2> QED
    BY <2>2, <2>3, <2>4
<1> QED
  BY <1>4, <1>6, <1>8, <1>9 DEF InterruptInv

(* The directory of a new candidate.                                        *)
LEMMA MkdirKeeps ==
    ASSUME TypeInv, Tree, Whole, NoDanglingChild, WriteInv, InterruptInv, GoesOn,
           todo[1].do = "mkdir", dirs' = Add(dirs, Written, EmptyDir)
    PROVE  /\ DirsInv' /\ Tree' /\ Whole' /\ NoDanglingChild' /\ WriteInv'
           /\ (todo' # <<>> => InterruptInv')
<1> DEFINE c == Written
<1>1. /\ mem' = mem /\ doomed' = doomed /\ IsList(todo) /\ 1 \in Steps
      /\ c \in DOMAIN mem /\ c \notin DOMAIN dirs /\ c \notin DOMAIN before
      /\ mem[c].scores = <<>> /\ c \in Ids
      /\ \A b \in DOMAIN mem : b # c => b \in DOMAIN dirs
  <2>1. MkdirOK(1)
    BY FirstStep DEF GoesOn
  <2>2. \A b \in DOMAIN mem : b # c => b \in DOMAIN dirs
    BY DEF WriteInv, HasDir, c, Written
  <2> QED
    BY <2>1, <2>2, Rest DEF GoesOn, MkdirOK, TypeInv, IsStore, c, Written
<1>2. dirs' = [b \in DOMAIN dirs \cup {c} |-> IF b = c THEN EmptyDir ELSE dirs[b]]
  BY DEF Add
<1>3. /\ EmptyDir.meta = Unreadable /\ EmptyDir.summary = Unreadable /\ EmptyDir.parts = {}
      /\ DirOK(EmptyDir) /\ Scores(EmptyDir) = <<>>
  BY DEF EmptyDir, DirOK, IsJson, Scores
<1> HIDE DEF c
<1>4. /\ DOMAIN dirs' = DOMAIN dirs \cup {c} /\ dirs' = [b \in DOMAIN dirs' |-> dirs'[b]]
      /\ \A b \in DOMAIN dirs : dirs'[b] = dirs[b]
      /\ dirs'[c] = EmptyDir
  BY <1>1, <1>2
<1>5. DirsInv'
  BY <1>1, <1>3, <1>4 DEF DirsInv, TypeInv
<1>6. Tree'
  <2>1. \A p, q \in Nat : NamesChild(p, q)' => NamesChild(p, q)
    BY <1>1, <1>3, <1>4 DEF NamesChild, Known
  <2>2. \A p, q \in Nat : NamesParent(q, p)' => NamesParent(q, p)
    BY <1>1, <1>3, <1>4 DEF NamesParent, Known
  <2> QED
    BY <2>1, <2>2 DEF Tree
<1>7. Whole' /\ NoDanglingChild'
  BY <1>1, <1>3, <1>4 DEF Whole, NoDanglingChild, Known
<1>8. /\ \A i \in Steps' : /\ KindOK(i)' /\ CopyOK(i)' /\ TruncateOK(i)' /\ FillMetaOK(i)'
                           /\ todo'[i].do # "mkdir"
      /\ CopyFirst' /\ Scored' /\ (todo' # <<>> => OneFile')
  BY <1>1, ListKeeps
<1>9. \A i \in Steps' : i + 1 \in Steps /\ todo'[i] = todo[i + 1] /\ before' = before
  BY <1>1, Rest
<1>10. \A i \in Steps' : MkdirOK(i)'
  BY <1>8 DEF MkdirOK
<1>11. \A i \in Steps' : RmtreeOK(i)'
  <2>1. \A i \in Steps' : RmtreeOK(i + 1)
    BY <1>9 DEF WriteInv, StepsOK
  <2> QED
    BY <1>1, <1>4, <2>1, RemovalStays
<1>12. ASSUME NEW i \in Steps' PROVE FillSummaryOK(i)'
  <2>1. FillSummaryOK(i + 1) /\ i + 1 \in Steps /\ todo'[i] = todo[i + 1] /\ before' = before
    BY <1>9 DEF WriteInv, StepsOK
  <2> QED
    BY <1>1, <1>3, <1>4, <2>1 DEF FillSummaryOK, Known
<1>13. HasDir' /\ Named'
  BY <1>1, <1>4 DEF HasDir, Named, WriteInv
<1>14. Garbage'
  <2> SUFFICES ASSUME NEW b \in DOMAIN dirs, b \notin DOMAIN mem, dirs[b].meta # Unreadable
               PROVE  1 \in Steps' /\ todo'[Len(todo')].do = "rmtree" /\ todo'[Len(todo')].of = b
    BY <1>1, <1>3, <1>4 DEF Garbage
  <2>1. todo[Len(todo)].do = "rmtree" /\ todo[Len(todo)].of = b
    BY DEF WriteInv, Garbage
  <2> QED
    BY <1>1, <2>1, RemovalStays
<1>15. \A b, part : Pending(b, part) <=> Pending(b, part)'
  <2>1. \A b, part : ~Writing(1, b, part)
    BY DEF Writing
  <2> QED
    BY <1>1, <2>1, WritingMoves
<1>16. MetaAgrees' /\ ScoresAgree'
  BY <1>1, <1>4, <1>15 DEF MetaAgrees, ScoresAgree, WriteInv
<1>17. HasParts'
  <2> SUFFICES ASSUME NEW b \in DOMAIN mem \ doomed, NEW part \in {"artifact", "data"},
                      ~(b \in DOMAIN dirs' /\ part \in dirs'[b].parts)
               PROVE  \E i \in Steps' : /\ todo'[i].do = "copy" /\ todo'[i].of = b
                                        /\ todo'[i].part = part
    BY <1>1 DEF HasParts
  <2>1. ~(b \in DOMAIN dirs /\ part \in dirs[b].parts)
    BY <1>4
  <2>2. PICK i \in Steps : todo[i].do = "copy" /\ todo[i].of = b /\ todo[i].part = part
    BY <2>1 DEF WriteInv, HasParts
  <2>3. i - 1 \in Steps' /\ todo'[i - 1] = todo[i]
    BY <1>1, <2>2, Rest
  <2> QED
    BY <2>2, <2>3
<1>18. WriteInv'
  BY <1>8, <1>10, <1>11, <1>12, <1>13, <1>14, <1>16, <1>17 DEF WriteInv, StepsOK
<1>19. ASSUME todo' # <<>> PROVE InterruptInv'
  <2>1. before' = before
    BY <1>19 DEF GoesOn
  <2>2. OldOrNewMeta' /\ OldOrNewScores'
    BY <1>1, <1>3, <1>4, <2>1 DEF InterruptInv, OldOrNewMeta, OldOrNewScores, Known
  <2>3. Lossy'
    <3>1. \A b \in DOMAIN mem \cap DOMAIN before : b \in DOMAIN dirs /\ dirs[b].meta # Unreadable
      BY DEF InterruptInv, Lossy, Writing, Known
    <3> QED
      BY <1>1, <1>4, <2>1, <3>1 DEF Lossy, Known
  <2> QED
    BY <1>8, <1>19, <2>2, <2>3 DEF InterruptInv
<1> QED
  BY <1>5, <1>6, <1>7, <1>18, <1>19

(* A part of a directory is removed, the directory stays.                   *)
LEMMA RemoveKeeps ==
    ASSUME TypeInv, Tree, Whole, NoDanglingChild, WriteInv, InterruptInv, todo # <<>>,
           todo[1].do = "rmtree", \E part \in dirs[Written].parts : Removed(Written, part),
           todo' = todo, before' = before, mem' = mem, doomed' = doomed
    PROVE  /\ DirsInv' /\ Tree' /\ Whole' /\ NoDanglingChild' /\ WriteInv' /\ InterruptInv'
<1> DEFINE c == Written
           d == dirs[c]
           e == dirs'[c]
<1>1. /\ c \in DOMAIN dirs /\ c \notin DOMAIN mem /\ c \in doomed /\ c \in DOMAIN before
      /\ Len(todo) = 1 /\ 1 \in Steps
  BY FirstStep DEF RmtreeOK, c, Written
<1>2. PICK part \in d.parts : Removed(c, part)
  OBVIOUS
<1>3. DirOK(d) /\ dirs = [b \in DOMAIN dirs |-> dirs[b]]
  BY <1>1 DEF TypeInv
<1> HIDE DEF c
<1>4. /\ DOMAIN dirs' = DOMAIN dirs /\ dirs' = [b \in DOMAIN dirs' |-> dirs'[b]]
      /\ \A b \in DOMAIN dirs : b # c => dirs'[b] = dirs[b]
      /\ e = [parts   |-> d.parts \ {part},
              meta    |-> IF part = "meta" THEN Unreadable ELSE d.meta,
              summary |-> IF part = "summary" THEN Unreadable ELSE d.summary]
  <2>1. dirs' = [dirs EXCEPT ![c] = [parts   |-> d.parts \ {part},
                       meta    |-> IF part = "meta" THEN Unreadable ELSE d.meta,
                       summary |-> IF part = "summary" THEN Unreadable ELSE d.summary]]
    BY <1>2 DEF Removed, SetPart
  <2> QED
    BY <1>1, <1>3, <2>1
<1>5. /\ e = [parts |-> e.parts, meta |-> e.meta, summary |-> e.summary]
      /\ e.parts = d.parts \ {part}
      /\ e.meta = d.meta \/ e.meta = Unreadable
      /\ e.summary = d.summary \/ e.summary = Unreadable
      /\ "meta" \notin e.parts => e.meta = Unreadable
  BY <1>3, <1>4 DEF DirOK
<1> HIDE DEF d, e
<1>6. DirOK(e)
  BY <1>3, <1>5 DEF DirOK, IsJson
<1>7. Scores(e) = Scores(d) \/ Scores(e) = <<>>
  BY <1>5 DEF Scores
<1>8. DirsInv'
  BY <1>4, <1>6 DEF DirsInv, TypeInv, e
<1>9. Tree'
  <2>1. \A p, q \in Nat : NamesChild(p, q)' => NamesChild(p, q)
    BY <1>4, <1>5 DEF NamesChild, Known, d, e
  <2>2. \A p, q \in Nat : NamesParent(q, p)' => NamesParent(q, p)
    BY <1>4, <1>5 DEF NamesParent, Known, d, e
  <2> QED
    BY <2>1, <2>2 DEF Tree
<1>10. Whole'
  BY <1>1, <1>4 DEF Whole, Known
<1>11. NoDanglingChild'
  BY <1>4, <1>5 DEF NoDanglingChild, d, e
<1>12. StepsOK'
  <2>1. \A i \in Steps : KindOK(i)' /\ MkdirOK(i)' /\ CopyOK(i)' /\ RmtreeOK(i)' /\ FillMetaOK(i)'
    BY <1>4 DEF WriteInv, StepsOK, KindOK, MkdirOK, CopyOK, RmtreeOK, FillMetaOK
  <2>2. \A i \in Steps : TruncateOK(i)'
    BY DEF WriteInv, StepsOK, TruncateOK, Steps, Writing
  <2>3. \A i \in Steps : FillSummaryOK(i)'
    <3>1. \A i \in Steps : todo[i].do # "fill"
      BY <1>1 DEF Steps
    <3> QED
      BY <3>1 DEF FillSummaryOK
  <2>4. Steps' = Steps
    BY DEF Steps
  <2> QED
    BY <2>1, <2>2, <2>3, <2>4 DEF StepsOK
<1>13. \A b, f : ~Pending(b, f) /\ ~Writing(1, b, f)
  BY <1>1 DEF Pending, Writing, Steps
<1>14. WriteInv'
  <2>1. CopyFirst' /\ Scored' /\ Named' /\ HasDir' /\ Garbage'
    BY <1>4, <1>5 DEF WriteInv, CopyFirst, Scored, Named, HasDir, Garbage, Steps, d, e
  <2>2. MetaAgrees' /\ ScoresAgree' /\ HasParts'
    BY <1>1, <1>4, <1>13 DEF WriteInv, MetaAgrees, ScoresAgree, HasParts, Steps
  <2> QED
    BY <1>12, <2>1, <2>2 DEF WriteInv
<1>15. InterruptInv'
  <2>1. OldOrNewMeta'
    BY <1>4, <1>5 DEF InterruptInv, OldOrNewMeta, Known, d, e
  <2>2. OldOrNewScores'
    BY <1>1, <1>4, <1>7 DEF InterruptInv, OldOrNewScores, d, e
  <2>3. Lossy' /\ OneFile'
    BY <1>1, <1>4, <1>13 DEF InterruptInv, Lossy, OneFile, Known
  <2> QED
    BY <2>1, <2>2, <2>3 DEF InterruptInv
<1> QED
  BY <1>8, <1>9, <1>10, <1>11, <1>14, <1>15

(* The empty directory is removed: the operation is over.                   *)
LEMMA RmdirKeeps ==
    ASSUME TypeInv, Tree, Whole, NoDanglingChild, WriteInv, InterruptInv, GoesOn,
           todo[1].do = "rmtree", dirs[Written].parts = {},
           dirs' = [d \in DOMAIN dirs \ {Written} |-> dirs[d]]
    PROVE  /\ DirsInv' /\ Tree' /\ Whole' /\ NoDanglingChild' /\ WriteInv'
           /\ (todo' # <<>> => InterruptInv')
<1> DEFINE c == Written
<1>1. /\ c \in DOMAIN dirs /\ c \notin DOMAIN mem /\ Len(todo) = 1 /\ IsList(todo)
      /\ \A p \in DOMAIN mem : c \notin mem[p].children
      /\ mem' = mem /\ doomed' = doomed /\ DOMAIN mem \subseteq DOMAIN dirs
  BY FirstStep DEF RmtreeOK, c, Written, GoesOn
<1>2. /\ Steps' = {} /\ todo' = <<>> /\ Len(todo)' = 0
      /\ \A b, f : ~Pending(b, f) /\ \A i \in Steps : todo[i].do = "rmtree"
  <2>1. Len(todo)' = 0
    BY <1>1, Rest
  <2>2. Steps' = {}
    BY <2>1 DEF Steps
  <2> QED
    BY <1>1, <2>1, <2>2, Rest DEF Pending, Writing, Steps
<1> HIDE DEF c
<1>3. /\ DOMAIN dirs' = DOMAIN dirs \ {c} /\ dirs' = [b \in DOMAIN dirs' |-> dirs'[b]]
      /\ \A b \in DOMAIN dirs' : dirs'[b] = dirs[b]
      /\ DOMAIN mem \subseteq DOMAIN dirs'
  <2>1. dirs' = [d \in DOMAIN dirs \ {c} |-> dirs[d]]
    BY DEF c
  <2> QED
    BY <1>1, <2>1
<1>4. DirsInv'
  BY <1>3 DEF DirsInv, TypeInv
<1>5. Tree'
  <2>1. \A p, q \in Nat : NamesChild(p, q)' => NamesChild(p, q)
    BY <1>1, <1>3 DEF NamesChild, Known
  <2>2. \A p, q \in Nat : NamesParent(q, p)' => NamesParent(q, p)
    BY <1>1, <1>3 DEF NamesParent, Known
  <2> QED
    BY <2>1, <2>2 DEF Tree
<1>6. Whole'
  BY <1>1, <1>3 DEF Whole, Known
<1>7. \A b \in DOMAIN mem : /\ dirs[b].meta = Readable(MetaOf(mem[b]))
                            /\ Scores(dirs[b]) = mem[b].scores
  BY <1>1, <1>2 DEF WriteInv, MetaAgrees, ScoresAgree
<1>8. \A b \in DOMAIN dirs' : b \in DOMAIN mem \/ dirs[b].meta = Unreadable
  <2> SUFFICES ASSUME NEW b \in DOMAIN dirs', b \notin DOMAIN mem, dirs[b].meta # Unreadable
               PROVE  FALSE
    OBVIOUS
  <2>1. todo[Len(todo)].of = b
    BY <1>3 DEF WriteInv, Garbage
  <2> QED
    BY <1>1, <1>3, <2>1 DEF c, Written
<1>9. NoDanglingChild'
  <2> SUFFICES ASSUME NEW p \in DOMAIN dirs', dirs[p].meta # Unreadable,
                      NEW q \in dirs[p].meta[1].children
               PROVE  q \in DOMAIN dirs'
    BY <1>3 DEF NoDanglingChild
  <2>1. p \in DOMAIN mem /\ dirs[p].meta = Readable(MetaOf(mem[p]))
    BY <1>7, <1>8
  <2>2. mem[p] \in Candidate
    BY <2>1 DEF TypeInv, IsStore
  <2>3. q \in mem[p].children
    BY <2>1, <2>2, ReadableIsNot, RecordFields
  <2>4. q \in DOMAIN dirs
    BY <1>3 DEF NoDanglingChild
  <2> QED
    BY <1>1, <1>3, <2>1, <2>3, <2>4
<1>10. WriteInv'
  <2>1. StepsOK' /\ CopyFirst'
    BY <1>2 DEF StepsOK, CopyFirst
  <2>2. HasDir' /\ MetaAgrees' /\ ScoresAgree' /\ Garbage' /\ Scored'
    BY <1>1, <1>3, <1>7, <1>8 DEF WriteInv, HasDir, MetaAgrees, ScoresAgree, Garbage, Scored
  <2>3. HasParts'
    BY <1>1, <1>2, <1>3 DEF WriteInv, HasParts
  <2>4. Named'
    BY <1>1, <1>3 DEF WriteInv, Named
  <2> QED
    BY <2>1, <2>2, <2>3, <2>4 DEF WriteInv
<1> QED
  BY <1>2, <1>4, <1>5, <1>6, <1>9, <1>10

(* A write to another file.                                                 *)
LEMMA OtherWriteKeeps ==
    ASSUME TypeInv, Tree, Whole, NoDanglingChild, WriteInv, InterruptInv, GoesOn,
           todo[1].do \in {"stats", "append"}, dirs' = dirs
    PROVE  /\ DirsInv' /\ Tree' /\ Whole' /\ NoDanglingChild' /\ WriteInv'
           /\ (todo' # <<>> => InterruptInv')
<1>1. /\ mem' = mem /\ doomed' = doomed /\ DOMAIN mem \subseteq DOMAIN dirs /\ IsList(todo)
      /\ todo[1].do \notin {"mkdir", "copy", "truncate", "fill", "rmtree"}
  BY FirstStep DEF GoesOn
<1>2. DirsInv' /\ Tree' /\ Whole' /\ NoDanglingChild'
  BY <1>1 DEF DirsInv, TypeInv, Tree, NamesChild, NamesParent, Whole, Known, NoDanglingChild
<1>3. /\ \A i \in Steps' : /\ KindOK(i)' /\ CopyOK(i)' /\ TruncateOK(i)' /\ FillMetaOK(i)'
                           /\ todo'[i].do # "mkdir"
      /\ CopyFirst' /\ Scored' /\ (todo' # <<>> => OneFile')
  BY <1>1, ListKeeps
<1>4. \A i \in Steps' : i + 1 \in Steps /\ todo'[i] = todo[i + 1] /\ before' = before
  BY <1>1, Rest
<1>5. \A i \in Steps' : MkdirOK(i)'
  BY <1>3 DEF MkdirOK
<1>6. \A i \in Steps' : RmtreeOK(i)'
  <2>1. \A i \in Steps' : RmtreeOK(i + 1)
    BY <1>4 DEF WriteInv, StepsOK
  <2> QED
    BY <1>1, <2>1, RemovalStays
<1>7. ASSUME NEW i \in Steps' PROVE FillSummaryOK(i)'
  <2>1. FillSummaryOK(i + 1) /\ i + 1 \in Steps /\ todo'[i] = todo[i + 1] /\ before' = before
    BY <1>4 DEF WriteInv, StepsOK
  <2> QED
    BY <1>1, <2>1 DEF FillSummaryOK, Known
<1>8. HasDir' /\ Named'
  BY <1>1 DEF HasDir, Named, WriteInv
<1>9. Garbage'
  <2> SUFFICES ASSUME NEW b \in DOMAIN dirs, b \notin DOMAIN mem, dirs[b].meta # Unreadable
               PROVE  1 \in Steps' /\ todo'[Len(todo')].do = "rmtree" /\ todo'[Len(todo')].of = b
    BY <1>1 DEF Garbage
  <2>1. todo[Len(todo)].do = "rmtree" /\ todo[Len(todo)].of = b
    BY DEF WriteInv, Garbage
  <2> QED
    BY <1>1, <2>1, RemovalStays
<1>10. \A b, part : Pending(b, part) <=> Pending(b, part)'
  <2>1. \A b, part : ~Writing(1, b, part)
    BY <1>1 DEF Writing
  <2> QED
    BY <1>1, <2>1, WritingMoves
<1>11. MetaAgrees' /\ ScoresAgree'
  BY <1>1, <1>10 DEF MetaAgrees, ScoresAgree, WriteInv
<1>12. HasParts'
  <2> SUFFICES ASSUME NEW b \in DOMAIN mem \ doomed, NEW part \in {"artifact", "data"},
                      ~(b \in DOMAIN dirs /\ part \in dirs[b].parts)
               PROVE  \E i \in Steps' : /\ todo'[i].do = "copy" /\ todo'[i].of = b
                                        /\ todo'[i].part = part
    BY <1>1 DEF HasParts
  <2>1. PICK i \in Steps : todo[i].do = "copy" /\ todo[i].of = b /\ todo[i].part = part
    BY DEF WriteInv, HasParts
  <2>2. i - 1 \in Steps' /\ todo'[i - 1] = todo[i]
    BY <1>1, <2>1, Rest
  <2> QED
    BY <2>1, <2>2
<1>13. WriteInv'
  BY <1>3, <1>5, <1>6, <1>7, <1>8, <1>9, <1>11, <1>12 DEF WriteInv, StepsOK
<1>14. ASSUME todo' # <<>> PROVE InterruptInv'
  <2>1. before' = before
    BY <1>14 DEF GoesOn
  <2>2. OldOrNewMeta' /\ OldOrNewScores'
    BY <1>1, <2>1 DEF InterruptInv, OldOrNewMeta, OldOrNewScores, Known
  <2>3. Lossy'
    <3>1. \A b \in DOMAIN mem \cap DOMAIN before : b \in DOMAIN dirs /\ dirs[b].meta # Unreadable
      BY <1>1 DEF InterruptInv, Lossy, Writing, Known
    <3> QED
      BY <1>1, <2>1, <3>1 DEF Lossy, Known
  <2> QED
    BY <1>3, <1>14, <2>2, <2>3 DEF InterruptInv
<1> QED
  BY <1>2, <1>13, <1>14

(* Every file write keeps the invariant.                                    *)
LEMMA FileStepKeeps ==
    ASSUME IInv, FileStep, boot # "down"
    PROVE  IInv'
<1>1. /\ TypeInv /\ Tree /\ Whole /\ NoDanglingChild /\ BootInv /\ WriteInv
      /\ todo # <<>> /\ InterruptInv
  BY DEF IInv, FileStep
<1>2. IsList(todo) /\ KindOK(1)
  BY <1>1, FirstStep
<1>3. /\ UNCHANGED <<mem, stats, boot, seed, nursery, doomed, launch, crashes>>
      /\ before' = IF todo' = <<>> THEN EmptyStore ELSE before
  BY <1>2, FileStepCases
<1>4. BootInv'
  BY <1>1, <1>3 DEF BootInv
<1>5. CASE /\ todo[1].do = "rmtree" /\ \E part \in dirs[todo[1].of].parts : Removed(todo[1].of, part)
           /\ todo' = todo
  <2>1. before' = before
    BY <1>1, <1>3, <1>5
  <2>2. /\ DirsInv' /\ Tree' /\ Whole' /\ NoDanglingChild' /\ WriteInv' /\ InterruptInv'
    BY <1>1, <1>3, <1>5, <2>1, RemoveKeeps DEF Written
  <2>3. TypeInv'
    BY <1>1, <1>3, <1>5, <2>1, <2>2 DEF TypeInv, DirsInv
  <2> QED
    BY <1>4, <2>2, <2>3 DEF IInv
<1>6. CASE todo' = Tail(todo)
  <2>1. GoesOn
    BY <1>1, <1>3, <1>6 DEF GoesOn
  <2>2. /\ DirsInv' /\ Tree' /\ Whole' /\ NoDanglingChild' /\ WriteInv'
        /\ (todo' # <<>> => InterruptInv')
    <3>1. CASE todo[1].do = "mkdir" /\ dirs' = Add(dirs, todo[1].of, EmptyDir)
      BY <1>1, <2>1, <3>1, MkdirKeeps DEF Written
    <3>2. CASE /\ todo[1].do \in {"copy", "truncate", "fill"}
               /\ SetPart(todo[1].of, todo[1].part,
                          IF todo[1].do = "fill" THEN todo[1].with ELSE Unreadable, TRUE)
      <4>1. PutFacts
        BY <1>1, <3>2, PutHolds DEF Written
      <4> QED
        BY <1>1, <2>1, <4>1, PutKeepsFiles, PutKeepsList, PutKeepsPast
    <3>3. CASE /\ todo[1].do = "rmtree" /\ dirs[todo[1].of].parts = {}
               /\ dirs' = [d \in DOMAIN dirs \ {todo[1].of} |-> dirs[d]]
      BY <1>1, <2>1, <3>3, RmdirKeeps DEF Written
    <3>4. CASE todo[1].do \in {"stats", "append"} /\ dirs' = dirs
      BY <1>1, <2>1, <3>4, OtherWriteKeeps
    <3> QED
      <4>1. \/ todo[1].do = "mkdir" /\ dirs' = Add(dirs, todo[1].of, EmptyDir)
            \/ /\ todo[1].do \in {"copy", "truncate"}
               /\ SetPart(todo[1].of, todo[1].part, Unreadable, TRUE)
            \/ /\ todo[1].do = "fill"
               /\ SetPart(todo[1].of, todo[1].part, todo[1].with, TRUE)
            \/ /\ todo[1].do = "rmtree" /\ dirs[todo[1].of].parts = {}
               /\ dirs' = [d \in DOMAIN dirs \ {todo[1].of} |-> dirs[d]]
            \/ todo[1].do \in {"stats", "append"} /\ dirs' = dirs
            \/ todo[1].do = "rmtree" /\ dirs[todo[1].of].parts # {} /\ todo' = todo
        BY <1>2, FileStepCases
      <4>2. todo' # todo
        <5>1. Len(Tail(todo)) # Len(todo)
          BY <1>1, <1>2, TailOfList
        <5> QED
          BY <1>6, <5>1
      <4>3. CASE /\ todo[1].do \in {"copy", "truncate"}
                 /\ SetPart(todo[1].of, todo[1].part, Unreadable, TRUE)
        BY <3>2, <4>3
      <4>4. CASE /\ todo[1].do = "fill"
                 /\ SetPart(todo[1].of, todo[1].part, todo[1].with, TRUE)
        BY <3>2, <4>4
      <4> QED
        BY <3>1, <3>3, <3>4, <4>1, <4>2, <4>3, <4>4
  <2>3. TypeInv'
    BY <1>1, <2>1, <2>2, GoesOnType
  <2> QED
    BY <1>4, <2>2, <2>3 DEF IInv
<1> QED
  BY <1>2, <1>5, <1>6, FileStepCases

-----------------------------------------------------------------------------
(* Operations.                                                              *)

(* Between two operations.                                                  *)
Quiet == boot # "down" /\ todo = <<>>

(* Then nothing is pending: the files say what the caches say.              *)
LEMMA QuietFiles ==
    ASSUME IInv, Quiet
    PROVE  /\ DOMAIN mem \subseteq DOMAIN dirs
           /\ \A c \in DOMAIN mem :
                /\ mem[c] \in Candidate /\ Known(c)
                /\ dirs[c].meta = Readable(MetaOf(mem[c])) /\ dirs[c].meta[1] = MetaOf(mem[c])
                /\ Scores(dirs[c]) = mem[c].scores
                /\ c \notin doomed => {"artifact", "data"} \subseteq dirs[c].parts
           /\ \A c \in DOMAIN dirs \ DOMAIN mem : ~Known(c)
           /\ Steps = {}
<1>1. Steps = {}
  BY DEF Quiet, Steps
<1>2. TypeInv /\ WriteInv
  BY DEF IInv, Quiet
<1>3. \A c, part : ~Pending(c, part)
  BY <1>1 DEF Pending
<1>4. DOMAIN mem \subseteq DOMAIN dirs
  BY <1>1, <1>2 DEF WriteInv, HasDir
<1>5. ASSUME NEW c \in DOMAIN mem
      PROVE  /\ mem[c] \in Candidate /\ Known(c)
             /\ dirs[c].meta = Readable(MetaOf(mem[c])) /\ dirs[c].meta[1] = MetaOf(mem[c])
             /\ Scores(dirs[c]) = mem[c].scores
             /\ c \notin doomed => {"artifact", "data"} \subseteq dirs[c].parts
  <2>1. mem[c] \in Candidate
    BY <1>2 DEF TypeInv, IsStore
  <2>2. dirs[c].meta = Readable(MetaOf(mem[c]))
    BY <1>2, <1>3 DEF WriteInv, MetaAgrees
  <2>3. Scores(dirs[c]) = mem[c].scores
    BY <1>2, <1>3 DEF WriteInv, ScoresAgree
  <2>4. c \notin doomed => {"artifact", "data"} \subseteq dirs[c].parts
    BY <1>1, <1>2 DEF WriteInv, HasParts
  <2> QED
    BY <2>1, <2>2, <2>3, <2>4, ReadableIsNot DEF Known
<1>6. \A c \in DOMAIN dirs \ DOMAIN mem : ~Known(c)
  BY <1>1, <1>2 DEF WriteInv, Garbage, Known
<1> QED
  BY <1>1, <1>4, <1>5, <1>6

(* What is on disk is untouched by the first step of an operation.          *)
Begins ==
    /\ Quiet /\ dirs' = dirs /\ boot' = boot /\ before' = mem /\ launch' = launch
    /\ doomed \subseteq doomed' /\ IsList(todo') /\ IsStore(mem')
    /\ \A c \in nursery' : c \in DOMAIN mem' /\ mem'[c].state = "unavailable"

(* It keeps what the invariant says of the files: they hold what is before. *)
LEMMA BeginsKeeps ==
    ASSUME IInv, Begins, \A c \in DOMAIN mem' \ DOMAIN mem : c \notin DOMAIN dirs, OneFile'
    PROVE  TypeInv' /\ Whole' /\ NoDanglingChild' /\ InterruptInv'
<1>1. TypeInv /\ Whole /\ NoDanglingChild
  BY DEF IInv
<1>2. TypeInv'
  BY <1>1 DEF TypeInv, Begins, Quiet
<1>3. Whole' /\ NoDanglingChild'
  BY <1>1 DEF Whole, NoDanglingChild, Begins, Known
<1>4. OldOrNewMeta'
  BY QuietFiles DEF OldOrNewMeta, Begins, Known
<1>5. OldOrNewScores'
  BY QuietFiles DEF OldOrNewScores, Begins
<1>6. Lossy'
  BY QuietFiles DEF Lossy, Begins, Known
<1> QED
  BY <1>2, <1>3, <1>4, <1>5, <1>6 DEF InterruptInv

(* Every operation but create_root and create_child.                        *)
Shrinks ==
    /\ DOMAIN mem' \subseteq DOMAIN mem
    /\ \A c \in DOMAIN mem' :
         /\ mem'[c].parent = mem[c].parent /\ mem'[c].children \subseteq mem[c].children
         /\ MetaOf(mem'[c]) = MetaOf(mem[c]) \/ Pending(c, "meta")'
         /\ mem'[c].scores = mem[c].scores \/ Pending(c, "summary")'
         /\ c \notin doomed' /\ mem'[c].state # "unavailable" => mem'[c].scores # <<>>
    /\ \A c \in DOMAIN mem \ DOMAIN mem' :
         1 \in Steps' /\ todo'[Len(todo')].do = "rmtree" /\ todo'[Len(todo')].of = c

(* An operation that adds no candidate keeps the invariant if it writes all *)
(* it changes.                                                              *)
LEMMA ShrinksKeeps ==
    ASSUME IInv, Begins, Shrinks, StepsOK', CopyFirst', OneFile', BootInv'
    PROVE  IInv'
<1>1. /\ TypeInv /\ Tree /\ WriteInv
      /\ dirs' = dirs /\ boot' = boot /\ boot # "down"
  BY DEF IInv, Begins, Quiet
<1>2. TypeInv' /\ Whole' /\ NoDanglingChild' /\ InterruptInv'
  BY BeginsKeeps DEF Shrinks
<1>3. Tree'
  <2>1. \A p, c : NamesChild(p, c)' => NamesChild(p, c)
    BY <1>1 DEF NamesChild, Shrinks, Known
  <2>2. \A p, c : NamesParent(c, p)' => NamesParent(c, p)
    BY <1>1 DEF NamesParent, Shrinks, Known
  <2> QED
    BY <1>1, <2>1, <2>2 DEF Tree
<1>4. HasDir' /\ HasParts' /\ Scored'
  BY <1>1, QuietFiles DEF HasDir, HasParts, Scored, Shrinks, Begins
<1>5. MetaAgrees' /\ ScoresAgree'
  BY <1>1, QuietFiles DEF MetaAgrees, ScoresAgree, Shrinks, Begins
<1>6. Garbage'
  BY <1>1, QuietFiles DEF Garbage, Shrinks, Begins, Known
<1>7. Named'
  <2>1. \A p \in DOMAIN mem : mem[p].children \subseteq DOMAIN dirs
    BY <1>1, QuietFiles DEF WriteInv, Named, Begins
  <2> QED
    BY <1>1, <2>1 DEF Named, Shrinks
<1> QED
  BY <1>1, <1>2, <1>3, <1>4, <1>5, <1>6, <1>7 DEF IInv, WriteInv

(* The lists of writes satisfy what WriteInv says of a list.                *)
LEMMA MetaList ==
    ASSUME NEW c \in DOMAIN mem', todo' = _write_meta_to_disk(c, mem')
    PROVE  IsList(todo') /\ StepsOK' /\ CopyFirst' /\ Pending(c, "meta")' /\ todo' # <<>>
<1> DEFINE t == todo'
<1>1. /\ IsList(t) /\ Len(t) = 2 /\ Is(t, 1, "truncate", c, "meta")
      /\ Is(t, 2, "fill", c, "meta") /\ t[2].with = Readable(MetaOf(mem'[c]))
  BY MetaWrites
<1>2. Steps' = {1, 2} /\ todo' # <<>>
  BY <1>1, Positions DEF Steps
<1>3. /\ todo'[1].do = "truncate" /\ todo'[1].of = c /\ todo'[1].part = "meta"
      /\ todo'[2].do = "fill" /\ todo'[2].of = c /\ todo'[2].part = "meta"
      /\ todo'[2].with = Readable(MetaOf(mem'[c]))
  BY <1>1 DEF Is
<1>4. Pending(c, "meta")'
  BY <1>2, <1>3 DEF Pending, Writing
<1>5. ASSUME NEW i \in Steps'
      PROVE  /\ KindOK(i)' /\ MkdirOK(i)' /\ CopyOK(i)' /\ TruncateOK(i)'
             /\ FillMetaOK(i)' /\ FillSummaryOK(i)' /\ RmtreeOK(i)'
  BY <1>2, <1>3 DEF KindOK, MkdirOK, CopyOK, TruncateOK, FillMetaOK, FillSummaryOK, RmtreeOK,
                    Writing
<1>6. CopyFirst'
  BY <1>2, <1>3 DEF CopyFirst
<1> QED
  BY <1>1, <1>2, <1>4, <1>5, <1>6 DEF StepsOK

(* Those of update_summary_scores.                                          *)
LEMMA SummaryList ==
    ASSUME NEW c \in DOMAIN mem', todo' = _write_summary_to_disk(c, mem'),
           mem'[c].state = "unavailable",
           c \in DOMAIN dirs' /\ Known(c)' => dirs'[c].meta[1].state = "unavailable",
           IF c \in DOMAIN before' THEN before'[c].scores = <<>> ELSE mem'[c].scores = <<>>
    PROVE  IsList(todo') /\ StepsOK' /\ CopyFirst' /\ Pending(c, "summary")' /\ todo' # <<>>
<1> DEFINE t == todo'
<1>1. /\ IsList(t) /\ Len(t) = 2 /\ Is(t, 1, "truncate", c, "summary")
      /\ Is(t, 2, "fill", c, "summary") /\ t[2].with = Readable(mem'[c].scores)
  BY SummaryWrites
<1>2. Steps' = {1, 2} /\ todo' # <<>>
  BY <1>1, Positions DEF Steps
<1>3. /\ todo'[1].do = "truncate" /\ todo'[1].of = c /\ todo'[1].part = "summary"
      /\ todo'[2].do = "fill" /\ todo'[2].of = c /\ todo'[2].part = "summary"
      /\ todo'[2].with = Readable(mem'[c].scores)
  BY <1>1 DEF Is
<1>4. Pending(c, "summary")'
  BY <1>2, <1>3 DEF Pending, Writing
<1>5. ASSUME NEW i \in Steps'
      PROVE  /\ KindOK(i)' /\ MkdirOK(i)' /\ CopyOK(i)' /\ TruncateOK(i)'
             /\ FillMetaOK(i)' /\ FillSummaryOK(i)' /\ RmtreeOK(i)'
  BY <1>2, <1>3 DEF KindOK, MkdirOK, CopyOK, TruncateOK, FillMetaOK, FillSummaryOK, RmtreeOK,
                    Writing
<1>6. CopyFirst'
  BY <1>2, <1>3 DEF CopyFirst
<1> QED
  BY <1>1, <1>2, <1>4, <1>5, <1>6 DEF StepsOK

(* A removal is the last write of its list.                                 *)
Doomed(c) ==
    /\ c \in doomed /\ c \in DOMAIN before /\ c \in DOMAIN dirs /\ c \notin DOMAIN mem
    /\ \A p \in DOMAIN mem : c \notin mem[p].children

(* Those of delete, for a candidate without a parent in the store...        *)
LEMMA RmtreeList ==
    ASSUME NEW c, todo' = <<>> \o <<rmtree(c)>>, Doomed(c)'
    PROVE  /\ IsList(todo') /\ StepsOK' /\ CopyFirst' /\ todo' # <<>> /\ 1 \in Steps'
           /\ todo'[Len(todo')].do = "rmtree" /\ todo'[Len(todo')].of = c
<1> DEFINE t == todo'
<1>1. IsList(t) /\ Len(t) = 1 /\ t[1].do = "rmtree" /\ t[1].of = c
  BY DeleteWrites
<1>2. Steps' = {1} /\ Len(todo') = 1 /\ todo'[1].do = "rmtree" /\ todo'[1].of = c /\ todo' # <<>>
  BY <1>1 DEF Steps
<1>3. ASSUME NEW i \in Steps'
      PROVE  /\ KindOK(i)' /\ MkdirOK(i)' /\ CopyOK(i)' /\ TruncateOK(i)'
             /\ FillMetaOK(i)' /\ FillSummaryOK(i)' /\ RmtreeOK(i)'
  BY <1>2 DEF KindOK, MkdirOK, CopyOK, TruncateOK, FillMetaOK, FillSummaryOK, RmtreeOK, Doomed
<1>4. CopyFirst'
  BY <1>2 DEF CopyFirst
<1> QED
  BY <1>1, <1>2, <1>3, <1>4 DEF StepsOK

(* ... and with one.                                                        *)
LEMMA DeleteList ==
    ASSUME NEW p \in DOMAIN mem', NEW c,
           todo' = _write_meta_to_disk(p, mem') \o <<rmtree(c)>>, Doomed(c)'
    PROVE  /\ IsList(todo') /\ StepsOK' /\ CopyFirst' /\ todo' # <<>> /\ 1 \in Steps'
           /\ todo'[Len(todo')].do = "rmtree" /\ todo'[Len(todo')].of = c
           /\ Pending(p, "meta")'
<1> DEFINE t == todo'
<1>1. /\ IsList(t) /\ Len(t) = 3 /\ Is(t, 1, "truncate", p, "meta")
      /\ Is(t, 2, "fill", p, "meta") /\ t[2].with = Readable(MetaOf(mem'[p]))
      /\ t[3].do = "rmtree" /\ t[3].of = c
  <2>1. RemovesFiles(t, p, c, mem')
    BY DeleteWrites
  <2> QED
    BY <2>1 DEF RemovesFiles
<1>2. Steps' = {1, 2, 3} /\ Len(todo') = 3
  BY <1>1, Positions DEF Steps
<1>3. /\ todo'[1].do = "truncate" /\ todo'[1].of = p /\ todo'[1].part = "meta"
      /\ todo'[2].do = "fill" /\ todo'[2].of = p /\ todo'[2].part = "meta"
      /\ todo'[2].with = Readable(MetaOf(mem'[p])) /\ todo' # <<>>
      /\ todo'[3].do = "rmtree" /\ todo'[3].of = c
  BY <1>1 DEF Is
<1>4. Pending(p, "meta")'
  BY <1>2, <1>3 DEF Pending, Writing
<1>5. ASSUME NEW i \in Steps'
      PROVE  /\ KindOK(i)' /\ MkdirOK(i)' /\ CopyOK(i)' /\ TruncateOK(i)'
             /\ FillMetaOK(i)' /\ FillSummaryOK(i)' /\ RmtreeOK(i)'
  BY <1>2, <1>3 DEF KindOK, MkdirOK, CopyOK, TruncateOK, FillMetaOK, FillSummaryOK, RmtreeOK,
                    Writing, Doomed
<1>6. CopyFirst'
  BY <1>2, <1>3 DEF CopyFirst
<1> QED
  BY <1>1, <1>2, <1>3, <1>4, <1>5, <1>6 DEF StepsOK

(* save_statistics and append_iteration_record write no candidate.          *)
LEMMA OtherList ==
    ASSUME IsList(todo'), \A i \in Steps' : todo'[i].do \in {"stats", "append"}
    PROVE  StepsOK' /\ CopyFirst'
<1>1. ASSUME NEW i \in Steps'
      PROVE  /\ KindOK(i)' /\ MkdirOK(i)' /\ CopyOK(i)' /\ TruncateOK(i)'
             /\ FillMetaOK(i)' /\ FillSummaryOK(i)' /\ RmtreeOK(i)'
  BY DEF KindOK, MkdirOK, CopyOK, TruncateOK, FillMetaOK, FillSummaryOK, RmtreeOK
<1>2. CopyFirst'
  BY DEF CopyFirst
<1> QED
  BY <1>1, <1>2 DEF StepsOK

(* set_state, for every caller.                                             *)
LEMMA SetStateKeeps ==
    ASSUME IInv, boot # "down", NEW c \in DOMAIN mem, NEW st \in CandidateState, set_state(c, st),
           c \notin doomed /\ st # "unavailable" => mem[c].scores # <<>>, BootInv'
    PROVE  IInv'
<1>1. /\ Quiet /\ TypeInv /\ WriteInv /\ IsStore(mem) /\ mem[c] \in Candidate
  BY DEF IInv, set_state, Operation, Quiet, TypeInv, IsStore
<1>2. /\ mem' = [d \in DOMAIN mem |-> IF d = c THEN [mem[c] EXCEPT !.state = st] ELSE mem[d]]
      /\ before' = mem /\ dirs' = dirs /\ boot' = boot /\ launch' = launch /\ doomed' = doomed
      /\ nursery' = nursery \ {c} /\ todo' = _write_meta_to_disk(c, mem')
  BY DEF set_state, Operation, SetState
<1>3. /\ mem'[c] \in Candidate /\ mem'[c].state = st /\ mem'[c].scores = mem[c].scores
      /\ mem'[c].parent = mem[c].parent /\ mem'[c].children = mem[c].children
  BY <1>1, <1>2, RecordUpdates
<1>4. DOMAIN mem' = DOMAIN mem /\ \A d \in DOMAIN mem : d # c => mem'[d] = mem[d]
  BY <1>2
<1>5. IsList(todo') /\ StepsOK' /\ CopyFirst' /\ Pending(c, "meta")' /\ todo' # <<>>
  BY <1>2, <1>4, MetaList
<1>6. IsStore(mem')
  <2>1. \A d \in DOMAIN mem' : mem'[d] \in Candidate
    BY <1>1, <1>3, <1>4 DEF IsStore
  <2> QED
    BY <1>1, <1>2, <1>4, <2>1 DEF IsStore
<1>7. \A d \in nursery' : d \in DOMAIN mem' /\ mem'[d].state = "unavailable"
  BY <1>1, <1>2, <1>4 DEF TypeInv
<1>8. Begins
  BY <1>1, <1>2, <1>5, <1>6, <1>7 DEF Begins
<1>9. Shrinks
  <2>1. \A d \in DOMAIN mem : d \notin doomed /\ mem[d].state # "unavailable" => mem[d].scores # <<>>
    BY <1>1 DEF WriteInv, Scored
  <2> QED
    BY <1>2, <1>3, <1>4, <1>5, <2>1 DEF Shrinks
<1>10. OneFile'
  BY <1>2, <1>3, <1>4 DEF OneFile
<1> QED
  BY <1>5, <1>8, <1>9, <1>10, ShrinksKeeps

(* set_progress of a candidate that is evolved.                             *)
LEMMA SetProgressKeeps ==
    ASSUME IInv, boot # "down", NEW c \in DOMAIN mem, NEW cursor \in Cursors,
           set_progress(c, cursor), mem[c].state = "evolving", BootInv'
    PROVE  IInv'
<1>1. /\ Quiet /\ TypeInv /\ WriteInv /\ IsStore(mem) /\ mem[c] \in Candidate
      /\ cursor \in Cursor
  BY DiskAssumption DEF IInv, set_progress, Operation, Quiet, TypeInv, IsStore
<1>2. /\ mem' = [d \in DOMAIN mem |-> IF d = c THEN [mem[c] EXCEPT !.cursor = cursor] ELSE mem[d]]
      /\ before' = mem /\ dirs' = dirs /\ boot' = boot /\ launch' = launch /\ doomed' = doomed
      /\ nursery' = nursery /\ todo' = _write_meta_to_disk(c, mem')
  <2>1. mem' = [mem EXCEPT ![c].cursor = cursor]
    BY DEF set_progress, Operation, SetProgress
  <2> QED
    BY <1>1, <2>1 DEF set_progress, Operation, IsStore, born
<1>3. /\ mem'[c] \in Candidate /\ mem'[c].state = mem[c].state /\ mem'[c].scores = mem[c].scores
      /\ mem'[c].parent = mem[c].parent /\ mem'[c].children = mem[c].children
  <2>1. mem'[c] = [mem[c] EXCEPT !.cursor = cursor]
    BY <1>2
  <2> QED
    BY <1>1, <2>1 DEF Candidate
<1>4. DOMAIN mem' = DOMAIN mem /\ \A d \in DOMAIN mem : d # c => mem'[d] = mem[d]
  BY <1>2
<1>5. IsList(todo') /\ StepsOK' /\ CopyFirst' /\ Pending(c, "meta")' /\ todo' # <<>>
  BY <1>2, <1>4, MetaList
<1>6. IsStore(mem')
  <2>1. \A d \in DOMAIN mem' : mem'[d] \in Candidate
    BY <1>1, <1>3, <1>4 DEF IsStore
  <2> QED
    BY <1>1, <1>2, <1>4, <2>1 DEF IsStore
<1>7. \A d \in nursery' : d \in DOMAIN mem' /\ mem'[d].state = "unavailable"
  BY <1>1, <1>2, <1>3, <1>4 DEF TypeInv
<1>8. Begins
  BY <1>1, <1>2, <1>5, <1>6, <1>7 DEF Begins
<1>9. Shrinks
  <2>1. \A d \in DOMAIN mem : d \notin doomed /\ mem[d].state # "unavailable" => mem[d].scores # <<>>
    BY <1>1 DEF WriteInv, Scored
  <2> QED
    BY <1>2, <1>3, <1>4, <1>5, <2>1 DEF Shrinks
<1>10. OneFile'
  BY <1>2, <1>3, <1>4 DEF OneFile
<1> QED
  BY <1>5, <1>8, <1>9, <1>10, ShrinksKeeps

(* update_summary_scores, of a candidate that waits for its first scores.   *)
LEMMA ScoresKeep ==
    ASSUME IInv, boot = "up", NEW c \in nursery, NEW scores \in Seq(Nat), mem[c].scores = <<>>,
           update_summary_scores(c, scores)
    PROVE  IInv'
<1>1. /\ Quiet /\ TypeInv /\ WriteInv /\ IsStore(mem) /\ c \in DOMAIN mem /\ mem[c] \in Candidate
      /\ mem[c].state = "unavailable"
  BY DEF IInv, update_summary_scores, Operation, Quiet, TypeInv, IsStore
<1>2. /\ mem' = [mem EXCEPT ![c].scores = scores]
      /\ before' = mem /\ dirs' = dirs /\ boot' = boot /\ launch' = launch /\ doomed' = doomed
      /\ nursery' = nursery /\ todo' = _write_summary_to_disk(c, mem')
  BY <1>1 DEF update_summary_scores, Operation, UpdateScores, born
<1>3. /\ DOMAIN mem' = DOMAIN mem /\ \A d \in DOMAIN mem : d # c => mem'[d] = mem[d]
      /\ mem'[c] = [mem[c] EXCEPT !.scores = scores] /\ mem' = [d \in DOMAIN mem' |-> mem'[d]]
  BY <1>1, <1>2 DEF IsStore
<1>4. /\ mem'[c] \in Candidate /\ mem'[c].state = mem[c].state /\ MetaOf(mem'[c]) = MetaOf(mem[c])
      /\ mem'[c].parent = mem[c].parent /\ mem'[c].children = mem[c].children
  BY <1>1, <1>3, RecordUpdates
<1>5. dirs'[c].meta[1].state = "unavailable"
  BY <1>1, <1>2, QuietFiles, RecordFields
<1>6. IsList(todo') /\ StepsOK' /\ CopyFirst' /\ Pending(c, "summary")' /\ todo' # <<>>
  <2>1. c \in DOMAIN mem' /\ mem'[c].state = "unavailable"
    BY <1>1, <1>3, <1>4
  <2>2. IF c \in DOMAIN before' THEN before'[c].scores = <<>> ELSE mem'[c].scores = <<>>
    BY <1>1, <1>2
  <2> QED
    BY <1>2, <1>5, <2>1, <2>2, SummaryList
<1>7. IsStore(mem')
  <2>1. \A d \in DOMAIN mem' : mem'[d] \in Candidate
    BY <1>1, <1>3, <1>4 DEF IsStore
  <2> QED
    BY <1>1, <1>3, <2>1 DEF IsStore
<1>8. \A d \in nursery' : d \in DOMAIN mem' /\ mem'[d].state = "unavailable"
  BY <1>1, <1>2, <1>3, <1>4 DEF TypeInv
<1>9. Begins
  BY <1>1, <1>2, <1>6, <1>7, <1>8 DEF Begins
<1>10. Shrinks
  <2>1. \A d \in DOMAIN mem : d \notin doomed /\ mem[d].state # "unavailable" => mem[d].scores # <<>>
    BY <1>1 DEF WriteInv, Scored
  <2> QED
    BY <1>1, <1>2, <1>3, <1>4, <1>6, <2>1 DEF Shrinks
<1>11. OneFile'
  BY <1>2, <1>3, <1>4 DEF OneFile
<1>12. BootInv'
  BY <1>2 DEF BootInv
<1> QED
  BY <1>6, <1>9, <1>10, <1>11, <1>12, ShrinksKeeps

(* save_statistics and append_iteration_record.                             *)
LEMMA OtherOperationKeeps ==
    ASSUME IInv, boot = "up", todo = <<>>, mem' = mem, before' = mem, dirs' = dirs, boot' = boot,
           launch' = launch, doomed' = doomed, nursery' = nursery,
           IsList(todo'), \A i \in Steps' : todo'[i].do \in {"stats", "append"}
    PROVE  IInv'
<1>1. Quiet /\ TypeInv /\ WriteInv
  BY DEF IInv, Quiet
<1>2. StepsOK' /\ CopyFirst'
  BY OtherList
<1>3. Begins
  BY <1>1 DEF Begins, TypeInv
<1>4. Shrinks
  BY <1>1 DEF Shrinks, WriteInv, Scored
<1>5. OneFile' /\ BootInv'
  BY DEF OneFile, BootInv
<1> QED
  BY <1>2, <1>3, <1>4, <1>5, ShrinksKeeps

(* save_statistics keeps the invariant.                                     *)
LEMMA StatisticsKeep ==
    ASSUME IInv, NEW root, save_statistics(root)
    PROVE  IInv'
<1> DEFINE a == [do |-> "stats", of |-> root, with |-> Unreadable]
           b == [do |-> "stats", of |-> root, with |-> Readable(root)]
<1>1. todo' = <<a, b>> /\ a.do = "stats" /\ b.do = "stats"
  BY DEF save_statistics
<1> HIDE DEF a, b
<1>2. /\ IsList(todo') /\ Len(todo') = 2 /\ todo'[1] = a /\ todo'[2] = b
  <2>1. <<a, b>> \in Seq({a, b})
    OBVIOUS
  <2> QED
    BY <1>1, <2>1 DEF IsList
<1>3. \A i \in Steps' : todo'[i].do \in {"stats", "append"}
  BY <1>1, <1>2 DEF Steps
<1>4. /\ boot = "up" /\ todo = <<>> /\ mem' = mem /\ before' = mem /\ dirs' = dirs /\ boot' = boot
      /\ launch' = launch /\ doomed' = doomed /\ nursery' = nursery
  BY DEF save_statistics, born, past
<1> QED
  BY <1>2, <1>3, <1>4, OtherOperationKeeps

(* append_iteration_record keeps it.                                        *)
LEMMA AppendKeeps ==
    ASSUME IInv, NEW n, append_iteration_record(n)
    PROVE  IInv'
<1> DEFINE a == todo'[1]
<1>1. todo' = <<a>> /\ a.do = "append"
  BY DEF append_iteration_record
<1> HIDE DEF a
<1>2. /\ IsList(todo') /\ Len(todo') = 1 /\ todo'[1] = a
  <2>1. <<a>> \in Seq({a})
    OBVIOUS
  <2> QED
    BY <1>1, <2>1 DEF IsList
<1>3. \A i \in Steps' : todo'[i].do \in {"stats", "append"}
  BY <1>1, <1>2 DEF Steps
<1>4. /\ boot = "up" /\ todo = <<>> /\ mem' = mem /\ before' = mem /\ dirs' = dirs /\ boot' = boot
      /\ launch' = launch /\ doomed' = doomed /\ nursery' = nursery
  BY DEF append_iteration_record, born, past, caches
<1> QED
  BY <1>2, <1>3, <1>4, OtherOperationKeeps

(* delete, for every caller.                                                *)
LEMMA DeleteKeeps ==
    ASSUME IInv, boot # "down", NEW c \in DOMAIN mem, delete(c), BootInv'
    PROVE  IInv'
<1>1. PICK p : p = mem[c].parent
  OBVIOUS
<1> DEFINE linked == p \in DOMAIN mem /\ c \in mem[p].children
<1>2. /\ Quiet /\ TypeInv /\ Tree /\ WriteInv /\ IsStore(mem) /\ DOMAIN mem \subseteq Nat
      /\ \A d \in DOMAIN mem : mem[d] \in Candidate /\ mem[d].parent \in Nat
  <2>1. Quiet /\ TypeInv /\ Tree /\ WriteInv /\ IsStore(mem)
    BY DEF IInv, delete, Operation, Quiet, TypeInv
  <2>2. DOMAIN mem \subseteq Nat /\ \A d \in DOMAIN mem : mem[d] \in Candidate
    BY <2>1, DiskAssumption DEF IsStore
  <2> QED
    BY <2>1, <2>2, RecordFields
<1>3. /\ mem' = [d \in DOMAIN mem \ {c} |-> [mem[d] EXCEPT !.children = mem[d].children \ {c}]]
      /\ before' = mem /\ dirs' = dirs /\ boot' = boot /\ launch' = launch
      /\ doomed' = doomed \cup {c} /\ nursery' = nursery \ {c}
  BY DEF delete, Operation, Delete
<1>4. todo' = (IF linked THEN _write_meta_to_disk(p, mem') ELSE <<>>) \o <<rmtree(c)>>
  BY <1>1 DEF delete, Operation
<1>5. DOMAIN mem' = DOMAIN mem \ {c}
  BY <1>3
<1>6. \A d \in DOMAIN mem' :
        /\ mem'[d] \in Candidate /\ mem'[d].state = mem[d].state
        /\ mem'[d].scores = mem[d].scores /\ mem'[d].parent = mem[d].parent
        /\ mem'[d].children = mem[d].children \ {c}
        /\ c \notin mem[d].children => mem'[d] = mem[d]
  <2> SUFFICES ASSUME NEW d \in DOMAIN mem'
               PROVE  /\ mem'[d] \in Candidate /\ mem'[d].state = mem[d].state
                      /\ mem'[d].scores = mem[d].scores /\ mem'[d].parent = mem[d].parent
                      /\ mem'[d].children = mem[d].children \ {c}
                      /\ c \notin mem[d].children => mem'[d] = mem[d]
    OBVIOUS
  <2>1. PICK C : C = mem[d].children \ {c}
    OBVIOUS
  <2>2. mem[d] \in Candidate /\ mem'[d] = [mem[d] EXCEPT !.children = C]
    BY <1>2, <1>3, <1>5, <2>1
  <2>3. C \in SUBSET Nat
    BY <2>1, <2>2, RecordFields
  <2>4. c \notin mem[d].children => mem'[d] = mem[d]
    <3>1. ASSUME c \notin mem[d].children PROVE C = mem[d].children
      BY <2>1, <3>1
    <3> QED
      BY <2>2, <3>1 DEF Candidate
  <2> QED
    BY <2>1, <2>2, <2>3, <2>4 DEF Candidate
<1>7. Doomed(c)'
  <2>1. c \in doomed' /\ c \in DOMAIN before' /\ c \in DOMAIN dirs' /\ c \notin DOMAIN mem'
    BY <1>2, <1>3, <1>5, QuietFiles
  <2>2. \A d \in DOMAIN mem' : c \notin mem'[d].children
    BY <1>6
  <2> QED
    BY <2>1, <2>2 DEF Doomed
<1>8. \A d \in DOMAIN mem : c \in mem[d].children => d = p /\ d # c
  <2> SUFFICES ASSUME NEW d \in DOMAIN mem, c \in mem[d].children PROVE d = p /\ d # c
    OBVIOUS
  <2>1. NamesChild(d, c) /\ NamesParent(c, p) /\ p \in Nat /\ c \in Nat /\ d \in Nat
    BY <1>1, <1>2 DEF NamesChild, NamesParent
  <2> QED
    BY <1>2, <2>1 DEF Tree
<1>9. linked => p \in DOMAIN mem'
  BY <1>5, <1>8
<1>10. /\ IsList(todo') /\ StepsOK' /\ CopyFirst' /\ 1 \in Steps'
       /\ todo'[Len(todo')].do = "rmtree" /\ todo'[Len(todo')].of = c
       /\ linked => Pending(p, "meta")'
  <2>1. CASE linked
    <3>1. todo' = _write_meta_to_disk(p, mem') \o <<rmtree(c)>> /\ p \in DOMAIN mem'
      BY <1>4, <1>9, <2>1
    <3> HIDE DEF linked
    <3> QED
      BY <1>7, <3>1, DeleteList
  <2>2. CASE ~linked
    <3>1. todo' = <<>> \o <<rmtree(c)>>
      BY <1>4, <2>2
    <3> QED
      BY <1>7, <2>2, <3>1, RmtreeList
  <2> QED
    BY <2>1, <2>2
<1>11. IsStore(mem')
  BY <1>2, <1>3, <1>5, <1>6 DEF IsStore
<1>12. \A d \in nursery' : d \in DOMAIN mem' /\ mem'[d].state = "unavailable"
  BY <1>2, <1>3, <1>5, <1>6 DEF TypeInv
<1>13. Begins
  BY <1>2, <1>3, <1>10, <1>11, <1>12 DEF Begins
<1>14. Shrinks
  <2>1. \A d \in DOMAIN mem : d \notin doomed /\ mem[d].state # "unavailable" => mem[d].scores # <<>>
    BY <1>2 DEF WriteInv, Scored
  <2>2. ASSUME NEW d \in DOMAIN mem'
        PROVE  MetaOf(mem'[d]) = MetaOf(mem[d]) \/ Pending(d, "meta")'
    <3>1. CASE c \in mem[d].children
      <4>1. d = p /\ linked
        BY <1>5, <1>8, <3>1
      <4> HIDE DEF linked
      <4> QED
        BY <1>10, <4>1
    <3>2. CASE c \notin mem[d].children
      BY <1>6, <3>2
    <3> QED
      BY <3>1, <3>2
  <2>3. \A d \in DOMAIN mem \ DOMAIN mem' : d = c
    BY <1>5
  <2> QED
    BY <1>3, <1>5, <1>6, <1>10, <2>1, <2>2, <2>3 DEF Shrinks
<1>15. OneFile'
  BY <1>3, <1>5, <1>6 DEF OneFile
<1> QED
  BY <1>10, <1>13, <1>14, <1>15, ShrinksKeeps

(* create_root and create_child.                                            *)
IsNew(c) ==
    /\ c \in DOMAIN mem /\ c \notin DOMAIN dirs /\ c \notin DOMAIN before
    /\ mem[c].scores = <<>> /\ mem[c].state = "unavailable"

Copies(c, part) ==
    \E i \in Steps : todo[i].do = "copy" /\ todo[i].of = c /\ todo[i].part = part

CreatesOK(c) ==
    /\ StepsOK /\ CopyFirst /\ 1 \in Steps /\ todo[1].do = "mkdir" /\ todo[1].of = c
    /\ Copies(c, "artifact") /\ Copies(c, "data")
    /\ Pending(c, "meta") /\ Pending(c, "summary")

(* The list of create_root satisfies what WriteInv says of a list.          *)
LEMMA CreateRootList ==
    ASSUME NEW c, IsNew(c)', IsList(todo'), Len(todo') = 7, CreatesFiles(todo', c, mem')
    PROVE  CreatesOK(c)'
<1> DEFINE t == todo'
<1>1. Steps' = {1, 2, 3, 4, 5, 6, 7}
  BY Positions DEF Steps
<1>2. /\ t[1].do = "mkdir" /\ t[1].of = c
      /\ t[2].do = "copy" /\ t[2].of = c /\ t[2].part = "artifact"
      /\ t[3].do = "copy" /\ t[3].of = c /\ t[3].part = "data"
      /\ t[4].do = "truncate" /\ t[4].of = c /\ t[4].part = "meta"
      /\ t[5].do = "fill" /\ t[5].of = c /\ t[5].part = "meta"
      /\ t[5].with = Readable(MetaOf(mem'[c]))
      /\ t[6].do = "truncate" /\ t[6].of = c /\ t[6].part = "summary"
      /\ t[7].do = "fill" /\ t[7].of = c /\ t[7].part = "summary"
      /\ t[7].with = Readable(mem'[c].scores)
  BY DEF CreatesFiles, Is
<1>3. /\ c \in DOMAIN mem' /\ c \notin DOMAIN dirs' /\ c \notin DOMAIN before'
      /\ mem'[c].scores = <<>> /\ mem'[c].state = "unavailable"
  BY DEF IsNew
<1>4. /\ Copies(c, "artifact")' /\ Copies(c, "data")'
      /\ Pending(c, "meta")' /\ Pending(c, "summary")'
  <2>1. /\ 2 \in Steps' /\ 3 \in Steps' /\ 5 \in Steps' /\ 7 \in Steps'
    BY <1>1
  <2> QED
    BY <1>2, <2>1 DEF Copies, Pending, Writing
<1>5. ASSUME NEW i \in Steps' PROVE KindOK(i)' /\ CopyOK(i)' /\ RmtreeOK(i)'
  BY <1>1, <1>2, <1>3 DEF KindOK, CopyOK, RmtreeOK
<1>6. ASSUME NEW i \in Steps' PROVE MkdirOK(i)' /\ FillMetaOK(i)'
  BY <1>1, <1>2, <1>3 DEF MkdirOK, FillMetaOK
<1>7. ASSUME NEW i \in Steps' PROVE TruncateOK(i)'
  BY <1>1, <1>2, <1>3 DEF TruncateOK, Writing
<1>8. ASSUME NEW i \in Steps' PROVE FillSummaryOK(i)'
  BY <1>1, <1>2, <1>3 DEF FillSummaryOK
<1>9. CopyFirst'
  BY <1>1, <1>2 DEF CopyFirst
<1> QED
  BY <1>1, <1>2, <1>4, <1>5, <1>6, <1>7, <1>8, <1>9 DEF CreatesOK, StepsOK

(* So does that of create_child.                                            *)
LEMMA CreateChildList ==
    ASSUME NEW c, IsNew(c)', IsList(todo'), Len(todo') = 9, CreatesFiles(todo', c, mem'),
           NEW p \in DOMAIN mem', Is(todo', 8, "truncate", p, "meta"),
           Is(todo', 9, "fill", p, "meta"), todo'[9].with = Readable(MetaOf(mem'[p]))
    PROVE  CreatesOK(c)' /\ Pending(p, "meta")'
<1> DEFINE t == todo'
<1>1. Steps' = {1, 2, 3, 4, 5, 6, 7, 8, 9}
  BY Positions DEF Steps
<1>2. /\ t[1].do = "mkdir" /\ t[1].of = c
      /\ t[2].do = "copy" /\ t[2].of = c /\ t[2].part = "artifact"
      /\ t[3].do = "copy" /\ t[3].of = c /\ t[3].part = "data"
      /\ t[4].do = "truncate" /\ t[4].of = c /\ t[4].part = "meta"
      /\ t[5].do = "fill" /\ t[5].of = c /\ t[5].part = "meta"
      /\ t[5].with = Readable(MetaOf(mem'[c]))
      /\ t[6].do = "truncate" /\ t[6].of = c /\ t[6].part = "summary"
      /\ t[7].do = "fill" /\ t[7].of = c /\ t[7].part = "summary"
      /\ t[7].with = Readable(mem'[c].scores)
      /\ t[8].do = "truncate" /\ t[8].of = p /\ t[8].part = "meta"
      /\ t[9].do = "fill" /\ t[9].of = p /\ t[9].part = "meta"
      /\ t[9].with = Readable(MetaOf(mem'[p]))
  BY DEF CreatesFiles, Is
<1>3. /\ c \in DOMAIN mem' /\ c \notin DOMAIN dirs' /\ c \notin DOMAIN before'
      /\ mem'[c].scores = <<>> /\ mem'[c].state = "unavailable"
  BY DEF IsNew
<1>4. /\ Copies(c, "artifact")' /\ Copies(c, "data")'
      /\ Pending(c, "meta")' /\ Pending(c, "summary")' /\ Pending(p, "meta")'
  <2>1. /\ 2 \in Steps' /\ 3 \in Steps' /\ 5 \in Steps' /\ 7 \in Steps' /\ 9 \in Steps'
    BY <1>1
  <2> QED
    BY <1>2, <2>1 DEF Copies, Pending, Writing
<1>5. ASSUME NEW i \in Steps' PROVE KindOK(i)' /\ CopyOK(i)' /\ RmtreeOK(i)'
  BY <1>1, <1>2, <1>3 DEF KindOK, CopyOK, RmtreeOK
<1>6. ASSUME NEW i \in Steps' PROVE MkdirOK(i)' /\ FillMetaOK(i)'
  BY <1>1, <1>2, <1>3 DEF MkdirOK, FillMetaOK
<1>7. ASSUME NEW i \in Steps' PROVE TruncateOK(i)'
  BY <1>1, <1>2, <1>3 DEF TruncateOK, Writing
<1>8. ASSUME NEW i \in Steps' PROVE FillSummaryOK(i)'
  BY <1>1, <1>2, <1>3 DEF FillSummaryOK
<1>9. CopyFirst'
  BY <1>1, <1>2 DEF CopyFirst
<1> QED
  BY <1>1, <1>2, <1>4, <1>5, <1>6, <1>7, <1>8, <1>9 DEF CreatesOK, StepsOK

(* An operation that adds the candidate c, entered at its parent only.      *)
Grows(c) ==
    /\ c \in Nat /\ c \notin DOMAIN dirs /\ c \notin DOMAIN mem /\ c \notin doomed
    /\ DOMAIN mem' = DOMAIN mem \cup {c} /\ doomed' = doomed
    /\ mem'[c].children = {} /\ mem'[c].parent # c
    /\ \A d \in DOMAIN mem :
         /\ mem'[d].parent = mem[d].parent /\ mem'[d].state = mem[d].state
         /\ mem'[d].scores = mem[d].scores
         /\ mem'[d].children = mem[d].children
              \/ (d = mem'[c].parent /\ mem'[d].children = mem[d].children \cup {c})
         /\ MetaOf(mem'[d]) = MetaOf(mem[d]) \/ Pending(d, "meta")'

(* It keeps the invariant if the files of c and the entry are written.      *)
LEMMA GrowsKeeps ==
    ASSUME IInv, Begins, NEW c, Grows(c), IsNew(c)', CreatesOK(c)', BootInv'
    PROVE  IInv'
<1>1. /\ TypeInv /\ Tree /\ WriteInv /\ NoDanglingChild /\ DOMAIN mem \subseteq Nat
      /\ dirs' = dirs /\ boot' = boot /\ boot # "down" /\ before' = mem
      /\ StepsOK' /\ CopyFirst'
      /\ c \in DOMAIN mem' /\ mem'[c].scores = <<>> /\ mem'[c].state = "unavailable"
  BY DiskAssumption DEF IInv, Begins, Quiet, IsNew, CreatesOK, TypeInv, IsStore
<1>2. OneFile'
  BY <1>1 DEF OneFile, Grows
<1>3. TypeInv' /\ Whole' /\ NoDanglingChild' /\ InterruptInv'
  BY <1>2, BeginsKeeps DEF Grows
<1>4. \A d \in DOMAIN mem : mem[d].children \subseteq DOMAIN dirs
  BY <1>1, QuietFiles DEF WriteInv, Named, Begins
<1>5. \A p : ~NamesChild(p, c)
  BY <1>1, <1>4 DEF NamesChild, NoDanglingChild, Known, Grows
<1>6. Tree'
  <2> DEFINE r == mem'[c].parent
  <2>1. \A p, d : NamesChild(p, d)' => NamesChild(p, d) \/ (d = c /\ p = r)
    BY <1>1 DEF NamesChild, Grows, Known
  <2>2. \A d, q : d # c /\ NamesParent(d, q)' => NamesParent(d, q)
    BY <1>1 DEF NamesParent, Grows, Known
  <2>3. \A q : NamesParent(c, q)' => q = r
    BY <1>1 DEF NamesParent, Grows, Known
  <2>4. r # c
    BY DEF Grows
  <2> HIDE DEF r
  <2>5. ASSUME NEW p \in Nat, NEW d \in Nat, NEW q \in Nat, NamesChild(p, d)', NamesParent(d, q)'
        PROVE  q = p /\ p # d
    <3>1. CASE d = c
      BY <1>5, <2>1, <2>3, <2>4, <2>5, <3>1
    <3>2. CASE d # c
      BY <1>1, <2>1, <2>2, <2>5, <3>2 DEF Tree
    <3> QED
      BY <3>1, <3>2
  <2> QED
    BY <2>5 DEF Tree
<1>7. HasDir'
  BY <1>1, QuietFiles DEF HasDir, CreatesOK, Grows, Begins
<1>8. HasParts'
  BY <1>1, QuietFiles DEF HasParts, CreatesOK, Copies, Grows, Begins
<1>9. Scored'
  BY <1>1 DEF WriteInv, Scored, Grows
<1>10. MetaAgrees' /\ ScoresAgree'
  BY <1>1, QuietFiles DEF MetaAgrees, ScoresAgree, CreatesOK, Grows, Begins
<1>11. Garbage'
  BY <1>1, QuietFiles DEF Garbage, Grows, Begins, Known
<1>12. Named'
  BY <1>1, <1>4 DEF Named, Grows
<1> QED
  BY <1>1, <1>3, <1>6, <1>7, <1>8, <1>9, <1>10, <1>11, <1>12 DEF IInv, WriteInv

(* create_root keeps the invariant.                                         *)
LEMMA CreateRootKeeps ==
    ASSUME IInv, NEW c \in Ids, create_root(c)
    PROVE  IInv'
<1>1. /\ boot = "up" /\ Quiet /\ TypeInv /\ IsStore(mem) /\ Fresh(c) /\ c \in Nat \ {0}
      /\ \A d \in DOMAIN mem : mem[d] \in Candidate
  BY DiskAssumption DEF IInv, create_root, Operation, Quiet, TypeInv, IsStore, NoCandidate
<1> DEFINE r == [state |-> "unavailable", parent |-> NoCandidate, children |-> {},
                 generation |-> 0, cursor |-> StartCursor, scores |-> <<>>]
<1>2. /\ mem' = [d \in DOMAIN mem \cup {c} |-> IF d = c THEN r ELSE mem[d]]
      /\ before' = mem /\ dirs' = dirs /\ boot' = boot /\ launch' = launch /\ doomed' = doomed
      /\ nursery' = nursery \cup {c}
  BY DEF create_root, Operation, CreateRoot, Add
<1>3. todo' = NewFiles(c) \o _write_meta_to_disk(c, mem') \o _write_summary_to_disk(c, mem')
  BY DEF create_root, Operation, NewFiles
<1>4. c \notin DOMAIN dirs /\ c \notin DOMAIN mem /\ c \notin doomed
  BY <1>1 DEF Fresh
<1>5. /\ r \in Candidate /\ r.state = "unavailable" /\ r.scores = <<>> /\ r.children = {}
      /\ r.parent = 0
  <2>1. <<>> \in Seq(Nat)
    OBVIOUS
  <2> QED
    BY <2>1 DEF Candidate, CandidateState, NoCandidate, StartCursor, Cursor
<1> HIDE DEF r
<1>6. /\ DOMAIN mem' = DOMAIN mem \cup {c} /\ mem'[c] = r
      /\ \A d \in DOMAIN mem : mem'[d] = mem[d]
  BY <1>2, <1>4
<1>7. IsStore(mem')
  <2>1. \A d \in DOMAIN mem' : mem'[d] \in Candidate
    BY <1>1, <1>5, <1>6
  <2> QED
    BY <1>1, <1>2, <1>6, <2>1 DEF IsStore
<1>8. IsList(todo') /\ Len(todo') = 7 /\ CreatesFiles(todo', c, mem')
  BY <1>3, CreateRootWrites
<1>9. IsNew(c)'
  BY <1>2, <1>4, <1>5, <1>6 DEF IsNew
<1>10. CreatesOK(c)'
  BY <1>8, <1>9, CreateRootList
<1>11. \A d \in nursery' : d \in DOMAIN mem' /\ mem'[d].state = "unavailable"
  BY <1>1, <1>2, <1>5, <1>6 DEF TypeInv
<1>12. Begins
  BY <1>1, <1>2, <1>7, <1>8, <1>11 DEF Begins
<1>13. Grows(c)
  BY <1>1, <1>2, <1>4, <1>5, <1>6 DEF Grows
<1>14. BootInv'
  BY <1>1, <1>2 DEF BootInv
<1> QED
  BY <1>9, <1>10, <1>12, <1>13, <1>14, GrowsKeeps

(* create_child keeps it.                                                   *)
LEMMA CreateChildKeeps ==
    ASSUME IInv, NEW p \in Ids, NEW c \in Ids, NEW cursor \in Cursors, create_child(p, c, cursor)
    PROVE  IInv'
<1>1. /\ boot = "up" /\ Quiet /\ TypeInv /\ IsStore(mem) /\ Fresh(c) /\ c \in Nat /\ p \in Nat
      /\ p \in DOMAIN mem /\ (\A d \in DOMAIN mem : mem[d] \in Candidate) /\ cursor \in Cursor
  BY DiskAssumption DEF IInv, create_child, Operation, Quiet, TypeInv, IsStore
<1> DEFINE r == [state |-> "unavailable", parent |-> p, children |-> {},
                 generation |-> mem[p].generation + 1, cursor |-> cursor, scores |-> <<>>]
           u == [mem[p] EXCEPT !.children = mem[p].children \cup {c}]
           m == [mem EXCEPT ![p] = u]
<1>2. /\ mem' = [d \in DOMAIN m \cup {c} |-> IF d = c THEN r ELSE m[d]]
      /\ before' = mem /\ dirs' = dirs /\ boot' = boot /\ launch' = launch /\ doomed' = doomed
      /\ nursery' = nursery \cup {c}
  <2>1. mem' = CreateChild(mem, p, c, cursor)
    BY DEF create_child, Operation
  <2>2. mem' = Add([mem EXCEPT ![p].children = @ \cup {c}], c, r)
    BY <2>1 DEF CreateChild
  <2>3. [mem EXCEPT ![p].children = @ \cup {c}] = m
    BY <1>1 DEF IsStore
  <2>4. mem' = Add(m, c, r)
    BY <2>2, <2>3
  <2> HIDE DEF m, r
  <2> QED
    BY <2>4 DEF create_child, Operation, Add
<1>3. todo' = NewFiles(c) \o _write_meta_to_disk(c, mem') \o _write_summary_to_disk(c, mem')
                \o _write_meta_to_disk(p, mem')
  BY DEF create_child, Operation, NewFiles
<1>4. c \notin DOMAIN dirs /\ c \notin DOMAIN mem /\ c \notin doomed /\ c # p
  BY <1>1 DEF Fresh
<1>5. /\ r \in Candidate /\ r.state = "unavailable" /\ r.scores = <<>> /\ r.children = {}
      /\ r.parent = p
  <2>1. <<>> \in Seq(Nat) /\ mem[p] \in Candidate
    BY <1>1
  <2>2. mem[p].generation + 1 \in Nat
    BY <2>1 DEF Candidate
  <2> QED
    BY <1>1, <2>1, <2>2 DEF Candidate, CandidateState
<1>6. /\ u \in Candidate /\ u.state = mem[p].state /\ u.scores = mem[p].scores
      /\ u.parent = mem[p].parent /\ u.children = mem[p].children \cup {c}
  <2>1. mem[p] \in Candidate
    BY <1>1
  <2> QED
    BY <1>1, <2>1 DEF Candidate
<1>7. /\ DOMAIN m = DOMAIN mem /\ m[p] = u /\ \A d \in DOMAIN mem : d # p => m[d] = mem[d]
  BY <1>1 DEF IsStore
<1> HIDE DEF r, u, m
<1>8. /\ DOMAIN mem' = DOMAIN mem \cup {c} /\ mem'[c] = r /\ mem'[p] = u
      /\ \A d \in DOMAIN mem : d # p => mem'[d] = mem[d]
  BY <1>1, <1>2, <1>4, <1>7
<1>9. IsStore(mem')
  <2>1. \A d \in DOMAIN mem' : mem'[d] \in Candidate
    BY <1>1, <1>5, <1>6, <1>8
  <2>2. mem' = [d \in DOMAIN mem' |-> mem'[d]]
    BY <1>2
  <2> QED
    BY <1>1, <1>8, <2>1, <2>2 DEF IsStore
<1>10. /\ IsList(todo') /\ Len(todo') = 9 /\ CreatesFiles(todo', c, mem')
       /\ Is(todo', 8, "truncate", p, "meta") /\ Is(todo', 9, "fill", p, "meta")
       /\ todo'[9].with = Readable(MetaOf(mem'[p]))
  BY <1>3, CreateChildWrites
<1>11. IsNew(c)'
  BY <1>2, <1>4, <1>5, <1>8 DEF IsNew
<1>12. CreatesOK(c)' /\ Pending(p, "meta")'
  <2>1. p \in DOMAIN mem'
    BY <1>1, <1>8
  <2> QED
    BY <1>10, <1>11, <2>1, CreateChildList
<1>13. \A d \in nursery' : d \in DOMAIN mem' /\ mem'[d].state = "unavailable"
  BY <1>1, <1>2, <1>5, <1>6, <1>8 DEF TypeInv
<1>14. Begins
  BY <1>1, <1>2, <1>9, <1>10, <1>13 DEF Begins
<1>15. Grows(c)
  BY <1>1, <1>2, <1>4, <1>5, <1>6, <1>8, <1>12 DEF Grows
<1>16. BootInv'
  BY <1>1, <1>2 DEF BootInv
<1> QED
  BY <1>11, <1>12, <1>14, <1>15, <1>16, GrowsKeeps

(* What a launch loads.                                                     *)
LEMMA LoadedStore ==
    ASSUME TypeInv
    PROVE  /\ IsStore(Loaded(dirs)) /\ DOMAIN Loaded(dirs) = {c \in DOMAIN dirs : Known(c)}
           /\ \A c \in DOMAIN Loaded(dirs) :
                LET r == Loaded(dirs)[c]  m == dirs[c].meta[1] IN
                /\ r = [m EXCEPT !.scores = Scores(dirs[c])] /\ m \in Metas /\ r \in Candidate
                /\ dirs[c].meta = Readable(m) /\ MetaOf(r) = m /\ r.scores = Scores(dirs[c])
                /\ r.state = m.state /\ r.parent = m.parent /\ r.children = m.children
<1> DEFINE s == Loaded(dirs)
<1>1. DOMAIN s = {c \in DOMAIN dirs : Known(c)} /\ s = [c \in DOMAIN s |-> s[c]]
  BY DEF Loaded, Known
<1>2. ASSUME NEW c \in DOMAIN s, NEW r, r = s[c], NEW m, m = dirs[c].meta[1]
      PROVE  /\ r = [m EXCEPT !.scores = Scores(dirs[c])] /\ m \in Metas /\ r \in Candidate
             /\ dirs[c].meta = Readable(m) /\ MetaOf(r) = m /\ r.scores = Scores(dirs[c])
             /\ r.state = m.state /\ r.parent = m.parent /\ r.children = m.children
  <2>1. r = [m EXCEPT !.scores = Scores(dirs[c])]
    BY <1>2 DEF Loaded, Scores
  <2>2. DirOK(dirs[c]) /\ Known(c)
    BY <1>1 DEF TypeInv
  <2>3. m \in Metas /\ dirs[c].meta = Readable(m)
    BY <1>2, <2>2 DEF DirOK, IsJson, Known
  <2>4. Scores(dirs[c]) \in Seq(Nat)
    BY <2>2 DEF DirOK, IsJson, Scores
  <2>5. m \in Candidate /\ m.scores = <<>>
    BY <2>3 DEF Metas
  <2>6. /\ r \in Candidate /\ r.scores = Scores(dirs[c]) /\ MetaOf(r) = MetaOf(m)
        /\ r.state = m.state /\ r.parent = m.parent /\ r.children = m.children
    BY <2>1, <2>4, <2>5, RecordUpdates
  <2>7. MetaOf(m) = m
    BY <2>5, RecordFields
  <2> QED
    BY <2>1, <2>3, <2>6, <2>7
<1> HIDE DEF s
<1>3. IsStore(s)
  <2>1. \A c \in DOMAIN s : s[c] \in Candidate
    BY <1>2
  <2>2. DOMAIN s \subseteq Ids
    BY <1>1 DEF TypeInv
  <2> QED
    BY <1>1, <2>1, <2>2 DEF IsStore
<1> QED
  BY <1>1, <1>2, <1>3 DEF s

(* Write-through, between two operations.                                   *)
LEMMA QuietIsLoaded ==
    ASSUME IInv, Quiet
    PROVE  Loaded(dirs) = mem
<1>1. TypeInv /\ IsStore(mem)
  BY DEF IInv, TypeInv
<1>2. DOMAIN Loaded(dirs) = DOMAIN mem
  BY <1>1, LoadedStore, QuietFiles
<1>3. ASSUME NEW c \in DOMAIN mem PROVE Loaded(dirs)[c] = mem[c]
  <2>1. /\ mem[c] \in Candidate /\ dirs[c].meta[1] = MetaOf(mem[c])
        /\ Scores(dirs[c]) = mem[c].scores
    BY QuietFiles
  <2>2. Loaded(dirs)[c] = [dirs[c].meta[1] EXCEPT !.scores = Scores(dirs[c])]
    BY <1>1, <1>2, LoadedStore
  <2> QED
    BY <2>1, <2>2, RecordFields
<1>4. Loaded(dirs) = [c \in DOMAIN Loaded(dirs) |-> Loaded(dirs)[c]]
  BY <1>1, LoadedStore DEF IsStore
<1> QED
  BY <1>1, <1>2, <1>3, <1>4 DEF IsStore

(* A kill keeps it: what it says of the files does not mention the caches.  *)
LEMMA KillKeeps ==
    ASSUME IInv, Kill
    PROVE  IInv'
<1>1. TypeInv /\ Tree /\ Whole /\ NoDanglingChild
  BY DEF IInv
<1>2. /\ boot' = "down" /\ mem' = EmptyStore /\ todo' = <<>> /\ nursery' = {}
      /\ before' = Loaded(dirs) /\ dirs' = dirs /\ doomed' = doomed
      /\ launch' = [alive |-> PoolByState(mem, {"pending", "evolving"}), root |-> stats,
                    loaded |-> EmptyStore]
  BY DEF Kill
<1>3. IsStore(EmptyStore) /\ DOMAIN EmptyStore = {} /\ IsList(<<>>)
  <2>1. <<>> \in Seq({})
    OBVIOUS
  <2> QED
    BY <2>1 DEF IsStore, EmptyStore, IsList
<1>4. TypeInv'
  BY <1>1, <1>2, <1>3, LoadedStore DEF TypeInv
<1>5. Tree'
  <2>1. \A p, c : NamesChild(p, c)' => NamesChild(p, c)
    BY <1>2, <1>3 DEF NamesChild, Known
  <2>2. \A p, c : NamesParent(c, p)' => NamesParent(c, p)
    BY <1>2, <1>3 DEF NamesParent, Known
  <2> QED
    BY <1>1, <2>1, <2>2 DEF Tree
<1>6. Whole' /\ NoDanglingChild' /\ BootInv'
  BY <1>1, <1>2 DEF Whole, NoDanglingChild, Known, BootInv
<1> QED
  BY <1>2, <1>4, <1>5, <1>6 DEF IInv

(* Loading what can be read makes the caches agree with the files again.    *)
LEMMA LoadKeeps ==
    ASSUME IInv, _load_all_from_disk
    PROVE  IInv'
<1> DEFINE s == Loaded(dirs)
<1>1. TypeInv /\ Tree /\ Whole /\ NoDanglingChild /\ boot = "down"
  BY DEF IInv, _load_all_from_disk
<1>2. /\ boot' = "purge" /\ mem' = s /\ todo' = todo /\ todo = <<>> /\ nursery' = nursery
      /\ before' = before /\ dirs' = dirs /\ doomed' = doomed
      /\ launch' = [launch EXCEPT !.loaded = s]
  BY <1>1 DEF _load_all_from_disk, TypeInv, born
<1>3. /\ IsStore(s) /\ DOMAIN s = {c \in DOMAIN dirs : Known(c)}
      /\ \A c \in DOMAIN s :
           /\ dirs[c].meta = Readable(MetaOf(s[c])) /\ dirs[c].meta[1] = MetaOf(s[c])
           /\ s[c].scores = Scores(dirs[c]) /\ s[c] \in Candidate
           /\ s[c].state = dirs[c].meta[1].state /\ s[c].parent = dirs[c].meta[1].parent
           /\ s[c].children = dirs[c].meta[1].children
  BY <1>1, LoadedStore
<1>4. nursery = {}
  BY <1>1 DEF TypeInv, EmptyStore
<1>5. /\ launch'.loaded = s
      /\ launch' = [alive |-> launch'.alive, root |-> launch'.root, loaded |-> launch'.loaded]
  <2> HIDE DEF s
  <2> QED
    BY <1>1, <1>2 DEF TypeInv
<1> HIDE DEF s
<1>6. TypeInv'
  BY <1>1, <1>2, <1>3, <1>4, <1>5 DEF TypeInv
<1>7. Tree'
  <2>1. \A p, c : NamesChild(p, c)' => NamesChild(p, c)
    BY <1>2, <1>3 DEF NamesChild, Known
  <2>2. \A p, c : NamesParent(c, p)' => NamesParent(c, p)
    BY <1>2, <1>3 DEF NamesParent, Known
  <2> QED
    BY <1>1, <2>1, <2>2 DEF Tree
<1>8. Whole' /\ NoDanglingChild'
  BY <1>1, <1>2 DEF Whole, NoDanglingChild, Known
<1>9. BootInv'
  <2>1. s = Delete(s, {})
    <3>1. \A c \in DOMAIN s : [s[c] EXCEPT !.children = s[c].children \ {}] = s[c]
      BY <1>3 DEF Candidate
    <3> QED
      BY <1>3, <3>1 DEF Delete, IsStore
  <2>2. DOMAIN s \ DOMAIN s = {}
    OBVIOUS
  <2>3. Purged(s, s)
    BY <2>1, <2>2 DEF Purged
  <2> QED
    BY <1>2, <1>5, <2>3 DEF BootInv
<1>10. WriteInv'
  <2>1. Steps' = {}
    BY <1>2 DEF Steps
  <2>2. StepsOK' /\ CopyFirst'
    BY <2>1 DEF StepsOK, CopyFirst
  <2>3. HasDir' /\ MetaAgrees' /\ ScoresAgree'
    BY <1>2, <1>3 DEF HasDir, MetaAgrees, ScoresAgree
  <2>4. Garbage' /\ Named'
    BY <1>1, <1>2, <1>3 DEF Garbage, Named, NoDanglingChild, Known
  <2>5. HasParts' /\ Scored'
    BY <1>1, <1>2, <1>3 DEF HasParts, Scored, Whole
  <2> QED
    BY <2>2, <2>3, <2>4, <2>5 DEF WriteInv
<1> QED
  BY <1>2, <1>6, <1>7, <1>8, <1>9, <1>10 DEF IInv

(* The recovery.                                                            *)
Without(t, s, C) ==
    /\ DOMAIN t = DOMAIN s \ C /\ IsStore(t)
    /\ \A c \in DOMAIN t :
         /\ t[c] = [s[c] EXCEPT !.children = s[c].children \ C]
         /\ t[c].state = s[c].state

(* Delete, field by field.                                                  *)
LEMMA DeleteFields ==
    ASSUME NEW s, IsStore(s), NEW C
    PROVE  Without(Delete(s, C), s, C)
<1> DEFINE t == Delete(s, C)
<1>1. /\ DOMAIN t = DOMAIN s \ C
      /\ t = [c \in DOMAIN s \ C |-> [s[c] EXCEPT !.children = s[c].children \ C]]
  BY DEF Delete
<1>2. ASSUME NEW c \in DOMAIN s \ C, NEW r, r = [s[c] EXCEPT !.children = s[c].children \ C]
      PROVE  r \in Candidate /\ r.state = s[c].state
  <2>1. s[c] \in Candidate
    BY DEF IsStore
  <2> QED
    BY <1>2, <2>1 DEF Candidate
<1> HIDE DEF t
<1>3. IsStore(t)
  BY <1>1, <1>2 DEF IsStore
<1>4. Without(t, s, C)
  BY <1>1, <1>2, <1>3 DEF Without
<1> QED
  BY <1>4 DEF t

(* Deleting nobody changes nothing.                                         *)
LEMMA DeleteNone ==
    ASSUME NEW s, IsStore(s)
    PROVE  Delete(s, {}) = s
<1>1. \A c \in DOMAIN s : [s[c] EXCEPT !.children = s[c].children \ {}] = s[c]
  BY DEF IsStore, Candidate
<1> QED
  BY <1>1 DEF Delete, IsStore

(* Deleting one set after another is deleting both at once, children        *)
(* included.                                                                *)
LEMMA DeleteTwice ==
    ASSUME NEW s, IsStore(s), NEW C, NEW D
    PROVE  Delete(Delete(s, C), D) = Delete(s, C \cup D)
<1>1. PICK t : t = Delete(s, C)
  OBVIOUS
<1>2. PICK u : u = Delete(t, D)
  OBVIOUS
<1>3. PICK E : E = C \cup D
  OBVIOUS
<1>4. PICK v : v = Delete(s, E)
  OBVIOUS
<1>5. Without(t, s, C)
  BY <1>1, DeleteFields
<1>6. IsStore(t)
  BY <1>5 DEF Without
<1>7. Without(u, t, D) /\ Without(v, s, E)
  BY <1>2, <1>4, <1>6, DeleteFields
<1>8. IsStore(u) /\ IsStore(v) /\ DOMAIN u = DOMAIN v
  BY <1>3, <1>5, <1>7 DEF Without
<1>9. ASSUME NEW c \in DOMAIN u PROVE u[c] = v[c]
  <2>1. PICK K : K = s[c].children
    OBVIOUS
  <2>2. /\ c \in DOMAIN s /\ c \in DOMAIN t /\ t[c] = [s[c] EXCEPT !.children = K \ C]
        /\ v[c] = [s[c] EXCEPT !.children = K \ E]
        /\ u[c] = [t[c] EXCEPT !.children = t[c].children \ D]
    BY <1>5, <1>7, <1>8, <2>1 DEF Without
  <2>3. s[c] \in Candidate
    BY <2>2 DEF IsStore
  <2>4. t[c].children = K \ C
    BY <2>2, <2>3 DEF Candidate
  <2>5. [t[c] EXCEPT !.children = (K \ C) \ D] = [s[c] EXCEPT !.children = (K \ C) \ D]
    BY <2>2, <2>3 DEF Candidate
  <2>6. (K \ C) \ D = K \ E
    BY <1>3
  <2> QED
    BY <2>2, <2>4, <2>5, <2>6
<1>10. u = v
  BY <1>8, <1>9 DEF IsStore
<1> QED
  BY <1>1, <1>2, <1>3, <1>4, <1>10

(* One more unavailable candidate deleted.                                  *)
LEMMA PurgeGoesOn ==
    ASSUME NEW s, IsStore(s), NEW t, Purged(s, t), CleanupUnavailable,
           NEW c \in PoolByState(t, {"unavailable"})
    PROVE  Purged(s, Delete(t, {c}))
<1> DEFINE D == DOMAIN s \ DOMAIN t
           u == Delete(t, {c})
<1>1. t = Delete(s, D) /\ DOMAIN t \subseteq DOMAIN s /\ c \in DOMAIN t /\ t[c].state = "unavailable"
  BY DEF Purged, PoolByState
<1>2. s[c].state = "unavailable"
  <2> HIDE DEF D
  <2>1. Without(t, s, D)
    BY <1>1, DeleteFields
  <2> QED
    BY <1>1, <2>1 DEF Without
<1>3. u = Delete(s, D \cup {c})
  <2> HIDE DEF D
  <2> QED
    BY <1>1, DeleteTwice
<1>4. DOMAIN u = DOMAIN t \ {c}
  BY DEF Delete
<1>5. DOMAIN s \ DOMAIN u = D \cup {c}
  BY <1>1, <1>4
<1>6. \A d \in D : s[d].state = "unavailable" /\ CleanupUnavailable
  BY DEF Purged
<1> HIDE DEF u, D
<1> QED
  BY <1>1, <1>2, <1>3, <1>4, <1>5, <1>6 DEF Purged, u

(* With none left, what was purged is what Recover keeps.                   *)
LEMMA PurgeEnds ==
    ASSUME NEW s, IsStore(s), NEW t, Purged(s, t),
           CleanupUnavailable => PoolByState(t, {"unavailable"}) = {}
    PROVE  t = Kept(s) /\ Resetting(Kept(s), t)
<1> DEFINE D == DOMAIN s \ DOMAIN t
<1>1. /\ t = Delete(s, D) /\ DOMAIN t \subseteq DOMAIN s
      /\ \A d \in D : s[d].state = "unavailable" /\ CleanupUnavailable
  BY DEF Purged
<1>2. t = Kept(s)
  <2>1. CASE CleanupUnavailable
    <3>1. \A d \in DOMAIN t : t[d].state = s[d].state
      <4> HIDE DEF D
      <4>1. Without(t, s, D)
        BY <1>1, DeleteFields
      <4> QED
        BY <4>1 DEF Without
    <3>2. D = PoolByState(s, {"unavailable"})
      BY <1>1, <2>1, <3>1 DEF PoolByState
    <3> QED
      BY <1>1, <2>1, <3>2 DEF Kept
  <2>2. CASE ~CleanupUnavailable
    <3>1. D = {}
      BY <1>1, <2>2
    <3> QED
      BY <1>1, <2>2, <3>1, DeleteNone DEF Kept
  <2> QED
    BY <2>1, <2>2
<1> QED
  BY <1>2 DEF Resetting

(* What Recover keeps is a store.                                           *)
LEMMA KeptIsStore ==
    ASSUME NEW s, IsStore(s)
    PROVE  IsStore(Kept(s))
<1>1. IsStore(Delete(s, PoolByState(s, {"unavailable"})))
  BY DeleteFields DEF Without
<1> QED
  BY <1>1 DEF Kept

(* One more evolving candidate pending again.                               *)
LEMMA ResetGoesOn ==
    ASSUME NEW s, IsStore(s), NEW t, Resetting(s, t), NEW c \in PoolByState(t, {"evolving"})
    PROVE  Resetting(s, SetState(t, {c}, "pending"))
<1> DEFINE u == SetState(t, {c}, "pending")
<1>1. /\ u = [d \in DOMAIN t |-> IF d = c THEN [t[c] EXCEPT !.state = "pending"] ELSE t[d]]
      /\ DOMAIN u = DOMAIN s /\ c \in DOMAIN s /\ t[c].state = "evolving"
  BY DEF SetState, Resetting, PoolByState
<1>2. t[c] = s[c]
  <2>1. s[c] \in Candidate
    BY <1>1 DEF IsStore
  <2>2. [s[c] EXCEPT !.state = "pending"].state = "pending"
    BY <2>1 DEF Candidate
  <2> QED
    BY <1>1, <2>2 DEF Resetting
<1>3. u[c] = [s[c] EXCEPT !.state = "pending"] /\ \A d \in DOMAIN s : d # c => u[d] = t[d]
  BY <1>1, <1>2 DEF Resetting
<1> HIDE DEF u
<1> QED
  BY <1>1, <1>2, <1>3 DEF Resetting, u

(* With none left, the result is that of Recover.                           *)
LEMMA ResetEnds ==
    ASSUME NEW s, IsStore(s), NEW t, IsStore(t), Resetting(Kept(s), t),
           PoolByState(t, {"evolving"}) = {}
    PROVE  t = Recover(s)
<1> DEFINE k == Kept(s)
           u == SetState(k, PoolByState(k, {"evolving"}), "pending")
<1>1. Recover(s) = u
  BY DEF Recover, Kept
<1>2. /\ DOMAIN u = DOMAIN k /\ u = [c \in DOMAIN u |-> u[c]]
      /\ \A c \in DOMAIN k : u[c] = IF k[c].state = "evolving" THEN [k[c] EXCEPT !.state = "pending"]
                                    ELSE k[c]
  <2> HIDE DEF k
  <2> QED
    BY DEF SetState, PoolByState
<1>3. ASSUME NEW c \in DOMAIN k PROVE t[c] = u[c]
  <2>1. t[c] = k[c] \/ (k[c].state = "evolving" /\ t[c] = [k[c] EXCEPT !.state = "pending"])
    BY DEF Resetting
  <2>2. c \in DOMAIN t /\ t[c].state # "evolving"
    BY DEF Resetting, PoolByState
  <2> HIDE DEF k, u
  <2> QED
    BY <1>2, <2>1, <2>2
<1>4. DOMAIN t = DOMAIN k /\ t = [c \in DOMAIN t |-> t[c]]
  BY DEF Resetting, IsStore
<1> HIDE DEF k, u
<1> QED
  BY <1>1, <1>2, <1>3, <1>4

(* delete_unavailable_candidates keeps the invariant.                       *)
LEMMA PurgeKeeps ==
    ASSUME IInv, NEW c, delete_unavailable_candidates(c)
    PROVE  IInv'
<1>1. /\ boot = "purge" /\ CleanupUnavailable /\ delete(c) /\ c \in DOMAIN mem
      /\ c \in PoolByState(mem, {"unavailable"}) /\ IsStore(launch.loaded)
      /\ Purged(launch.loaded, mem)
  BY DEF IInv, BootInv, TypeInv, delete_unavailable_candidates, PoolByState
<1>2. mem' = Delete(mem, {c}) /\ boot' = boot /\ launch' = launch
  BY <1>1 DEF delete, Operation
<1>3. BootInv'
  BY <1>1, <1>2, PurgeGoesOn DEF BootInv
<1> QED
  BY <1>1, <1>3, DeleteKeeps

(* reset_evolving_to_pending keeps it.                                      *)
LEMMA ResetKeeps ==
    ASSUME IInv, NEW c, reset_evolving_to_pending(c)
    PROVE  IInv'
<1>1. /\ boot = "reset" /\ set_state(c, "pending") /\ c \in DOMAIN mem /\ mem[c].state = "evolving"
      /\ c \in PoolByState(mem, {"evolving"}) /\ IsStore(launch.loaded)
      /\ Resetting(Kept(launch.loaded), mem) /\ WriteInv
  BY DEF IInv, BootInv, TypeInv, reset_evolving_to_pending, PoolByState
<1>2. mem' = SetState(mem, {c}, "pending") /\ boot' = boot /\ launch' = launch
  BY <1>1 DEF set_state, Operation
<1>3. BootInv'
  <2>1. IsStore(Kept(launch.loaded))
    BY <1>1, KeptIsStore
  <2>2. Resetting(Kept(launch.loaded), SetState(mem, {c}, "pending"))
    BY <1>1, <2>1, ResetGoesOn
  <2> QED
    BY <1>1, <1>2, <2>2 DEF BootInv
<1>4. c \notin doomed => mem[c].scores # <<>>
  BY <1>1 DEF WriteInv, Scored
<1> QED
  BY <1>1, <1>3, <1>4, SetStateKeeps DEF CandidateState

(* Scoring and admitting a new candidate keep it.                           *)
LEMMA AdmitKeeps ==
    ASSUME IInv, NEW c, Admit(c)
    PROVE  IInv'
<1>1. boot = "up" /\ c \in nursery /\ c \in DOMAIN mem
  BY DEF Admit, IInv, TypeInv
<1>2. CASE mem[c].scores = <<>>
  <2>1. PICK scores \in ScoreLists : update_summary_scores(c, scores)
    BY <1>2 DEF Admit
  <2>2. scores \in Seq(Nat)
    BY DiskAssumption
  <2> QED
    BY <1>1, <1>2, <2>1, <2>2, ScoresKeep
<1>3. CASE mem[c].scores # <<>>
  <2>1. set_state(c, "pending")
    BY <1>3 DEF Admit
  <2>2. BootInv'
    BY <1>1, <2>1 DEF set_state, Operation, BootInv
  <2> QED
    BY <1>1, <1>3, <2>1, <2>2, SetStateKeeps DEF CandidateState
<1> QED
  BY <1>2, <1>3

(* Opening and closing a slot keep it.                                      *)
LEMMA SlotKeeps ==
    ASSUME IInv, NEW c, Slot(c)
    PROVE  IInv'
<1>1. boot = "up" /\ c \in DOMAIN mem /\ WriteInv /\ mem[c].state # "unavailable"
  BY DEF Slot, IInv
<1>2. c \notin doomed => mem[c].scores # <<>>
  BY <1>1 DEF WriteInv, Scored
<1>3. ASSUME NEW st \in {"evolving", "pending"}, set_state(c, st) PROVE IInv'
  <2>1. BootInv'
    BY <1>1, <1>3 DEF set_state, Operation, BootInv
  <2> QED
    BY <1>1, <1>2, <1>3, <2>1, SetStateKeeps DEF CandidateState
<1>4. ASSUME NEW cursor \in Cursors, set_progress(c, cursor), mem[c].state = "evolving"
      PROVE  IInv'
  <2>1. BootInv'
    BY <1>1, <1>4 DEF set_progress, Operation, BootInv
  <2> QED
    BY <1>1, <1>4, <2>1, SetProgressKeeps
<1> QED
  BY <1>3, <1>4 DEF Slot

(* Retiring a candidate keeps it.                                           *)
LEMMA EliminateKeeps ==
    ASSUME IInv, NEW c, Eliminate(c)
    PROVE  IInv'
<1>1. boot = "up" /\ c \in DOMAIN mem /\ retire(c)
  BY DEF Eliminate, IInv, TypeInv, PoolByState
<1>2. CASE delete(c)
  <2>1. BootInv'
    BY <1>1, <1>2 DEF delete, Operation, BootInv
  <2> QED
    BY <1>1, <1>2, <2>1, DeleteKeeps
<1>3. CASE set_state(c, "unavailable")
  <2>1. BootInv'
    BY <1>1, <1>3 DEF set_state, Operation, BootInv
  <2> QED
    BY <1>1, <1>3, <2>1, SetStateKeeps DEF CandidateState
<1> QED
  BY <1>1, <1>2, <1>3 DEF retire

(* A step that changes none of the variables of the invariant but the       *)
(* progress of the recovery.                                                *)
LEMMA SameFiles ==
    ASSUME IInv, boot # "down", boot' \in {"purge", "reset", "up"}, mem' = mem, dirs' = dirs,
           todo' = todo, nursery' = nursery, before' = before, doomed' = doomed,
           IsStore(launch.loaded'), 
           launch' = [alive |-> launch.alive', root |-> launch.root', loaded |-> launch.loaded'],
           BootInv'
    PROVE  IInv'
<1>1. Tree' /\ Whole' /\ NoDanglingChild'
  BY DEF IInv, Tree, NamesChild, NamesParent, Known, Whole, NoDanglingChild
<1>2. TypeInv'
  BY DEF IInv, TypeInv
<1>3. WriteInv'
  BY DEF IInv, WriteInv, StepsOK, Steps, KindOK, MkdirOK, CopyOK, TruncateOK, FillMetaOK,
         FillSummaryOK, RmtreeOK, CopyFirst, HasDir, MetaAgrees, ScoresAgree, Pending, Writing,
         Garbage, HasParts, Scored, Named, Known
<1>4. todo' # <<>> => InterruptInv'
  BY DEF IInv, InterruptInv, OldOrNewMeta, OldOrNewScores, Lossy, OneFile, Known, Writing
<1> QED
  BY <1>1, <1>2, <1>3, <1>4 DEF IInv

(* From one phase of the recovery to the next.                              *)
LEMMA NextBootKeeps ==
    ASSUME IInv, boot # "down", NextBootStep
    PROVE  IInv'
<1>1. /\ mem' = mem /\ dirs' = dirs /\ todo' = todo /\ nursery' = nursery /\ before' = before
      /\ doomed' = doomed /\ boot' \in {"reset", "up"}
      /\ launch' = IF boot' = "up" THEN NoLaunch ELSE launch
  BY DEF NextBootStep, caches, born
<1>2. /\ TypeInv /\ IsStore(launch.loaded) /\ BootInv
      /\ launch = [alive |-> launch.alive, root |-> launch.root, loaded |-> launch.loaded]
  BY DEF IInv, TypeInv
<1>3. IsStore(EmptyStore)
  BY DEF IsStore, EmptyStore
<1>4. /\ IsStore(launch.loaded')
      /\ launch' = [alive |-> launch.alive', root |-> launch.root', loaded |-> launch.loaded']
  BY <1>1, <1>2, <1>3 DEF NoLaunch
<1>5. BootInv'
  <2>1. CASE boot = "purge"
    <3>1. /\ boot' = "reset" /\ launch' = launch
          /\ CleanupUnavailable => PoolByState(mem, {"unavailable"}) = {}
      BY <1>1, <2>1 DEF NextBootStep
    <3>2. Resetting(Kept(launch.loaded), mem)
      BY <1>2, <2>1, <3>1, PurgeEnds DEF BootInv
    <3> QED
      BY <1>1, <3>1, <3>2 DEF BootInv
  <2>2. CASE boot = "reset"
    BY <2>2 DEF NextBootStep, BootInv
  <2> QED
    BY <2>1, <2>2 DEF NextBootStep
<1> QED
  BY <1>1, <1>4, <1>5, SameFiles

(* An empty workspace satisfies the invariant.                              *)
LEMMA InitInv == Init => IInv
<1> SUFFICES ASSUME Init PROVE IInv
  OBVIOUS
<1>1. /\ mem = EmptyStore /\ before = EmptyStore /\ dirs = EmptyStore /\ todo = <<>>
      /\ boot = "up" /\ nursery = {} /\ launch = NoLaunch
  BY DEF Init
<1>2. DOMAIN EmptyStore = {} /\ EmptyStore = [c \in DOMAIN EmptyStore |-> EmptyStore[c]]
      /\ IsStore(EmptyStore) /\ IsList(<<>>)
  <2>1. <<>> \in Seq({})
    OBVIOUS
  <2> QED
    BY <2>1 DEF EmptyStore, IsStore, IsList
<1> HIDE DEF EmptyStore
<1>3. TypeInv
  BY <1>1, <1>2 DEF TypeInv, NoLaunch
<1>4. Tree /\ Whole /\ NoDanglingChild /\ BootInv
  BY <1>1, <1>2 DEF Tree, NamesChild, Whole, NoDanglingChild, BootInv
<1>5. WriteInv
  <2>1. Steps = {}
    BY <1>1 DEF Steps
  <2>2. StepsOK /\ CopyFirst
    BY <2>1 DEF StepsOK, CopyFirst
  <2> QED
    BY <1>1, <1>2, <2>2 DEF WriteInv, HasDir, MetaAgrees, ScoresAgree, Garbage, HasParts,
                            Scored, Named
<1> QED
  BY <1>1, <1>3, <1>4, <1>5 DEF IInv

(* Every step keeps it: one case per action.                                *)
LEMMA StepInv == IInv /\ [Next]_vars => IInv'
<1> SUFFICES ASSUME IInv, [Next]_vars PROVE IInv'
  OBVIOUS
<1>1. CASE FileStep
  <2>1. boot # "down"
    BY <1>1 DEF FileStep, IInv, TypeInv
  <2> QED
    BY <1>1, <2>1, FileStepKeeps
<1>2. ASSUME NEW c \in Ids, create_root(c) PROVE IInv'
  BY <1>2, CreateRootKeeps
<1>3. ASSUME NEW c \in Ids, NEW p \in Ids, NEW cursor \in Cursors, create_child(p, c, cursor)
      PROVE  IInv'
  BY <1>3, CreateChildKeeps
<1>4. ASSUME NEW c \in Ids,
             \/ Admit(c) \/ Slot(c) \/ Eliminate(c)
             \/ delete_unavailable_candidates(c) \/ reset_evolving_to_pending(c)
             \/ save_statistics(c)
      PROVE  IInv'
  BY <1>4, AdmitKeeps, SlotKeeps, EliminateKeeps, PurgeKeeps, ResetKeeps, StatisticsKeep
<1>5. ASSUME NEW n \in 1 .. MaxRecords, append_iteration_record(n) PROVE IInv'
  BY <1>5, AppendKeeps
<1>6. CASE Kill
  BY <1>6, KillKeeps
<1>7. CASE _load_all_from_disk
  BY <1>7, LoadKeeps
<1>8. CASE NextBootStep
  <2>1. boot # "down"
    BY <1>8 DEF NextBootStep
  <2> QED
    BY <1>8, <2>1, NextBootKeeps
<1>9. CASE UNCHANGED vars
  <2>1. /\ mem' = mem /\ dirs' = dirs /\ todo' = todo /\ nursery' = nursery /\ before' = before
        /\ doomed' = doomed /\ boot' = boot /\ launch' = launch
    BY <1>9 DEF vars, caches, born, past
  <2>2. BootInv' /\ TypeInv'
    BY <2>1 DEF IInv, BootInv, TypeInv
  <2>3. CASE boot # "down"
    BY <2>1, <2>2, <2>3, SameFiles DEF TypeInv, IInv
  <2>4. CASE boot = "down"
    <3>1. todo' = <<>> /\ boot' = "down"
      BY <2>1, <2>4 DEF IInv, TypeInv
    <3>2. Tree' /\ Whole' /\ NoDanglingChild'
      BY <2>1 DEF IInv, Tree, NamesChild, NamesParent, Known, Whole, NoDanglingChild
    <3> QED
      BY <2>2, <3>1, <3>2 DEF IInv
  <2> QED
    BY <2>3, <2>4
<1> QED
  BY <1>1, <1>2, <1>3, <1>4, <1>5, <1>6, <1>7, <1>8, <1>9 DEF Next

(* IInv always holds.                                                       *)
LEMMA Invariant == Spec => []IInv
<1>1. Init => IInv
  BY InitInv
<1>2. IInv /\ [Next]_vars => IInv'
  BY StepInv
<1> QED
  BY <1>1, <1>2, PTL DEF Spec

-----------------------------------------------------------------------------
(* What the invariant says of the store.                                    *)

(* Whenever the process is killed, no readable meta.json names a child      *)
(* without a directory: create_child links a child last, delete unlinks it  *)
(* first.                                                                   *)
THEOREM NoChildIsDangling == Spec => []NoDanglingChild
<1>1. IInv => NoDanglingChild
  BY DEF IInv
<1> QED
  BY <1>1, Invariant, PTL

(* Whoever loads the directory between any two file writes gets candidates  *)
(* with their artifact and data, and with scores once they are selectable.  *)
THEOREM WhoeverLoadsGetsWholes == Spec => []LoadedIsWhole
<1>1. IInv => LoadedIsWhole
  <2> SUFFICES ASSUME IInv, NEW c \in DOMAIN Loaded(dirs) \ doomed
               PROVE  /\ {"artifact", "data"} \subseteq dirs[c].parts
                      /\ Loaded(dirs)[c].state # "unavailable" => Loaded(dirs)[c].scores # <<>>
    BY DEF LoadedIsWhole
  <2>1. TypeInv /\ Whole
    BY DEF IInv
  <2>2. /\ c \in DOMAIN dirs /\ Known(c) /\ Loaded(dirs)[c].state = dirs[c].meta[1].state
        /\ Loaded(dirs)[c].scores = Scores(dirs[c])
    BY <2>1, LoadedStore
  <2> QED
    BY <2>1, <2>2 DEF Whole
<1> QED
  BY <1>1, Invariant, PTL

(* The startup recovery, candidate by candidate and file by file, ends at   *)
(* what CandidateStore!Recover makes of the loaded candidates in one step:  *)
(* the step that Optimizer takes for it (Restart).                          *)
THEOREM BootRecovers == Spec => BootIsRecover
<1>1. IInv /\ [Next]_vars => [boot = "reset" /\ boot' = "up" => mem' = Recover(launch.loaded)]_vars
  <2> SUFFICES ASSUME IInv, [Next]_vars, boot = "reset", boot' = "up"
               PROVE  mem' = Recover(launch.loaded)
    OBVIOUS
  <2>1. NextBootStep
    <3>1. boot' # boot
      OBVIOUS
    <3>2. ~FileStep
      BY <3>1 DEF FileStep
    <3>3. \A s, w : ~Operation(s, w)
      BY <3>1 DEF Operation
    <3>4. \A c : /\ ~create_root(c) /\ \A p, cursor : ~create_child(p, c, cursor)
                 /\ ~delete_unavailable_candidates(c) /\ ~reset_evolving_to_pending(c)
                 /\ ~Admit(c) /\ ~Slot(c) /\ ~Eliminate(c) /\ ~save_statistics(c)
                 /\ ~append_iteration_record(c)
      BY DEF create_root, create_child, delete_unavailable_candidates, Admit, Slot, Eliminate,
             save_statistics, append_iteration_record, reset_evolving_to_pending, set_state,
             set_progress, Operation
    <3> QED
      BY <3>1, <3>2, <3>4 DEF Next, Kill, _load_all_from_disk, vars
  <2>2. mem' = mem /\ PoolByState(mem, {"evolving"}) = {}
    BY <2>1 DEF NextBootStep, caches
  <2>3. IsStore(launch.loaded) /\ IsStore(mem) /\ Resetting(Kept(launch.loaded), mem)
    BY DEF IInv, TypeInv, BootInv
  <2> QED
    BY <2>2, <2>3, ResetEnds
<1>2. Spec => [][boot = "reset" /\ boot' = "up" => mem' = Recover(launch.loaded)]_vars
  BY <1>1, Invariant, PTL DEF Spec
<1> QED
  BY <1>2 DEF BootIsRecover

-----------------------------------------------------------------------------
(* Iteration records. A line of the log; the records it has lost; whether   *)
(* its last line is torn; whether a record is being appended.               *)
Line == [torn : BOOLEAN, n : Nat]
Lost == appended \ read_iteration_records
LastTorn == records # <<>> /\ records[Len(records)].torn
Appending == \E i \in Steps : todo[i].do = "append"

LogType ==
    /\ records \in Seq(Line) /\ appended \subseteq Nat \ {Malformed} /\ IsFiniteSet(appended)
    /\ crashes \in Nat
(* The line an append is about to complete: the torn one it has found or    *)
(* begun.                                                                   *)
AppendOK ==
    Appending =>
      /\ Len(todo) = 1 /\ LastTorn /\ todo[1].of \in Nat \ {Malformed}
      /\ \/ todo[1].with = [torn |-> FALSE, n |-> Malformed]
         \/ todo[1].with = [torn |-> FALSE, n |-> todo[1].of]
(* A torn last line that no append will complete has a kill to blame that   *)
(* has not yet cost a record.  A record appended to it goes with it, once.  *)
Charged == IF LastTorn /\ (Appending => todo[1].with.n = Malformed) THEN 1 ELSE 0
(* The inductive invariant of the log: a kill is charged with one record    *)
(* only.                                                                    *)
RecordInv == LogType /\ AppendOK /\ Cardinality(Lost) + Charged <= crashes

(* The list w appends no record and saves no statistics.                    *)
NoLog(w) == \A i \in 1 .. Len(w) : w[i].do \notin {"append", "stats"}

(* No operation on candidates does.                                         *)
LEMMA OtherWrites ==
    ASSUME NEW c, NEW p, NEW s
    PROVE  /\ NoLog(_write_meta_to_disk(c, s)) /\ NoLog(_write_summary_to_disk(c, s))
           /\ NoLog(<<>> \o <<rmtree(c)>>)
           /\ NoLog(_write_meta_to_disk(p, s) \o <<rmtree(c)>>)
           /\ NoLog(NewFiles(c) \o _write_meta_to_disk(c, s) \o _write_summary_to_disk(c, s))
           /\ NoLog(NewFiles(c) \o _write_meta_to_disk(c, s) \o _write_summary_to_disk(c, s)
                         \o _write_meta_to_disk(p, s))
<1>1. ASSUME NEW q PROVE NoLog(_write_meta_to_disk(q, s))
  <2>1. PICK w : w = _write_meta_to_disk(q, s)
    OBVIOUS
  <2>2. Len(w) = 2 /\ w[1].do = "truncate" /\ w[2].do = "fill"
    BY <2>1, MetaWrites DEF Is
  <2> QED
    BY <2>1, <2>2 DEF NoLog
<1>2. NoLog(_write_summary_to_disk(c, s))
  <2> DEFINE w == _write_summary_to_disk(c, s)
  <2>1. Len(w) = 2 /\ Is(w, 1, "truncate", c, "summary") /\ Is(w, 2, "fill", c, "summary")
    BY SummaryWrites
  <2> HIDE DEF w
  <2>2. w[1].do = "truncate" /\ w[2].do = "fill"
    BY <2>1 DEF Is
  <2>3. NoLog(w)
    BY <2>1, <2>2 DEF NoLog
  <2> QED
    BY <2>3 DEF w
<1>3. NoLog(<<>> \o <<rmtree(c)>>)
  BY DeleteWrites DEF NoLog
<1>4. NoLog(_write_meta_to_disk(p, s) \o <<rmtree(c)>>)
  <2> DEFINE w == _write_meta_to_disk(p, s) \o <<rmtree(c)>>
  <2>1. RemovesFiles(w, p, c, s)
    BY DeleteWrites
  <2> HIDE DEF w
  <2>2. Len(w) = 3 /\ w[1].do = "truncate" /\ w[2].do = "fill" /\ w[3].do = "rmtree"
    BY <2>1 DEF RemovesFiles, Is
  <2>3. NoLog(w)
    BY <2>2 DEF NoLog
  <2> QED
    BY <2>3 DEF w
<1>5. NoLog(NewFiles(c) \o _write_meta_to_disk(c, s) \o _write_summary_to_disk(c, s))
  <2> DEFINE w == NewFiles(c) \o _write_meta_to_disk(c, s) \o _write_summary_to_disk(c, s)
  <2>1. Len(w) = 7 /\ CreatesFiles(w, c, s)
    BY CreateRootWrites
  <2> HIDE DEF w
  <2>2. /\ w[1].do = "mkdir" /\ w[2].do = "copy" /\ w[3].do = "copy" /\ w[4].do = "truncate"
        /\ w[5].do = "fill" /\ w[6].do = "truncate" /\ w[7].do = "fill"
    BY <2>1 DEF CreatesFiles, Is
  <2>3. 1 .. Len(w) = {1, 2, 3, 4, 5, 6, 7}
    BY <2>1
  <2>4. NoLog(w)
    BY <2>2, <2>3 DEF NoLog
  <2> QED
    BY <2>4 DEF w
<1>6. NoLog(NewFiles(c) \o _write_meta_to_disk(c, s) \o _write_summary_to_disk(c, s)
                 \o _write_meta_to_disk(p, s))
  <2> DEFINE w == NewFiles(c) \o _write_meta_to_disk(c, s) \o _write_summary_to_disk(c, s)
                    \o _write_meta_to_disk(p, s)
  <2>1. /\ Len(w) = 9 /\ CreatesFiles(w, c, s) /\ Is(w, 8, "truncate", p, "meta")
        /\ Is(w, 9, "fill", p, "meta")
    BY CreateChildWrites
  <2> HIDE DEF w
  <2>2. /\ w[1].do = "mkdir" /\ w[2].do = "copy" /\ w[3].do = "copy" /\ w[4].do = "truncate"
        /\ w[5].do = "fill" /\ w[6].do = "truncate" /\ w[7].do = "fill"
        /\ w[8].do = "truncate" /\ w[9].do = "fill"
    BY <2>1 DEF CreatesFiles, Is
  <2>3. 1 .. Len(w) = {1, 2, 3, 4, 5, 6, 7, 8, 9}
    BY <2>1
  <2>4. NoLog(w)
    BY <2>2, <2>3 DEF NoLog
  <2> QED
    BY <2>4 DEF w
<1> QED
  BY <1>1, <1>2, <1>3, <1>4, <1>5, <1>6

(* A step that leaves the records alone.                                    *)
Elsewhere ==
    /\ records' = records /\ appended' = appended /\ crashes' = crashes
    /\ Appending \/ Appending' => todo' = todo

(* An operation on candidates: it leaves the statistics alone, too.         *)
OnCandidates ==
    /\ Elsewhere /\ boot' = boot /\ todo = <<>> /\ stats' = stats /\ statsFile' = statsFile
    /\ \A i \in Steps' : todo'[i].do # "stats"

(* An operation whose list is of that kind is one,                          *)
LEMMA OperationElsewhere ==
    ASSUME NEW s, NEW w, Operation(s, w), NoLog(w)
    PROVE  OnCandidates
<1>1. /\ todo = <<>> /\ todo' = w /\ boot' = boot /\ stats' = stats /\ statsFile' = statsFile
      /\ records' = records /\ appended' = appended /\ crashes' = crashes
  BY DEF Operation, logs
<1>2. ~Appending' /\ \A i \in Steps' : todo'[i].do # "stats"
  BY <1>1 DEF Appending, Steps, NoLog
<1>3. ~Appending
  BY <1>1 DEF Appending, Steps
<1> QED
  BY <1>1, <1>2, <1>3 DEF Elsewhere, OnCandidates

(* and a step that leaves the records alone keeps their invariant.          *)
LEMMA ElsewhereKeeps ==
    ASSUME RecordInv, Elsewhere
    PROVE  RecordInv'
<1>1. /\ LogType' /\ (LastTorn' <=> LastTorn) /\ Lost' = Lost /\ crashes' = crashes
  BY DEF RecordInv, LogType, Elsewhere, LastTorn, Lost, read_iteration_records
<1>2. CASE ~Appending /\ ~Appending'
  <2>1. Charged' = Charged /\ AppendOK'
    BY <1>1, <1>2 DEF Charged, AppendOK
  <2> QED
    BY <1>1, <2>1 DEF RecordInv
<1>3. CASE todo' = todo
  <2>1. Appending' <=> Appending
    BY <1>3 DEF Appending, Steps
  <2>2. Charged' = Charged /\ AppendOK'
    BY <1>1, <1>3, <2>1 DEF Charged, AppendOK, RecordInv
  <2> QED
    BY <1>1, <2>2 DEF RecordInv
<1> QED
  BY <1>2, <1>3 DEF Elsewhere

(* The operations on candidates leave records and statistics alone.         *)
LEMMA CandidatesElsewhere ==
    ASSUME NEW c, NEW p, NEW cursor,
           \/ create_root(c) \/ create_child(p, c, cursor) \/ Admit(c) \/ Slot(c) \/ Eliminate(c)
           \/ delete_unavailable_candidates(c) \/ reset_evolving_to_pending(c)
    PROVE  OnCandidates
<1>1. ASSUME create_root(c) PROVE OnCandidates
  <2>1. PICK s : Operation(s, NewFiles(c) \o _write_meta_to_disk(c, s)
                                \o _write_summary_to_disk(c, s))
    BY <1>1 DEF create_root, NewFiles
  <2> QED
    BY <2>1, OtherWrites, OperationElsewhere
<1>2. ASSUME create_child(p, c, cursor) PROVE OnCandidates
  <2>1. PICK s : Operation(s, NewFiles(c) \o _write_meta_to_disk(c, s)
                                \o _write_summary_to_disk(c, s) \o _write_meta_to_disk(p, s))
    BY <1>2 DEF create_child, NewFiles
  <2> QED
    BY <2>1, OtherWrites, OperationElsewhere
<1>3. ASSUME NEW st, set_state(c, st) PROVE OnCandidates
  BY <1>3, OtherWrites, OperationElsewhere DEF set_state
<1>4. ASSUME NEW scores, update_summary_scores(c, scores) PROVE OnCandidates
  BY <1>4, OtherWrites, OperationElsewhere DEF update_summary_scores
<1>5. ASSUME delete(c) PROVE OnCandidates
  <2>1. PICK q : q = mem[c].parent
    OBVIOUS
  <2>2. PICK s, w : /\ Operation(s, w)
                    /\ w \in {_write_meta_to_disk(q, s) \o <<rmtree(c)>>, <<>> \o <<rmtree(c)>>}
    BY <1>5, <2>1 DEF delete
  <2>3. NoLog(w)
    BY <2>2, OtherWrites
  <2> QED
    BY <2>2, <2>3, OperationElsewhere
<1>6. ASSUME retire(c) PROVE OnCandidates
  BY <1>3, <1>5, <1>6 DEF retire
<1>7. ASSUME NEW to, set_progress(c, to) PROVE OnCandidates
  BY <1>7, OtherWrites, OperationElsewhere DEF set_progress
<1> QED
  BY <1>1, <1>2, <1>3, <1>4, <1>5, <1>6, <1>7
  DEF Admit, Slot, Eliminate, delete_unavailable_candidates, reset_evolving_to_pending

(* save_statistics leaves the records alone.                                *)
LEMMA StatisticsElsewhere ==
    ASSUME NEW root, save_statistics(root)
    PROVE  Elsewhere
<1> DEFINE a == [do |-> "stats", of |-> root, with |-> Unreadable]
           b == [do |-> "stats", of |-> root, with |-> Readable(root)]
<1>1. /\ todo' = <<a, b>> /\ a.do = "stats" /\ b.do = "stats" /\ todo = <<>>
      /\ records' = records /\ appended' = appended /\ crashes' = crashes
  BY DEF save_statistics, logs, past
<1> HIDE DEF a, b
<1>2. Len(todo') = 2 /\ todo'[1] = a /\ todo'[2] = b
  BY <1>1
<1>3. ~Appending' /\ ~Appending
  BY <1>1, <1>2 DEF Appending, Steps
<1> QED
  BY <1>1, <1>3 DEF Elsewhere

(* What read_iteration_records finds in the lines r.                        *)
Read(r) == {r[i].n : i \in {j \in 1 .. Len(r) : ~r[j].torn /\ r[j].n # Malformed}}

(* The last line is torn; a line is complete.                               *)
TornEnd(r) == r # <<>> /\ r[Len(r)].torn
Ended(l) == ~l.torn

(* Completing a torn last line adds its record, if it is not malformed.     *)
LEMMA ReadFilled ==
    ASSUME NEW r \in Seq(Line), TornEnd(r), NEW l \in Line, Ended(l),
           NEW q, q = [r EXCEPT ![Len(r)] = l]
    PROVE  /\ q \in Seq(Line) /\ q # <<>> /\ q[Len(q)] = l
           /\ Read(q) = IF l.n = Malformed THEN Read(r) ELSE Read(r) \cup {l.n}
<1> DEFINE k == Len(r)
<1>1. r # <<>> /\ r[k].torn /\ ~l.torn
  BY DEF TornEnd, Ended
<1>2. k \in Nat \ {0} /\ DOMAIN r = 1 .. k
  BY <1>1
<1> HIDE DEF k
<1>3. /\ q \in Seq(Line) /\ Len(q) = k /\ q[k] = l
      /\ \A i \in 1 .. k : i # k => q[i] = r[i]
  <2>1. r \in [1 .. k -> Line] /\ q = [r EXCEPT ![k] = l] /\ k \in 1 .. k
    BY <1>2 DEF k
  <2>2. q \in [1 .. k -> Line] /\ q[k] = l /\ \A i \in 1 .. k : i # k => q[i] = r[i]
    BY <2>1
  <2> QED
    BY <1>2, <2>2
<1>4. q # <<>>
  BY <1>2, <1>3
<1>5. r[k].torn /\ ~l.torn
  BY <1>1
<1>6. ASSUME NEW n PROVE n \in Read(q) <=> n \in Read(r) \/ (l.n # Malformed /\ n = l.n)
  <2>1. n \in Read(q) <=> \E i \in 1 .. k : ~q[i].torn /\ q[i].n # Malformed /\ n = q[i].n
    BY <1>3 DEF Read
  <2>2. n \in Read(r) <=> \E i \in 1 .. k : ~r[i].torn /\ r[i].n # Malformed /\ n = r[i].n
    BY DEF Read, k
  <2>3. k \in 1 .. k
    BY <1>2
  <2>4. n \in Read(r) => n \in Read(q)
    BY <1>3, <1>5, <2>1, <2>2
  <2>5. l.n # Malformed /\ n = l.n => n \in Read(q)
    BY <1>3, <1>5, <2>1, <2>3
  <2>6. n \in Read(q) => n \in Read(r) \/ (l.n # Malformed /\ n = l.n)
    BY <1>3, <2>1, <2>2
  <2> QED
    BY <2>4, <2>5, <2>6
<1>7. Read(q) = IF l.n = Malformed THEN Read(r) ELSE Read(r) \cup {l.n}
  <2>1. ASSUME l.n = Malformed PROVE Read(q) = Read(r)
    BY <1>6, <2>1
  <2>2. ASSUME l.n # Malformed PROVE Read(q) = Read(r) \cup {l.n}
    <3>1. Read(q) \subseteq Read(r) \cup {l.n}
      BY <1>6
    <3>2. Read(r) \subseteq Read(q) /\ l.n \in Read(q)
      BY <1>6, <2>2
    <3> QED
      BY <3>1, <3>2
  <2> QED
    BY <2>1, <2>2
<1> QED
  BY <1>3, <1>4, <1>7

(* Beginning a line adds nothing and takes nothing away.                    *)
LEMMA ReadTorn ==
    ASSUME NEW r \in Seq(Line), NEW l \in Line, l.torn
    PROVE  /\ Append(r, l) \in Seq(Line) /\ Append(r, l) # <<>>
           /\ Append(r, l)[Len(Append(r, l))] = l /\ Read(Append(r, l)) = Read(r)
<1> DEFINE q == Append(r, l)
           k == Len(r)
<1>1. k \in Nat
  OBVIOUS
<1>2. /\ q \in Seq(Line) /\ Len(q) = k + 1 /\ q[k + 1] = l /\ \A i \in 1 .. k : q[i] = r[i]
  OBVIOUS
<1> HIDE DEF q
<1>3. ASSUME NEW n PROVE n \in Read(q) <=> n \in Read(r)
  <2> HIDE DEF k
  <2>1. n \in Read(q) <=> \E i \in 1 .. k + 1 : ~q[i].torn /\ q[i].n # Malformed /\ n = q[i].n
    BY <1>2 DEF Read
  <2>2. n \in Read(r) <=> \E i \in 1 .. k : ~r[i].torn /\ r[i].n # Malformed /\ n = r[i].n
    BY DEF Read, k
  <2>3. \A i \in 1 .. k + 1 : i \in 1 .. k \/ i = k + 1
    BY <1>1
  <2>4. \A i \in 1 .. k : i \in 1 .. k + 1
    BY <1>1
  <2> QED
    BY <1>2, <2>1, <2>2, <2>3, <2>4
<1>4. Read(q) = Read(r)
  BY <1>3
<1>5. q # <<>>
  BY <1>1, <1>2
<1> QED
  BY <1>1, <1>2, <1>4, <1>5 DEF q

(* One more appended record, read or lost with the line it went to.         *)
LEMMA AppendedOnce ==
    ASSUME NEW A, IsFiniteSet(A), NEW R, NEW n
    PROVE  /\ IsFiniteSet(A \ R) /\ Cardinality(A \ R) \in Nat
           /\ IsFiniteSet(A \cup {n})
           /\ Cardinality((A \cup {n}) \ R) <= Cardinality(A \ R) + 1
           /\ Cardinality((A \cup {n}) \ (R \cup {n})) <= Cardinality(A \ R)
<1>1. IsFiniteSet(A \ R) /\ IsFiniteSet(A \cup {n})
  BY FS_Subset, FS_AddElement
<1>2. Cardinality(A \ R) \in Nat
  BY <1>1, FS_CardinalityType
<1>3. /\ IsFiniteSet((A \ R) \cup {n}) /\ Cardinality((A \ R) \cup {n}) <= Cardinality(A \ R) + 1
      /\ Cardinality((A \ R) \cup {n}) \in Nat
  <2> DEFINE B == A \ R
  <2>1. IsFiniteSet(B) /\ Cardinality(B) \in Nat
    BY <1>1, <1>2
  <2> HIDE DEF B
  <2>2. /\ IsFiniteSet(B \cup {n})
        /\ Cardinality(B \cup {n}) = IF n \in B THEN Cardinality(B) ELSE Cardinality(B) + 1
    BY <2>1, FS_AddElement
  <2>3. Cardinality(B \cup {n}) <= Cardinality(B) + 1 /\ Cardinality(B \cup {n}) \in Nat
    BY <2>1, <2>2
  <2> QED
    BY <2>2, <2>3 DEF B
<1>4. (A \cup {n}) \ R \in SUBSET ((A \ R) \cup {n})
  OBVIOUS
<1>5. /\ Cardinality((A \cup {n}) \ R) <= Cardinality((A \ R) \cup {n})
      /\ Cardinality((A \cup {n}) \ R) \in Nat
  BY <1>3, <1>4, FS_Subset, FS_CardinalityType
<1>6. (A \cup {n}) \ (R \cup {n}) \in SUBSET (A \ R)
  OBVIOUS
<1>7. Cardinality((A \cup {n}) \ (R \cup {n})) <= Cardinality(A \ R)
  BY <1>1, <1>6, FS_Subset
<1> QED
  BY <1>1, <1>2, <1>3, <1>5, <1>7

(* A file write keeps the invariant of the log.                             *)
LEMMA RecordStep ==
    ASSUME IInv, RecordInv, FileStep
    PROVE  RecordInv'
<1>1. /\ IsList(todo) /\ KindOK(1) /\ boot # "down" /\ todo # <<>>
      /\ Len(todo) \in Nat \ {0} /\ 1 \in Steps
  <2>1. todo # <<>> /\ boot # "down" /\ TypeInv /\ WriteInv
    BY DEF FileStep, IInv, TypeInv
  <2> QED
    BY <2>1, FirstStep, TailOfList
<1>2. UNCHANGED <<mem, stats, boot, seed, nursery, doomed, launch, crashes>>
  BY <1>1, FileStepCases
<1>3. CASE todo[1].do # "append"
  <2>1. ~Appending
    <3> SUFFICES ASSUME Appending PROVE FALSE
      OBVIOUS
    <3>1. Len(todo) = 1
      BY DEF RecordInv, AppendOK
    <3> QED
      BY <1>3, <3>1 DEF Appending, Steps
  <2>2. records' = records /\ appended' = appended /\ (todo' = todo \/ todo' = Tail(todo))
    BY <1>1, <1>3, FileStepCases
  <2>3. ~Appending'
    <3>1. CASE todo' = todo
      BY <2>1, <3>1 DEF Appending, Steps
    <3>2. CASE todo' = Tail(todo)
      <4>1. PICK t : t = todo'
        OBVIOUS
      <4>2. Len(t) = Len(todo) - 1 /\ \A i \in 1 .. Len(t) : t[i] = todo[i + 1]
        BY <1>1, <3>2, <4>1, TailOfList
      <4>3. \A i \in 1 .. Len(t) : i + 1 \in 1 .. Len(todo)
        BY <1>1, <4>2
      <4>4. \A i \in 1 .. Len(t) : t[i].do # "append"
        BY <2>1, <4>2, <4>3 DEF Appending, Steps
      <4> QED
        BY <4>1, <4>4 DEF Appending, Steps
    <3> QED
      BY <2>2, <3>1, <3>2
  <2> QED
    BY <1>2, <2>1, <2>2, <2>3, ElsewhereKeeps DEF Elsewhere
<1>4. CASE todo[1].do = "append"
  <2> DEFINE l == todo[1].with
             n == todo[1].of
             A == appended
  <2>1. /\ todo' = Tail(todo) /\ records' = [records EXCEPT ![Len(records)] = l]
        /\ appended' = A \cup {n} /\ crashes' = crashes
    BY <1>1, <1>4, FileStepCases
  <2>2. Appending
    BY <1>1, <1>4 DEF Appending
  <2>3. /\ Len(todo) = 1 /\ LastTorn /\ n \in Nat \ {Malformed}
        /\ l = [torn |-> FALSE, n |-> Malformed] \/ l = [torn |-> FALSE, n |-> n]
    BY <2>2 DEF RecordInv, AppendOK
  <2>4. l \in Line /\ ~l.torn /\ l.n \in {Malformed, n}
    <3> HIDE DEF l, n
    <3>1. CASE l = [torn |-> FALSE, n |-> Malformed]
      BY <3>1 DEF Line, Malformed
    <3>2. CASE l = [torn |-> FALSE, n |-> n]
      BY <2>3, <3>2 DEF Line
    <3> QED
      BY <2>3, <3>1, <3>2
  <2>5. ~Appending'
    <3>1. Len(todo') = 0
      BY <1>1, <2>1, <2>3, TailOfList
    <3> QED
      BY <3>1 DEF Appending, Steps
  <2> HIDE DEF l, n, A
  <2>6. /\ A \subseteq Nat \ {Malformed} /\ IsFiniteSet(A) /\ crashes \in Nat
        /\ records \in Seq(Line) /\ records # <<>> /\ records[Len(records)].torn
        /\ Lost = A \ Read(records)
    BY <2>3 DEF RecordInv, LogType, LastTorn, Lost, Read, read_iteration_records, A
  <2>7. PICK q : q = records'
    OBVIOUS
  <2>8. /\ q \in Seq(Line) /\ q # <<>> /\ q[Len(q)] = l
        /\ Read(q) = IF l.n = Malformed THEN Read(records) ELSE Read(records) \cup {l.n}
    <3>1. PICK r : r = records
      OBVIOUS
    <3>2. q = [r EXCEPT ![Len(r)] = l]
      BY <2>1, <2>7, <3>1
    <3>3. r \in Seq(Line) /\ TornEnd(r) /\ Ended(l)
      BY <2>4, <2>6, <3>1 DEF TornEnd, Ended
    <3>4. /\ q \in Seq(Line) /\ q # <<>> /\ q[Len(q)] = l
          /\ Read(q) = IF l.n = Malformed THEN Read(r) ELSE Read(r) \cup {l.n}
      <4>1. l \in Line
        BY <2>4
      <4>2. q \in Seq(Line)
        BY <4>1, <3>2, <3>3, ReadFilled
      <4>3. q # <<>>
        BY <4>1, <3>2, <3>3, ReadFilled
      <4>4. q[Len(q)] = l
        BY <4>1, <3>2, <3>3, ReadFilled
      <4>5. Read(q) = IF l.n = Malformed THEN Read(r) ELSE Read(r) \cup {l.n}
        BY <4>1, <3>2, <3>3, ReadFilled
      <4> QED
        BY <4>2, <4>3, <4>4, <4>5
    <3> QED
      BY <3>1, <3>4
  <2>9. Lost' = (A \cup {n}) \ Read(q)
    BY <2>1, <2>7 DEF Lost, Read, read_iteration_records
  <2>10. /\ Cardinality(A \ Read(records)) \in Nat /\ IsFiniteSet(A \cup {n})
         /\ Cardinality((A \cup {n}) \ Read(records)) <= Cardinality(A \ Read(records)) + 1
         /\ Cardinality((A \cup {n}) \ (Read(records) \cup {n})) <= Cardinality(A \ Read(records))
         /\ Cardinality((A \cup {n}) \ Read(records)) \in Nat
         /\ Cardinality((A \cup {n}) \ (Read(records) \cup {n})) \in Nat
    <3>1. IsFiniteSet(A \cup {n})
      BY <2>6, AppendedOnce
    <3>2. /\ IsFiniteSet((A \cup {n}) \ Read(records))
          /\ IsFiniteSet((A \cup {n}) \ (Read(records) \cup {n}))
      BY <3>1, FS_Subset
    <3> QED
      BY <2>6, <3>2, AppendedOnce, FS_CardinalityType
  <2>11. LogType'
    BY <2>1, <2>3, <2>6, <2>7, <2>8, <2>10 DEF LogType
  <2>12. ~LastTorn' /\ AppendOK'
    BY <2>4, <2>5, <2>7, <2>8 DEF LastTorn, AppendOK
  <2>13. Charged' = 0
    BY <2>12 DEF Charged
  <2>14. Cardinality(Lost') <= crashes
    <3>1. CASE l.n = Malformed
      <4>1. Charged = 1
        BY <2>3, <3>1 DEF Charged, l
      <4>2. Cardinality(A \ Read(records)) + 1 <= crashes
        BY <2>6, <4>1 DEF RecordInv
      <4>3. Lost' = (A \cup {n}) \ Read(records)
        BY <2>8, <2>9, <3>1
      <4> QED
        BY <2>6, <2>10, <4>2, <4>3
    <3>2. CASE l.n # Malformed
      <4>1. Charged \in {0, 1}
        BY DEF Charged
      <4>2. Cardinality(A \ Read(records)) <= crashes
        BY <2>6, <2>10, <4>1 DEF RecordInv
      <4>3. Lost' = (A \cup {n}) \ (Read(records) \cup {n})
        BY <2>4, <2>8, <2>9, <3>2
      <4> QED
        BY <2>6, <2>10, <4>2, <4>3
    <3> QED
      BY <3>1, <3>2
  <2>15. Cardinality(Lost') \in Nat
    BY <2>4, <2>8, <2>9, <2>10
  <2> QED
    BY <2>1, <2>6, <2>11, <2>12, <2>13, <2>14, <2>15 DEF RecordInv
<1> QED
  BY <1>3, <1>4

(* Beginning an append keeps it: what it loses was charged to a kill.       *)
LEMMA RecordAppend ==
    ASSUME RecordInv, NEW n \in Nat \ {Malformed}, append_iteration_record(n)
    PROVE  RecordInv'
<1> DEFINE l == [torn |-> TRUE, n |-> n]
           m == [torn |-> FALSE, n |-> IF LastTorn THEN Malformed ELSE n]
           a == [do |-> "append", of |-> n, with |-> m]
<1>1. /\ todo = <<>> /\ todo' = <<a>> /\ appended' = appended /\ crashes' = crashes
      /\ records' = IF LastTorn THEN records ELSE Append(records, l)
  BY DEF append_iteration_record, past, LastTorn
<1>2. LogType
  BY DEF RecordInv
<1>3. l \in Line /\ l.torn
  BY DEF Line
<1>4. a.do = "append" /\ a.of = n /\ a.with = m /\ m.n = IF LastTorn THEN Malformed ELSE n
  OBVIOUS
<1>5. \/ m = [torn |-> FALSE, n |-> Malformed] /\ LastTorn
      \/ m = [torn |-> FALSE, n |-> n] /\ ~LastTorn
  OBVIOUS
<1> HIDE DEF l, m, a
<1>6. ~Appending
  BY <1>1 DEF Appending, Steps
<1>7. todo'[1] = a /\ Len(todo') = 1 /\ Appending'
  BY <1>1, <1>4 DEF Appending, Steps
<1>8. LogType' /\ LastTorn' /\ Lost' = Lost
  <2>1. CASE LastTorn
    <3>1. records' = records
      BY <1>1, <2>1
    <3> QED
      BY <1>1, <1>2, <2>1, <3>1 DEF LogType, LastTorn, Lost, read_iteration_records
  <2>2. CASE ~LastTorn
    <3>1. PICK q : q = records'
      OBVIOUS
    <3>2. q = Append(records, l) /\ records \in Seq(Line)
      BY <1>1, <1>2, <2>2, <3>1 DEF LogType
    <3>3. q \in Seq(Line) /\ q # <<>> /\ q[Len(q)] = l /\ Read(q) = Read(records)
      BY <1>3, <3>2, ReadTorn
    <3>4. LogType' /\ LastTorn'
      BY <1>1, <1>2, <1>3, <3>1, <3>3 DEF LogType, LastTorn
    <3>5. Lost' = Lost
      BY <1>1, <3>1, <3>3 DEF Lost, Read, read_iteration_records
    <3> QED
      BY <3>4, <3>5
  <2> QED
    BY <2>1, <2>2
<1>9. AppendOK'
  BY <1>4, <1>5, <1>7, <1>8 DEF AppendOK
<1>10. Charged' = Charged
  <2>1. CASE LastTorn
    BY <1>4, <1>6, <1>7, <1>8, <2>1 DEF Charged
  <2>2. CASE ~LastTorn
    BY <1>4, <1>7, <2>2 DEF Charged
  <2> QED
    BY <2>1, <2>2
<1> QED
  BY <1>1, <1>8, <1>9, <1>10 DEF RecordInv

(* A kill keeps it: it tears at most the last line, and is counted.         *)
LEMMA RecordKill ==
    ASSUME RecordInv, Kill
    PROVE  RecordInv'
<1>1. todo' = <<>> /\ records' = records /\ appended' = appended /\ crashes' = crashes + 1
  BY DEF Kill, logs
<1>2. ~Appending'
  BY <1>1 DEF Appending, Steps
<1>3. LogType' /\ AppendOK' /\ Lost' = Lost
  BY <1>1, <1>2 DEF RecordInv, LogType, AppendOK, Lost, read_iteration_records
<1>4. Cardinality(Lost) \in Nat /\ crashes \in Nat
  <2>1. IsFiniteSet(Lost)
    BY FS_Subset DEF RecordInv, LogType, Lost
  <2> QED
    BY <2>1, FS_CardinalityType DEF RecordInv, LogType
<1>5. Charged \in {0, 1} /\ Charged' \in {0, 1}
  BY DEF Charged
<1> QED
  BY <1>1, <1>3, <1>4, <1>5 DEF RecordInv

(* RecordInv always holds.                                                  *)
LEMMA RecordInvariant == Spec => []RecordInv
<1>1. Init => RecordInv
  <2> SUFFICES ASSUME Init PROVE RecordInv
    OBVIOUS
  <2>1. records = <<>> /\ appended = {} /\ crashes = 0 /\ todo = <<>>
    BY DEF Init
  <2>2. LogType /\ ~LastTorn /\ Lost = {} /\ ~Appending
    BY <2>1, FS_EmptySet DEF LogType, LastTorn, Lost, Appending, Steps
  <2>3. Cardinality(Lost) = 0 /\ Charged = 0 /\ AppendOK
    BY <2>2, FS_EmptySet DEF Charged, AppendOK
  <2> QED
    BY <2>1, <2>2, <2>3 DEF RecordInv
<1>2. IInv /\ RecordInv /\ [Next]_vars => RecordInv'
  <2> SUFFICES ASSUME IInv, RecordInv, [Next]_vars PROVE RecordInv'
    OBVIOUS
  <2>1. CASE FileStep
    BY <2>1, RecordStep
  <2>2. ASSUME NEW c \in Ids, NEW p \in Ids, NEW cursor,
               \/ create_root(c) \/ create_child(p, c, cursor)
               \/ Admit(c) \/ Slot(c) \/ Eliminate(c)
               \/ delete_unavailable_candidates(c) \/ reset_evolving_to_pending(c)
        PROVE  RecordInv'
    BY <2>2, CandidatesElsewhere, ElsewhereKeeps DEF OnCandidates
  <2>3. ASSUME NEW c \in Ids, save_statistics(c) PROVE RecordInv'
    BY <2>3, StatisticsElsewhere, ElsewhereKeeps
  <2>4. ASSUME NEW n \in 1 .. MaxRecords, append_iteration_record(n) PROVE RecordInv'
    <3>1. n \in Nat \ {Malformed}
      BY DiskAssumption DEF Malformed
    <3> QED
      BY <2>4, <3>1, RecordAppend
  <2>5. CASE Kill
    BY <2>5, RecordKill
  <2>6. CASE _load_all_from_disk \/ NextBootStep \/ UNCHANGED vars
    <3>1. Elsewhere
      BY <2>6 DEF _load_all_from_disk, NextBootStep, vars, logs, past, Elsewhere
    <3> QED
      BY <3>1, ElsewhereKeeps
  <2> QED
    BY <2>1, <2>2, <2>3, <2>4, <2>5, <2>6 DEF Next
<1> QED
  BY <1>1, <1>2, Invariant, PTL DEF Spec

(* A kill costs at most one iteration record whose append had returned: a   *)
(* record appended to a torn line is lost with it, and no later one is      *)
(* (append_iteration_record, read_iteration_records).                       *)
THEOREM RecordsAreKept == Spec => []RecordLoss
<1>1. RecordInv => RecordLoss
  <2> SUFFICES ASSUME RecordInv PROVE Cardinality(Lost) <= crashes
    BY DEF RecordLoss, Lost
  <2>1. IsFiniteSet(Lost)
    BY FS_Subset DEF RecordInv, LogType, Lost
  <2>2. Cardinality(Lost) \in Nat /\ crashes \in Nat
    BY <2>1, FS_CardinalityType DEF RecordInv, LogType
  <2>3. Charged \in {0, 1}
    BY DEF Charged
  <2> QED
    BY <2>2, <2>3 DEF RecordInv
<1> QED
  BY <1>1, RecordInvariant, PTL

-----------------------------------------------------------------------------
(* The statistics. statistics.json says what the cache says, or the last    *)
(* write of the operation in progress will make it so.                      *)
Saving == 1 \in Steps /\ todo[Len(todo)].do = "stats"
SavedOrSaving ==
    boot # "down" =>
      /\ \A i \in Steps : todo[i].do = "stats" => Saving
      /\ IF Saving THEN todo[Len(todo)].with = Readable(stats)
         ELSE RootOf(statsFile) = stats

(* An operation on candidates keeps that,                                   *)
LEMMA CandidatesSave ==
    ASSUME IInv, IInv', SavedOrSaving, OnCandidates
    PROVE  SavedOrSaving'
<1>1. ~Saving /\ ~Saving'
  <2>1. IsList(todo')
    BY DEF IInv, TypeInv
  <2>2. Steps = {}
    BY DEF OnCandidates, Steps
  <2>3. 1 \in Steps' => Len(todo') \in Steps'
    BY <2>1 DEF Steps, IsList
  <2> QED
    BY <2>2, <2>3 DEF Saving, OnCandidates
<1> QED
  BY <1>1 DEF SavedOrSaving, OnCandidates

(* and so does a file write.                                                *)
LEMMA FileStepSaves ==
    ASSUME IInv, SavedOrSaving, FileStep
    PROVE  SavedOrSaving'
<1>1. boot # "down" /\ IsList(todo) /\ todo # <<>> /\ KindOK(1)
  <2>1. boot # "down" /\ IsList(todo) /\ todo # <<>> /\ WriteInv
    BY DEF FileStep, IInv, TypeInv
  <2>2. 1 \in Steps
    BY <2>1, TailOfList DEF Steps
  <2> QED
    BY <2>1, <2>2 DEF WriteInv, StepsOK
<1>2. CASE todo' = todo /\ statsFile' = statsFile /\ stats' = stats /\ boot' = boot
  BY <1>2 DEF SavedOrSaving, Saving, Steps
<1>3. CASE /\ GoesOn /\ stats' = stats
           /\ IF todo[1].do = "stats" THEN statsFile' = todo[1].with ELSE statsFile' = statsFile
  <2>1. /\ 1 \in Steps /\ Len(todo) \in Nat \ {0} /\ Len(todo') = Len(todo) - 1
        /\ todo' # <<>> => 1 \in Steps' /\ todo'[Len(todo')] = todo[Len(todo)]
        /\ \A i \in Steps' : i + 1 \in Steps /\ todo'[i] = todo[i + 1]
        /\ todo' # <<>> <=> Steps' # {}
    BY <1>1, <1>3, Rest
  <2>2. CASE todo' # <<>>
    <3>1. Saving' <=> Saving
      BY <2>1, <2>2 DEF Saving
    <3>2. ~Saving => todo[1].do # "stats"
      BY <1>1, <2>1 DEF SavedOrSaving
    <3> QED
      BY <1>1, <1>3, <2>1, <2>2, <3>1, <3>2 DEF SavedOrSaving
  <2>3. CASE todo' = <<>>
    <3>1. Len(todo) = 1 /\ ~Saving'
      <4>1. Len(todo') = 0
        BY <2>3
      <4> QED
        BY <2>1, <2>3, <4>1 DEF Saving
    <3>2. RootOf(statsFile') = stats
      <4>1. CASE todo[1].do = "stats"
        <5>1. Saving
          BY <2>1, <3>1, <4>1 DEF Saving
        <5>2. statsFile' = Readable(stats)
          BY <1>1, <1>3, <3>1, <4>1, <5>1 DEF SavedOrSaving
        <5> QED
          BY <5>2, ReadableIsNot DEF RootOf
      <4>2. CASE todo[1].do # "stats"
        BY <1>1, <1>3, <3>1, <4>2 DEF SavedOrSaving, Saving
      <4> QED
        BY <4>1, <4>2
    <3> QED
      BY <1>3, <2>1, <2>3, <3>1, <3>2 DEF SavedOrSaving
  <2> QED
    BY <2>2, <2>3
<1> QED
  BY <1>1, <1>2, <1>3, FileStepCases DEF GoesOn

(* It always holds.                                                         *)
LEMMA StatisticsInvariant == Spec => [](IInv /\ SavedOrSaving)
<1>1. Init => SavedOrSaving
  BY DEF Init, SavedOrSaving, Saving, Steps, RootOf
<1>2. IInv /\ IInv' /\ SavedOrSaving /\ [Next]_vars => SavedOrSaving'
  <2> SUFFICES ASSUME IInv, IInv', SavedOrSaving, [Next]_vars PROVE SavedOrSaving'
    OBVIOUS
  <2>1. CASE FileStep
    BY <2>1, FileStepSaves
  <2>2. ASSUME NEW c \in Ids, NEW p \in Ids, NEW cursor,
               \/ create_root(c) \/ create_child(p, c, cursor)
               \/ Admit(c) \/ Slot(c) \/ Eliminate(c)
               \/ delete_unavailable_candidates(c) \/ reset_evolving_to_pending(c)
        PROVE  SavedOrSaving'
    BY <2>2, CandidatesElsewhere, CandidatesSave
  <2>3. ASSUME NEW c \in Ids, save_statistics(c) PROVE SavedOrSaving'
    <3> DEFINE a == [do |-> "stats", of |-> c, with |-> Unreadable]
               b == [do |-> "stats", of |-> c, with |-> Readable(c)]
    <3>1. todo' = <<a, b>> /\ stats' = c /\ a.do = "stats" /\ b.do = "stats" /\ b.with = Readable(c)
      BY <2>3 DEF save_statistics
    <3> HIDE DEF a, b
    <3>2. Len(todo') = 2 /\ todo'[1] = a /\ todo'[2] = b
      BY <3>1
    <3>3. Saving'
      BY <3>1, <3>2 DEF Saving, Steps
    <3> QED
      BY <3>1, <3>2, <3>3 DEF SavedOrSaving
  <2>4. ASSUME NEW n \in 1 .. MaxRecords, append_iteration_record(n) PROVE SavedOrSaving'
    <3>1. PICK l : /\ todo' = <<l>> /\ l.do = "append" /\ todo = <<>> /\ boot # "down"
                   /\ stats' = stats /\ statsFile' = statsFile
      BY <2>4 DEF append_iteration_record, caches
    <3>2. Len(todo') = 1 /\ todo'[1] = l /\ Steps = {} /\ Steps' = {1}
      BY <3>1 DEF Steps
    <3>3. ~Saving /\ ~Saving'
      BY <3>1, <3>2 DEF Saving
    <3> QED
      BY <3>1, <3>2, <3>3 DEF SavedOrSaving
  <2>5. CASE Kill
    BY <2>5 DEF Kill, SavedOrSaving
  <2>6. CASE _load_all_from_disk
    <3>1. todo' = <<>> /\ stats' = RootOf(statsFile')
      BY <2>6 DEF _load_all_from_disk, IInv, TypeInv
    <3>2. Steps' = {}
      BY <3>1 DEF Steps
    <3> QED
      BY <3>1, <3>2 DEF SavedOrSaving, Saving
  <2>7. CASE NextBootStep \/ UNCHANGED vars
    <3>1. /\ todo' = todo /\ stats' = stats /\ statsFile' = statsFile
          /\ boot # "down" \/ boot' = boot
      BY <2>7 DEF NextBootStep, vars, caches
    <3> QED
      BY <3>1 DEF SavedOrSaving, Saving, Steps
  <2> QED
    BY <2>1, <2>2, <2>3, <2>4, <2>5, <2>6, <2>7 DEF Next
<1> QED
  BY <1>1, <1>2, Invariant, PTL DEF Spec

(* Every operation of the store writes through: when it has returned, a     *)
(* launch would load exactly what the caches say, candidates and statistics *)
(* (update_summary_scores, set_state, create_child, delete, save_statistics *)
(* and their file writes).  The program awaits only between operations, so  *)
(* a kill at an await loses nothing.                                        *)
THEOREM FilesFollowCaches == Spec => []WriteThrough
<1>1. IInv /\ SavedOrSaving => WriteThrough
  <2> SUFFICES ASSUME IInv, SavedOrSaving, todo = <<>>, boot # "down"
               PROVE  Loaded(dirs) = mem /\ RootOf(statsFile) = stats
    BY DEF WriteThrough
  <2>1. Loaded(dirs) = mem
    BY QuietIsLoaded DEF Quiet
  <2>2. ~Saving
    BY DEF Saving, Steps
  <2> QED
    BY <2>1, <2>2 DEF SavedOrSaving
<1> QED
  BY <1>1, StatisticsInvariant, PTL

-----------------------------------------------------------------------------
(* The contract of the interface. The population and the one before, as the *)
(* contract sees them.                                                      *)
Pop == IF boot = "down" THEN Loaded(dirs) ELSE mem
Prev == IF boot = "down" THEN Loaded(dirs) ELSE IF todo = <<>> THEN mem ELSE before

(* The contract is stated with the same operations on store values.         *)
LEMMA ContractOperators ==
    /\ \A s, c : Contract!CreateRoot(s, c) = CreateRoot(s, c)
    /\ \A s, p, c, cursor : Contract!CreateChild(s, p, c, cursor) = CreateChild(s, p, c, cursor)
    /\ \A s, C : Contract!Delete(s, C) = Delete(s, C)
    /\ \A s, C, st : Contract!SetState(s, C, st) = SetState(s, C, st)
    /\ \A s, c, cursor : Contract!SetProgress(s, c, cursor) = SetProgress(s, c, cursor)
    /\ \A s, c, v : Contract!UpdateScores(s, c, v) = UpdateScores(s, c, v)
    /\ Contract!CandidateState = CandidateState /\ Contract!EmptyStore = EmptyStore
<1>1. \A s, c, r : Contract!Add(s, c, r) = Add(s, c, r)
  BY DEF Contract!Add, Add
<1>2. \A s, c : Contract!CreateRoot(s, c) = CreateRoot(s, c)
  BY <1>1 DEF Contract!CreateRoot, CreateRoot, Contract!NoCandidate, NoCandidate,
              Contract!StartCursor, StartCursor
<1>3. \A s, p, c, cursor : Contract!CreateChild(s, p, c, cursor) = CreateChild(s, p, c, cursor)
  BY <1>1 DEF Contract!CreateChild, CreateChild
<1>4. \A s, C : Contract!Delete(s, C) = Delete(s, C)
  BY DEF Contract!Delete, Delete
<1>5. \A s, C, st : Contract!SetState(s, C, st) = SetState(s, C, st)
  BY DEF Contract!SetState, SetState
<1>6. \A s, c, v : Contract!UpdateScores(s, c, v) = UpdateScores(s, c, v)
  BY DEF Contract!UpdateScores, UpdateScores
<1>7. Contract!CandidateState = CandidateState /\ Contract!EmptyStore = EmptyStore
  BY DEF Contract!CandidateState, CandidateState, Contract!EmptyStore, EmptyStore
<1>8. \A s, c, cursor : Contract!SetProgress(s, c, cursor) = SetProgress(s, c, cursor)
  BY DEF Contract!SetProgress, SetProgress
<1> QED
  BY <1>2, <1>3, <1>4, <1>5, <1>6, <1>7, <1>8

(* Every operation has something to write.                                  *)
LEMMA NotEmpty ==
    ASSUME NEW c, NEW p, NEW s
    PROVE  /\ _write_meta_to_disk(c, s) # <<>> /\ _write_summary_to_disk(c, s) # <<>>
           /\ <<>> \o <<rmtree(c)>> # <<>>
           /\ _write_meta_to_disk(p, s) \o <<rmtree(c)>> # <<>>
           /\ NewFiles(c) \o _write_meta_to_disk(c, s) \o _write_summary_to_disk(c, s) # <<>>
           /\ NewFiles(c) \o _write_meta_to_disk(c, s) \o _write_summary_to_disk(c, s)
                \o _write_meta_to_disk(p, s) # <<>>
<1>1. _write_meta_to_disk(c, s) # <<>> /\ _write_summary_to_disk(c, s) # <<>>
  BY DEF _write_meta_to_disk, _write_summary_to_disk
<1>2. <<>> \o <<rmtree(c)>> # <<>>
  <2> DEFINE w == <<>> \o <<rmtree(c)>>
  <2>1. Len(w) = 1
    BY DeleteWrites
  <2> HIDE DEF w
  <2>2. w # <<>>
    BY <2>1
  <2> QED
    BY <2>2 DEF w
<1>3. _write_meta_to_disk(p, s) \o <<rmtree(c)>> # <<>>
  <2> DEFINE w == _write_meta_to_disk(p, s) \o <<rmtree(c)>>
  <2>1. RemovesFiles(w, p, c, s)
    BY DeleteWrites
  <2> HIDE DEF w
  <2>2. Len(w) = 3
    BY <2>1 DEF RemovesFiles
  <2>3. w # <<>>
    BY <2>2
  <2> QED
    BY <2>3 DEF w
<1>4. NewFiles(c) \o _write_meta_to_disk(c, s) \o _write_summary_to_disk(c, s) # <<>>
  <2> DEFINE w == NewFiles(c) \o _write_meta_to_disk(c, s) \o _write_summary_to_disk(c, s)
  <2>1. Len(w) = 7
    BY CreateRootWrites
  <2> HIDE DEF w
  <2>2. w # <<>>
    BY <2>1
  <2> QED
    BY <2>2 DEF w
<1>5. NewFiles(c) \o _write_meta_to_disk(c, s) \o _write_summary_to_disk(c, s)
        \o _write_meta_to_disk(p, s) # <<>>
  <2> DEFINE w == NewFiles(c) \o _write_meta_to_disk(c, s) \o _write_summary_to_disk(c, s)
                    \o _write_meta_to_disk(p, s)
  <2>1. Len(w) = 9
    BY CreateChildWrites
  <2> HIDE DEF w
  <2>2. w # <<>>
    BY <2>1
  <2> QED
    BY <2>2 DEF w
<1> QED
  BY <1>1, <1>2, <1>3, <1>4, <1>5

(* The first step of an operation is the step of the contract,              *)
LEMMA OperationBecomes ==
    ASSUME NEW s, NEW w, w # <<>>, Operation(s, w)
    PROVE  Contract!Becomes(s) /\ Pop = mem
BY DEF Operation, Contract!Becomes, Pop

(* for the operations of the optimizer, whose effect the contract allows.   *)
LEMMA ContractCandidates ==
    ASSUME IInv, NEW c \in Ids, NEW p \in Ids, NEW cursor,
           \/ create_root(c) \/ (cursor \in Cursors /\ create_child(p, c, cursor))
           \/ Admit(c) \/ Slot(c) \/ Eliminate(c)
           \/ delete_unavailable_candidates(c) \/ reset_evolving_to_pending(c)
    PROVE  Contract!Next
<1>1. \A d \in nursery : d \in DOMAIN mem
  BY DEF IInv, TypeInv
<1>2. ASSUME create_root(c) PROVE Contract!Next
  <2>1. /\ Operation(CreateRoot(mem, c), NewFiles(c) \o _write_meta_to_disk(c, CreateRoot(mem, c))
                                \o _write_summary_to_disk(c, CreateRoot(mem, c)))
        /\ c \notin DOMAIN mem
    BY <1>2 DEF create_root, NewFiles, Fresh
  <2>2. Contract!Becomes(CreateRoot(mem, c)) /\ Pop = mem
    BY <2>1, NotEmpty, OperationBecomes
  <2>3. Contract!create_root(c)
    BY <2>1, <2>2, ContractOperators DEF Contract!create_root, Pop
  <2> QED
    BY <2>3 DEF Contract!Next
<1>3. ASSUME cursor \in Cursors, create_child(p, c, cursor) PROVE Contract!Next
  <2> DEFINE s == CreateChild(mem, p, c, cursor)
  <2>1. /\ Operation(s, NewFiles(c) \o _write_meta_to_disk(c, s)
                                \o _write_summary_to_disk(c, s) \o _write_meta_to_disk(p, s))
        /\ c \notin DOMAIN mem /\ p \in DOMAIN mem
    BY <1>3 DEF create_child, NewFiles, Fresh
  <2>2. Contract!Becomes(s) /\ Pop = mem
    <3> HIDE DEF s
    <3> QED
      BY <2>1, NotEmpty, OperationBecomes
  <2>3. Contract!create_child(p, c, cursor)
    BY <2>1, <2>2, ContractOperators DEF Contract!create_child, Pop
  <2> QED
    BY <1>3, <2>3 DEF Contract!Next
<1>4. ASSUME NEW st \in CandidateState, set_state(c, st), c \in DOMAIN mem PROVE Contract!Next
  <2>1. Contract!Becomes(SetState(mem, {c}, st)) /\ Pop = mem
    BY <1>4, NotEmpty, OperationBecomes DEF set_state
  <2>2. Contract!set_state(c, st)
    BY <1>4, <2>1, ContractOperators DEF Contract!set_state, Pop
  <2> QED
    BY <2>2, ContractOperators DEF Contract!Next
<1>5. ASSUME NEW v \in ScoreLists, update_summary_scores(c, v), c \in DOMAIN mem
      PROVE  Contract!Next
  <2>1. Contract!Becomes(UpdateScores(mem, c, v)) /\ Pop = mem
    BY <1>5, NotEmpty, OperationBecomes DEF update_summary_scores
  <2>2. Contract!update_summary_scores(c, v)
    BY <1>5, <2>1, ContractOperators DEF Contract!update_summary_scores, Pop
  <2> QED
    BY <2>2 DEF Contract!Next
<1>6. ASSUME delete(c), c \in DOMAIN mem PROVE Contract!Next
  <2>1. PICK q : q = mem[c].parent
    OBVIOUS
  <2>2. PICK s, w : /\ Operation(s, w) /\ s = Delete(mem, {c})
                    /\ w \in {_write_meta_to_disk(q, s) \o <<rmtree(c)>>, <<>> \o <<rmtree(c)>>}
    BY <1>6, <2>1 DEF delete
  <2>3. w # <<>>
    BY <2>2, NotEmpty
  <2>4. Contract!Becomes(Delete(mem, {c})) /\ Pop = mem
    BY <2>2, <2>3, OperationBecomes
  <2>5. Contract!delete(c)
    BY <1>6, <2>4, ContractOperators DEF Contract!delete, Pop
  <2> QED
    BY <2>5 DEF Contract!Next
<1>7. ASSUME retire(c), c \in DOMAIN mem PROVE Contract!Next
  BY <1>4, <1>6, <1>7 DEF retire, CandidateState
<1>8. ASSUME Admit(c) PROVE Contract!Next
  BY <1>1, <1>4, <1>5, <1>8 DEF Admit, CandidateState
<1>9. ASSUME NEW to \in Cursors, set_progress(c, to), c \in DOMAIN mem PROVE Contract!Next
  <2>1. Contract!Becomes(SetProgress(mem, c, to)) /\ Pop = mem
    BY <1>9, NotEmpty, OperationBecomes DEF set_progress
  <2>2. Contract!set_progress(c, to)
    BY <1>9, <2>1, ContractOperators DEF Contract!set_progress, Pop
  <2> QED
    BY <2>2 DEF Contract!Next
<1>10. ASSUME Slot(c) PROVE Contract!Next
  BY <1>4, <1>10, <1>9 DEF Slot, CandidateState
<1>11. ASSUME Eliminate(c) PROVE Contract!Next
  BY <1>1, <1>7, <1>11 DEF Eliminate, PoolByState
<1>12. ASSUME delete_unavailable_candidates(c) PROVE Contract!Next
  BY <1>6, <1>12 DEF delete_unavailable_candidates, PoolByState
<1>13. ASSUME reset_evolving_to_pending(c) PROVE Contract!Next
  BY <1>4, <1>13 DEF reset_evolving_to_pending, PoolByState, CandidateState
<1> QED
  BY <1>2, <1>3, <1>8, <1>10, <1>11, <1>12, <1>13

(* A directory loaded in the middle of an operation holds the candidate     *)
(* from before or from after it.                                            *)
LEMMA OldOrNew ==
    ASSUME IInv, todo # <<>>, boot # "down", NEW c \in DOMAIN Loaded(dirs)
    PROVE  \/ c \in DOMAIN mem /\ Loaded(dirs)[c] = mem[c]
           \/ c \in DOMAIN before /\ Loaded(dirs)[c] = before[c]
           \/ /\ c \in DOMAIN before \ DOMAIN mem
              /\ Loaded(dirs)[c] = [before[c] EXCEPT !.scores = <<>>]
<1>1. /\ InterruptInv /\ TypeInv
      /\ \A d \in DOMAIN mem : mem[d] \in Candidate
      /\ \A d \in DOMAIN before : before[d] \in Candidate
  BY DEF IInv, TypeInv, IsStore
<1>2. PICK m, v, r : m = dirs[c].meta[1] /\ v = Scores(dirs[c]) /\ r = Loaded(dirs)[c]
  OBVIOUS
<1>3. c \in DOMAIN dirs /\ Known(c) /\ r = [m EXCEPT !.scores = v]
  BY <1>1, <1>2, LoadedStore
<1>4. \A k \in Candidate : /\ m = MetaOf(k) /\ v = k.scores => r = k
                           /\ m = MetaOf(k) /\ v = <<>> => r = [k EXCEPT !.scores = <<>>]
  <2> SUFFICES ASSUME NEW k \in Candidate, m = MetaOf(k)
               PROVE  /\ v = k.scores => r = k
                      /\ v = <<>> => r = [k EXCEPT !.scores = <<>>]
    OBVIOUS
  <2>1. v = k.scores => r = k
    BY <1>3, RecordFields
  <2>2. v = <<>> => r = [k EXCEPT !.scores = <<>>]
    BY <1>3 DEF MetaOf, Candidate
  <2> QED
    BY <2>1, <2>2
<1>5. \/ c \in DOMAIN mem /\ m = MetaOf(mem[c])
      \/ c \in DOMAIN before /\ m = MetaOf(before[c])
  BY <1>1, <1>2, <1>3 DEF InterruptInv, OldOrNewMeta
<1>6. CASE c \in DOMAIN mem /\ c \in DOMAIN before
  <2>1. v = mem[c].scores \/ v = before[c].scores
    BY <1>1, <1>2, <1>3, <1>6 DEF InterruptInv, OldOrNewScores
  <2>2. MetaOf(mem[c]) = MetaOf(before[c]) \/ mem[c].scores = before[c].scores
    BY <1>1, <1>6 DEF InterruptInv, OneFile
  <2>3. r = mem[c] \/ r = before[c]
    BY <1>1, <1>4, <1>5, <1>6, <2>1, <2>2
  <2> QED
    BY <1>2, <1>6, <2>3
<1>7. CASE c \in DOMAIN mem /\ c \notin DOMAIN before
  <2>1. v = mem[c].scores
    BY <1>1, <1>2, <1>3, <1>7 DEF InterruptInv, OldOrNewScores
  <2> QED
    BY <1>1, <1>2, <1>4, <1>5, <1>7, <2>1
<1>8. CASE c \notin DOMAIN mem /\ c \in DOMAIN before
  <2>1. v = <<>> \/ v = before[c].scores
    BY <1>1, <1>2, <1>3, <1>8 DEF InterruptInv, OldOrNewScores
  <2> QED
    BY <1>1, <1>2, <1>4, <1>5, <1>8, <2>1
<1> QED
  BY <1>5, <1>6, <1>7, <1>8

(* The same Cardinality.                                                    *)
LEMMA ContractCounts == ASSUME NEW S PROVE Contract!Cardinality(S) = Cardinality(S)
BY DEF Contract!Cardinality, Cardinality

(* A kill loses at most one candidate that was there before and after the   *)
(* operation it interrupts, and leaves every other as it was before or      *)
(* after.                                                                   *)
LEMMA ContractKill ==
    ASSUME IInv, Kill
    PROVE  Contract!crash
<1>1. /\ boot # "down" /\ boot' = "down" /\ dirs' = dirs /\ TypeInv
      /\ IsStore(mem) /\ IsStore(before)
  BY DEF Kill, IInv, TypeInv
<1>2. Pop' = Loaded(dirs) /\ Prev' = Loaded(dirs)
  BY <1>1 DEF Pop, Prev
<1>3. Pop = mem /\ Prev = IF todo = <<>> THEN mem ELSE before
  BY <1>1 DEF Pop, Prev
<1> DEFINE l == Loaded(dirs)
           lost == (DOMAIN Pop \cap DOMAIN Prev) \ DOMAIN l
<1>4. \A c \in DOMAIN l :
        \/ c \in DOMAIN Pop /\ l[c] = Pop[c]
        \/ c \in DOMAIN Prev /\ l[c] = Prev[c]
        \/ c \in DOMAIN Prev \ DOMAIN Pop /\ l[c] = [Prev[c] EXCEPT !.scores = <<>>]
  <2>1. CASE todo = <<>>
    <3>1. l = mem
      BY <1>1, <2>1, QuietIsLoaded DEF Quiet
    <3> QED
      BY <1>3, <3>1
  <2>2. CASE todo # <<>>
    BY <1>1, <1>3, <2>2, OldOrNew
  <2> QED
    BY <2>1, <2>2
<1>5. Cardinality(lost) <= 1
  <2>1. CASE todo = <<>>
    <3>1. l = mem
      BY <1>1, <2>1, QuietIsLoaded DEF Quiet
    <3>2. lost = {}
      BY <1>3, <2>1, <3>1
    <3> QED
      BY <3>2, FS_EmptySet
  <2>2. CASE todo # <<>>
    <3>1. \A c \in lost : c = todo[1].of
      <4> SUFFICES ASSUME NEW c \in lost PROVE c = todo[1].of
        OBVIOUS
      <4>1. c \in DOMAIN mem \cap DOMAIN before /\ c \notin DOMAIN l
        BY <1>3, <2>2
      <4>2. c \in DOMAIN dirs /\ (Known(c) \/ Writing(1, c, "meta"))
        BY <2>2, <4>1 DEF IInv, InterruptInv, Lossy
      <4>3. ~Known(c)
        BY <1>1, <4>1, <4>2, LoadedStore
      <4> QED
        BY <4>2, <4>3 DEF Writing
    <3>2. lost \in SUBSET {todo[1].of}
      <4> HIDE DEF lost
      <4> QED
        BY <3>1
    <3>3. IsFiniteSet({todo[1].of}) /\ Cardinality({todo[1].of}) = 1
      BY FS_Singleton
    <3> HIDE DEF lost
    <3> QED
      BY <3>2, <3>3, FS_Subset
  <2> QED
    BY <2>1, <2>2
<1>6. DOMAIN l \subseteq DOMAIN Pop \cup DOMAIN Prev
  BY <1>4
<1> HIDE DEF l
<1>7. /\ DOMAIN Pop' \subseteq DOMAIN Pop \cup DOMAIN Prev
      /\ Contract!Cardinality((DOMAIN Pop \cap DOMAIN Prev) \ DOMAIN Pop') <= 1
      /\ \A c \in DOMAIN Pop' :
           \/ c \in DOMAIN Pop /\ Pop'[c] = Pop[c]
           \/ c \in DOMAIN Prev /\ Pop'[c] = Prev[c]
           \/ c \in DOMAIN Prev \ DOMAIN Pop /\ Pop'[c] = [Prev[c] EXCEPT !.scores = <<>>]
      /\ Prev' = Pop'
  BY <1>2, <1>4, <1>5, <1>6, ContractCounts DEF l
<1> QED
  BY <1>7 DEF Contract!crash, Pop, Prev

(* Every step is a step of the contract or invisible to it.                 *)
LEMMA ContractStep ==
    ASSUME IInv, [Next]_vars
    PROVE  [Contract!Next]_(Contract!vars)
<1>1. \A p, q : Pop' = p /\ Prev' = q /\ p = Pop /\ q = Prev => UNCHANGED Contract!vars
  BY DEF Contract!vars, Pop, Prev
<1>2. \A p : Pop' = Pop /\ Prev' = Pop => Contract!Next
  BY DEF Contract!Next, Contract!returned, Pop, Prev
<1>3. CASE FileStep
  <2>1. /\ boot # "down" /\ boot' = boot /\ mem' = mem /\ todo # <<>>
        /\ before' = IF todo' = <<>> THEN EmptyStore ELSE before
    BY <1>3 DEF FileStep, IInv, TypeInv, caches
  <2>2. Pop' = Pop /\ Pop = mem
    BY <2>1 DEF Pop
  <2>3. CASE todo' = <<>>
    <3>1. Prev' = mem
      BY <2>1, <2>3 DEF Prev
    <3> QED
      BY <1>2, <2>2, <3>1
  <2>4. CASE todo' # <<>>
    <3>1. Prev' = Prev
      BY <2>1, <2>4 DEF Prev
    <3> QED
      BY <1>1, <2>2, <3>1
  <2> QED
    BY <2>3, <2>4
<1>4. ASSUME NEW c \in Ids, NEW p \in Ids, NEW cursor,
             \/ create_root(c) \/ (cursor \in Cursors /\ create_child(p, c, cursor))
             \/ Admit(c) \/ Slot(c) \/ Eliminate(c)
             \/ delete_unavailable_candidates(c) \/ reset_evolving_to_pending(c)
      PROVE  Contract!Next
  BY <1>4, ContractCandidates
<1>5. ASSUME NEW c, save_statistics(c) \/ append_iteration_record(c) PROVE Contract!Next
  <2>1. /\ boot = "up" /\ todo = <<>> /\ mem' = mem /\ before' = mem /\ boot' = boot
    BY <1>5 DEF save_statistics, append_iteration_record, caches
  <2>2. Pop' = Pop /\ Prev' = Pop
    BY <2>1 DEF Pop, Prev
  <2> QED
    BY <1>2, <2>2
<1>6. CASE Kill
  BY <1>6, ContractKill DEF Contract!Next
<1>7. CASE _load_all_from_disk
  <2>1. /\ boot = "down" /\ boot' = "purge" /\ mem' = Loaded(dirs) /\ todo' = <<>>
    BY <1>7 DEF _load_all_from_disk, IInv, TypeInv
  <2>2. Pop' = Pop /\ Prev' = Prev
    BY <2>1 DEF Pop, Prev
  <2> QED
    BY <1>1, <2>2
<1>8. CASE NextBootStep
  <2>1. /\ boot # "down" /\ boot' # "down" /\ mem' = mem /\ todo' = todo /\ before' = before
    BY <1>8 DEF NextBootStep, caches
  <2>2. Pop' = Pop /\ Prev' = Prev
    BY <2>1 DEF Pop, Prev
  <2> QED
    BY <1>1, <2>2
<1>9. CASE UNCHANGED vars
  <2>1. boot' = boot /\ mem' = mem /\ todo' = todo /\ before' = before /\ dirs' = dirs
    BY <1>9 DEF vars, caches
  <2>2. Pop' = Pop /\ Prev' = Prev
    BY <2>1 DEF Pop, Prev
  <2> QED
    BY <1>1, <2>2
<1> QED
  BY <1>3, <1>4, <1>5, <1>6, <1>7, <1>8, <1>9 DEF Next

(* The files implement the contract of the store interface, StoreContract,  *)
(* with kills in the middle of any operation: the operation has happened or *)
(* has not, and at most the one candidate whose meta.json was being written *)
(* is lost.                                                                 *)
THEOREM FilesKeepTheContract == Spec => ContractSpec
<1>1. Init => Contract!Init
  BY ContractOperators DEF Init, Contract!Init
<1>2. IInv /\ [Next]_vars => [Contract!Next]_(Contract!vars)
  BY ContractStep
<1> QED
  BY <1>1, <1>2, Invariant, PTL DEF Spec, ContractSpec, Contract!Spec
=============================================================================

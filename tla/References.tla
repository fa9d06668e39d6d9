------------------------------ MODULE References ------------------------------
(***************************************************************************)
(* The numbers of the items of a project.  Epics, stories, tasks and       *)
(* issues are numbered from one sequence of the project, which a rollback  *)
(* does not set back, and a row of Reference leads from a number to its    *)
(* item for the links in texts.  An import from a tracker, and items       *)
(* stored from a dump, bring numbers of their own and set the sequence     *)
(* past them.                                                              *)
(***************************************************************************)
EXTENDS Integers, FiniteSets, FiniteSetsExt

\* Kinds: the kinds of items created, of "epic", "story", "task" and "issue".
\* MaxNumber bounds, for each project, the numbers that it gives and that it is brought.
CONSTANTS Items, Projects, Kinds, MaxNumber, None

ASSUME NumbersAssumption == MaxNumber \in [Projects -> Nat]

VARIABLES
  items,       \* the committed rows of the items
  sequence,    \* the last number each project has given
  references,  \* the committed rows of Reference: project, number and item
  jobs,        \* what a request, or the importer, is doing to an item
  import,      \* the import of a tracker into a project of its own
  raced,       \* history: projects that gave a number while another job set their sequence
  early,       \* history: items, and the project that numbered them too early: before its
               \* sequence was past the tracker's numbers
  refused      \* history: projects where a row of Reference was refused

vars == <<items, sequence, references, jobs, import, raced, early, refused>>

Numbers == UNION {0..MaxNumber[p] : p \in Projects}      \* 0: no number yet

\* taken, a history of the row: the items of the project that had its number, or were about
\* to get it, when it came from outside.
Rows == [kind : Kinds, project : Projects, ref : Numbers, brought : {"no", "tracker", "dump"},
         taken : SUBSET Items]

Idle == [do |-> "nothing", kind |-> "none", project |-> None, number |-> 0, next |-> 0,
         step |-> "idle"]

Init ==
  /\ items = [i \in Items |-> None]
  /\ sequence = [p \in Projects |-> 0]
  /\ references = {}
  /\ jobs = [i \in Items |-> Idle]
  /\ import = [project |-> None, max |-> 0, next |-> 0, step |-> "none"]
  /\ raced = {}
  /\ early = {}
  /\ refused = {}

-----------------------------------------------------------------------------
Doing(i, do, step) == jobs[i].do = do /\ jobs[i].step = step

Free(i) == jobs[i].step = "idle"

In(p) == {i \in Items : items[i] # None /\ items[i].project = p}

\* Stories are created, and all items moved and stored, in a transaction: what it writes is
\* seen when it commits.  Tasks, issues and epics are created statement by statement, and so
\* is everything an importer creates.
Atomic(i) == jobs[i].do \in {"move", "store"} \/ (jobs[i].do = "create" /\ jobs[i].kind = "story")

\* An item is being stored with its number, or recalc_reference_counter has taken the value
\* below which it will not set the sequence.
Setting(p) ==
  \/ \E i \in Items : jobs[i].step \in {"brought", "advanced"} /\ jobs[i].project = p
  \/ import.step = "advanced" /\ import.project = p

ImportRuns(p) == import.project = p /\ import.step \notin {"none", "over"}

\* nextval: never rolled back.
NextValue(p, others) ==
  /\ sequence[p] < MaxNumber[p]
  /\ sequence' = [sequence EXCEPT ![p] = @ + 1]
  /\ raced' = IF others THEN raced \cup {p} ELSE raced

\* setval(GREATEST(nextval, new_value)), of which nextval was the step before.
SetMax_AsTold(p, next, new) == sequence' = [sequence EXCEPT ![p] = new]

SetMax(p, next, new) == sequence' = [sequence EXCEPT ![p] = Max({next, new})]

-----------------------------------------------------------------------------
(* A request of the API, or a step of the importer, that creates an item.  *)
Insert(i, do, kind, p) ==
  /\ Free(i) /\ items[i] = None
  /\ jobs' = [jobs EXCEPT ![i] = [Idle EXCEPT !.do = do, !.kind = kind, !.project = p,
                                       !.step = "inserted"]]
  /\ items' = IF do = "create" /\ kind = "story" THEN items
              ELSE [items EXCEPT ![i] = [kind |-> kind, project |-> p, ref |-> 0,
                                         brought |-> "no", taken |-> {}]]
  /\ UNCHANGED <<sequence, references, import, raced, early, refused>>

Create(i, kind, p) == Insert(i, "create", kind, p)

\* attach_sequence when the project of an item has changed.
Move_KeepsNumber(i, p) ==
  /\ Free(i) /\ items[i] # None
  /\ p # items[i].project
  /\ items' = [items EXCEPT ![i].project = p]
  /\ UNCHANGED <<sequence, references, jobs, import, raced, early, refused>>

Move(i, p) ==
  /\ Free(i) /\ items[i] # None
  /\ p # items[i].project
  /\ jobs' = [jobs EXCEPT ![i] = [Idle EXCEPT !.do = "move", !.kind = items[i].kind,
                                       !.project = p, !.step = "inserted"]]
  /\ UNCHANGED <<items, sequence, references, import, raced, early, refused>>

\* make_unique_reference_id.
TakeNumber(i) ==
  LET p == jobs[i].project IN
  /\ jobs[i].step = "inserted"
  /\ NextValue(p, Setting(p))
  /\ jobs' = [jobs EXCEPT ![i].number = sequence[p] + 1, ![i].step = "numbered"]
  /\ early' = IF ImportRuns(p) THEN early \cup {<<i, p>>} ELSE early
  /\ UNCHANGED <<items, references, import, refused>>

\* Reference.objects.create: the number is unique in the project, and a transaction that is
\* inserting it too is waited for.
Refused(i) == \E r \in references : r.project = jobs[i].project /\ r.ref = jobs[i].number

Contended(i) == \E j \in Items \ {i} : /\ jobs[j].step = "referred" /\ Atomic(j)
                                       /\ jobs[j].project = jobs[i].project
                                       /\ jobs[j].number = jobs[i].number

Refer(i) ==
  LET job == jobs[i] IN
  /\ job.step = "numbered"
  /\ ~ Refused(i) /\ ~ Contended(i)
  /\ jobs' = [jobs EXCEPT ![i].step = "referred"]
  /\ references' = IF Atomic(i) THEN references
                   ELSE references \cup {[project |-> job.project, ref |-> job.number, item |-> i]}
  /\ UNCHANGED <<items, sequence, import, raced, early, refused>>

\* The error ends the request; an item created without a transaction stays, with no number,
\* and the import of a tracker stops where it is.
Refuse(i) ==
  /\ jobs[i].step = "numbered"
  /\ Refused(i)
  /\ jobs' = [jobs EXCEPT ![i] = Idle]
  /\ refused' = refused \cup {jobs[i].project}
  /\ import' = IF jobs[i].do = "import" THEN [import EXCEPT !.step = "failed"] ELSE import
  /\ UNCHANGED <<items, sequence, references, raced, early>>

\* instance.save(update_fields=['ref']) and, of a transaction, the commit.
SaveNumber(i) ==
  LET job == jobs[i] IN
  /\ job.step = "referred"
  /\ items' = [items EXCEPT ![i] = [kind |-> job.kind, project |-> job.project,
                                    ref |-> job.number, brought |-> "no",
                                    taken |-> {}]]
  /\ references' = IF Atomic(i)
                   THEN references \cup {[project |-> job.project, ref |-> job.number, item |-> i]}
                   ELSE references
  /\ jobs' = [jobs EXCEPT ![i] = IF job.do = "import" THEN [job EXCEPT !.step = "saved"] ELSE Idle]
  /\ UNCHANGED <<sequence, import, raced, early, refused>>

\* The row of Reference has no key to the item: it stays.
Delete(i) ==
  /\ Free(i) /\ items[i] # None
  /\ items' = [items EXCEPT ![i] = None]
  /\ jobs' = [jobs EXCEPT ![i].step = "gone"]
  /\ UNCHANGED <<sequence, references, import, raced, early, refused>>

\* The process of a request dies: a transaction is rolled back.
Die(i) ==
  /\ jobs[i].step \notin {"idle", "gone", "saved"} /\ jobs[i].do # "import"
  /\ jobs' = [jobs EXCEPT ![i] = Idle]
  /\ UNCHANGED <<items, sequence, references, import, raced, early, refused>>

-----------------------------------------------------------------------------
(* The import of a tracker, in a project that it creates.                  *)
StartImport(p) ==
  /\ import.step = "none"
  /\ sequence[p] = 0 /\ \A i \in Items : jobs[i].project # p
  /\ import' = [import EXCEPT !.project = p, !.step = "items"]
  /\ UNCHANGED <<items, sequence, references, jobs, raced, early, refused>>

Importing == {i \in Items : jobs[i].do = "import"}

ImportItem(i, kind) ==
  /\ import.step = "items" /\ Importing = {}
  /\ Insert(i, "import", kind, import.project)

Stored(n) == {j \in In(import.project) : items[j].ref = n /\ items[j].brought = "dump"}

\* The update that puts the number of the tracker into the item it has just created.
\* A tracker has no number twice; an item stored from a dump may have it already.
BringNumber(i, n) ==
  /\ Doing(i, "import", "saved") /\ n <= MaxNumber[import.project]
  /\ \A j \in In(import.project) : items[j].brought = "tracker" => items[j].ref # n
  /\ items' = [items EXCEPT ![i].ref = n, ![i].brought = "tracker", ![i].taken = Stored(n)]
  /\ jobs' = [jobs EXCEPT ![i] = Idle]
  /\ early' = early \ {<<i, import.project>>}
  /\ UNCHANGED <<sequence, references, import, raced, refused>>

\* recalc_reference_counter: the greatest number of the stories, tasks and issues.
Counted_Nothing(p) == {}

Counted(p) == {items[i].ref : i \in {j \in In(p) : items[j].kind # "epic"}}

RecalcCount ==
  /\ import.step = "items" /\ Importing = {}
  /\ import' = [import EXCEPT !.max = Max(Counted(import.project) \cup {0}), !.step = "counted"]
  /\ UNCHANGED <<items, sequence, references, jobs, raced, early, refused>>

RecalcNext ==
  /\ import.step = "counted"
  /\ NextValue(import.project, Setting(import.project))
  /\ import' = [import EXCEPT !.next = sequence[import.project] + 1, !.step = "advanced"]
  /\ UNCHANGED <<items, references, jobs, early, refused>>

RecalcSet ==
  /\ import.step = "advanced"
  /\ SetMax(import.project, import.next, import.max)
  /\ import' = [import EXCEPT !.max = 0, !.next = 0, !.step = "over"]
  /\ UNCHANGED <<items, references, jobs, raced, early, refused>>

\* Any error of the tracker or of the data ends the import with a mail; its project stays.
ImportFails ==
  /\ import.step \in {"items", "counted"}
  /\ import' = [import EXCEPT !.max = 0, !.step = "failed"]
  /\ jobs' = [i \in Items |-> IF i \in Importing THEN Idle ELSE jobs[i]]
  /\ UNCHANGED <<items, sequence, references, raced, early, refused>>

-----------------------------------------------------------------------------
(* The import API stores one item of a dump in a project, with any number: *)
(* whether another item has it is not looked at.                           *)
Store(i, kind, p, n) ==
  /\ Free(i) /\ items[i] = None
  /\ jobs' = [jobs EXCEPT ![i] = [Idle EXCEPT !.do = "store", !.kind = kind, !.project = p,
                                       !.number = n, !.step = "brought"]]
  /\ UNCHANGED <<items, sequence, references, import, raced, early, refused>>

\* An item of a dump without a number is numbered by make_reference.
StoreUnnumbered(i, kind, p) ==
  /\ Free(i) /\ items[i] = None
  /\ jobs' = [jobs EXCEPT ![i] = [Idle EXCEPT !.do = "store", !.kind = kind, !.project = p,
                                       !.step = "inserted"]]
  /\ UNCHANGED <<items, sequence, references, import, raced, early, refused>>

OthersSetting(i) ==
  LET p == jobs[i].project IN
  \/ \E j \in Items \ {i} : jobs[j].step \in {"brought", "advanced"} /\ jobs[j].project = p
  \/ import.step = "advanced" /\ import.project = p

StoreNext(i) ==
  LET p == jobs[i].project IN
  /\ jobs[i].step = "brought"
  /\ NextValue(p, OthersSetting(i))
  /\ jobs' = [jobs EXCEPT ![i].next = sequence[p] + 1, ![i].step = "advanced"]
  /\ UNCHANGED <<items, references, import, early, refused>>

HadAlready(i, p, n) ==
  {j \in In(p) \ {i} : items[j].ref = n}
    \cup {j \in Items \ {i} : jobs[j].project = p /\ jobs[j].number = n}

StoreSet(i) ==
  LET job == jobs[i] IN
  /\ job.step = "advanced"
  /\ SetMax(job.project, job.next, job.number)
  /\ items' = [items EXCEPT ![i] = [kind |-> job.kind, project |-> job.project,
                                    ref |-> job.number, brought |-> "dump",
                                    taken |-> HadAlready(i, job.project, job.number)]]
  /\ jobs' = [jobs EXCEPT ![i] = Idle]
  /\ UNCHANGED <<references, import, raced, early, refused>>

-----------------------------------------------------------------------------
ItemNext(i) ==
  \/ \E kind \in Kinds, p \in Projects : Create(i, kind, p) \/ StoreUnnumbered(i, kind, p)
  \/ \E kind \in Kinds, p \in Projects : \E n \in 1..MaxNumber[p] : Store(i, kind, p, n)
  \/ \E p \in Projects : Move(i, p)
  \/ TakeNumber(i) \/ Refer(i) \/ Refuse(i) \/ SaveNumber(i) \/ StoreNext(i) \/ StoreSet(i)
  \/ Delete(i) \/ Die(i)

ImportNext ==
  \/ \E p \in Projects : StartImport(p)
  \/ \E i \in Items, kind \in Kinds : ImportItem(i, kind)
  \/ \E i \in Items, n \in Numbers \ {0} : BringNumber(i, n)
  \/ RecalcCount \/ RecalcNext \/ RecalcSet \/ ImportFails

Next == (\E i \in Items : ItemNext(i)) \/ ImportNext

Spec == Init /\ [][Next]_vars

-----------------------------------------------------------------------------
\* Two items of a project have one number only if one of them was stored from a dump, or
\* imported, with the number that the other one had, or one is an epic of an imported tracker,
\* which recalc_reference_counter does not count, or was numbered while the import was under
\* way or after it had failed, or the project gave a number while another job set its sequence.
NumbersAreUnique ==
  \A p \in Projects \ raced : \A i, j \in In(p) :
    i # j /\ items[i].ref = items[j].ref /\ items[i].ref # 0 =>
      \/ j \in items[i].taken \/ i \in items[j].taken
      \/ \E k \in {i, j} : \/ <<k, p>> \in early
                           \/ items[k].kind = "epic" /\ items[k].brought = "tracker"

\* The link to a number that Taiga gave leads to the item that has it and to no other,
\* wherever the item has been before.
LinksLeadHome ==
  \A i \in Items : items[i] # None /\ Free(i) /\ items[i].ref # 0 /\ items[i].brought = "no" =>
    {r.item : r \in {q \in references : q.project = items[i].project /\ q.ref = items[i].ref}}
      = {i}

\* An item is refused for its number only in a project that gave a number while another job
\* was setting its sequence.
RefusedOnlyAfterRace == refused \subseteq raced

=============================================================================

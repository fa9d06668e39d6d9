--------------------------- MODULE ReferencesProofs ---------------------------
(***************************************************************************)
(* Theorems about References for any number of items and projects: links   *)
(* lead home, and in a project that never gave a number while a job set    *)
(* its sequence, numbers are unique and none is refused.                   *)
(***************************************************************************)
EXTENDS References, WellFoundedInduction, TLAPS

ItemRows == [kind : Kinds, project : Projects, ref : Nat, brought : {"no", "tracker", "dump"},
             taken : SUBSET Items]

Jobs == [do : {"nothing", "create", "move", "store", "import"}, kind : Kinds \cup {"none"},
         project : Projects \cup {None}, number : Nat, next : Nat,
         step : {"idle", "inserted", "numbered", "referred", "saved", "brought", "advanced",
                 "gone"}]

Imports == [project : Projects \cup {None}, max : Nat, next : Nat,
            step : {"none", "items", "counted", "advanced", "over", "failed"}]

ReferenceRows == [project : Projects, ref : Nat, item : Items]

\* The types of the rows and jobs.
TypeInv ==
  /\ items \in [Items -> ItemRows \cup {None}]
  /\ sequence \in [Projects -> Nat]
  /\ references \subseteq ReferenceRows
  /\ jobs \in [Items -> Jobs]
  /\ import \in Imports

Given == {"numbered", "referred", "saved"}    \* with a number of the sequence
Bringing == {"brought", "advanced"}           \* with a number of a dump

\* What the steps of a job say about the rest of it, about its item and about the import.
JobOK(i) ==
  LET job == jobs[i] IN
  /\ job.step \in {"inserted"} \cup Given \cup Bringing => job.project \in Projects /\ job.kind \in Kinds
  /\ job.step \notin Given \cup Bringing => job.number = 0
  /\ job.step \in {"idle", "gone"} => job.do = "nothing" /\ job.project = None
  /\ job.step \in Bringing => job.do = "store" /\ items[i] = None
  /\ job.step = "saved" => /\ job.do = "import"
                           /\ items[i] \in ItemRows /\ items[i].project = job.project
  /\ job.do = "import" => /\ import.step = "items" /\ job.project = import.project
                          /\ items[i] # None => items[i].brought = "no"

JobInv ==
  /\ \A i \in Items : JobOK(i)
  /\ \A i, j \in Items : jobs[i].do = "import" /\ jobs[j].do = "import" => i = j

\* The items with numbers of a tracker are in the project of the import.
ImportInv ==
  /\ import.step # "none" => import.project \in Projects
  /\ \A i \in Items : items[i] # None /\ items[i].brought = "tracker" =>
       import.step # "none" /\ items[i].project = import.project

\* No number is beyond the bound of its project, so that there is a greatest one.
RangeInv ==
  /\ \A i \in Items : items[i] # None => items[i].ref <= MaxNumber[items[i].project]
  /\ \A i \in Items : jobs[i].number > 0 => jobs[i].number <= MaxNumber[jobs[i].project]

BaseInv == TypeInv /\ JobInv /\ ImportInv /\ RangeInv

-----------------------------------------------------------------------------
LEMMA InitBase == Init => BaseInv
BY DEF Init, BaseInv, TypeInv, ItemRows, Jobs, Imports, ReferenceRows, JobInv, JobOK, ImportInv,
       RangeInv, Idle, Given, Bringing

\* A step of one job, which leaves the others and their items alone, and the import unless it is
\* over for it.
LEMMA BaseOfJob ==
  ASSUME BaseInv, NEW i \in Items, TypeInv',
         \A j \in Items \ {i} : jobs'[j] = jobs[j] /\ items'[j] = items[j],
         JobOK(i)', import' = import \/ (jobs[i].do = "import" /\ jobs'[i].do # "import"),
         import'.project = import.project, import'.step = "none" <=> import.step = "none",
         jobs'[i].do = "import" => \A j \in Items \ {i} : jobs[j].do # "import",
         items'[i] # None /\ items'[i].brought = "tracker" =>
           import.step # "none" /\ items'[i].project = import.project,
         items'[i] # None => items'[i].ref <= MaxNumber[items'[i].project],
         jobs'[i].number > 0 => jobs'[i].number <= MaxNumber[jobs'[i].project]
  PROVE  BaseInv'
<1>1. JobInv'
  <2>1. ASSUME NEW j \in Items \ {i} PROVE JobOK(j)'
    <3>1. JobOK(j) /\ jobs'[j] = jobs[j] /\ items'[j] = items[j]
      BY DEF BaseInv, JobInv
    <3>2. jobs[j].do = "import" => import' = import
      BY DEF BaseInv, JobInv
    <3> QED BY <3>1, <3>2 DEF JobOK
  <2>2. \A j, k \in Items : jobs'[j].do = "import" /\ jobs'[k].do = "import" => j = k
    BY DEF BaseInv, JobInv
  <2> QED BY <2>1, <2>2 DEF JobInv
<1>2. ImportInv'
  BY DEF BaseInv, ImportInv
<1>3. RangeInv'
  BY DEF BaseInv, RangeInv
<1> QED BY <1>1, <1>2, <1>3 DEF BaseInv

-----------------------------------------------------------------------------
(* What each step does to the job and the row of its item.                 *)

JobBecomes(i, do, kind, p, n, step) ==
  /\ jobs'[i] \in Jobs
  /\ jobs'[i].do = do /\ jobs'[i].kind = kind /\ jobs'[i].project = p /\ jobs'[i].number = n
  /\ jobs'[i].step = step

RowBecomes(i, kind, p, n, brought) ==
  /\ items'[i] \in ItemRows
  /\ items'[i].kind = kind /\ items'[i].project = p /\ items'[i].ref = n
  /\ items'[i].brought = brought
  /\ brought = "no" => items'[i].taken = {}

OthersStay(i) == \A j \in Items \ {i} : jobs'[j] = jobs[j] /\ items'[j] = items[j]

JobEnds(i) == JobBecomes(i, "nothing", "none", None, 0, "idle")

\* A job as it begins: created, moved, stored without a number.
LEMMA Begun ==
  ASSUME BaseInv, NEW i \in Items, NEW do \in {"create", "move", "store", "import"},
         NEW kind \in Kinds, NEW p \in Projects,
         jobs' = [jobs EXCEPT ![i] = [Idle EXCEPT !.do = do, !.kind = kind, !.project = p,
                                                  !.step = "inserted"]]
  PROVE  JobBecomes(i, do, kind, p, 0, "inserted") /\ \A j \in Items \ {i} : jobs'[j] = jobs[j]
<1> DEFINE job == [Idle EXCEPT !.do = do, !.kind = kind, !.project = p, !.step = "inserted"]
<1>1. /\ job \in Jobs /\ job.do = do /\ job.kind = kind /\ job.project = p /\ job.number = 0
      /\ job.step = "inserted"
  BY DEF Idle, Jobs
<1>2. jobs' = [jobs EXCEPT ![i] = job]
  OBVIOUS
<1> HIDE DEF job
<1> QED BY <1>1, <1>2 DEF BaseInv, TypeInv, JobBecomes

\* A job goes on: only its number, the value of nextval it has got and its step change.
LEMMA WentOn ==
  ASSUME BaseInv, NEW i \in Items, NEW n \in Nat, NEW m \in Nat,
         NEW step \in {"numbered", "referred", "saved", "advanced"},
         jobs'[i] = [jobs[i] EXCEPT !.number = n, !.next = m, !.step = step]
  PROVE  /\ JobBecomes(i, jobs[i].do, jobs[i].kind, jobs[i].project, n, step)
         /\ jobs'[i].next = m
<1>1. jobs[i] \in Jobs
  BY DEF BaseInv, TypeInv
<1> QED BY <1>1 DEF JobBecomes, Jobs

LEMMA IdleIsIdle == /\ Idle \in Jobs /\ Idle.do = "nothing" /\ Idle.kind = "none"
                    /\ Idle.project = None /\ Idle.number = 0 /\ Idle.step = "idle"
BY DEF Idle, Jobs

LEMMA Inserted ==
  ASSUME BaseInv, NEW i \in Items, NEW do \in {"create", "import"}, NEW kind \in Kinds,
         NEW p \in Projects, Insert(i, do, kind, p)
  PROVE  /\ jobs[i].step = "idle" /\ items[i] = None
         /\ OthersStay(i) /\ JobBecomes(i, do, kind, p, 0, "inserted")
         /\ items' = items \/ RowBecomes(i, kind, p, 0, "no")
         /\ UNCHANGED <<sequence, references, import, raced, early, refused>>
<1> DEFINE item == [kind |-> kind, project |-> p, ref |-> 0, brought |-> "no", taken |-> {}]
<1>1. /\ items' \in {items, [items EXCEPT ![i] = item]}
      /\ jobs[i].step = "idle" /\ items[i] = None
      /\ UNCHANGED <<sequence, references, import, raced, early, refused>>
  BY DEF Insert, Free
<1>2. /\ item \in ItemRows /\ item.kind = kind /\ item.project = p /\ item.ref = 0
      /\ item.brought = "no" /\ item.taken = {}
  BY DEF ItemRows
<1>3. JobBecomes(i, do, kind, p, 0, "inserted") /\ \A j \in Items \ {i} : jobs'[j] = jobs[j]
  BY Begun DEF Insert
<1> HIDE DEF item
<1>4. /\ items' = items \/ RowBecomes(i, kind, p, 0, "no")
      /\ \A j \in Items \ {i} : items'[j] = items[j]
  BY <1>1, <1>2 DEF BaseInv, TypeInv, RowBecomes
<1> QED BY <1>1, <1>3, <1>4 DEF OthersStay

LEMMA MoveBegun ==
  ASSUME BaseInv, NEW i \in Items, NEW p \in Projects, Move(i, p)
  PROVE  /\ jobs[i].step = "idle" /\ items[i] \in ItemRows /\ items' = items
         /\ OthersStay(i) /\ JobBecomes(i, "move", items[i].kind, p, 0, "inserted")
         /\ UNCHANGED <<sequence, references, import, raced, early, refused>>
<1>1. items[i] \in ItemRows /\ items[i].kind \in Kinds
  BY DEF Move, BaseInv, TypeInv, ItemRows
<1> QED BY <1>1, Begun DEF Move, Free, OthersStay

LEMMA StoreBegun ==
  ASSUME BaseInv, NEW i \in Items, NEW kind \in Kinds, NEW p \in Projects,
         StoreUnnumbered(i, kind, p)
  PROVE  /\ jobs[i].step = "idle" /\ items' = items
         /\ OthersStay(i) /\ JobBecomes(i, "store", kind, p, 0, "inserted")
         /\ UNCHANGED <<sequence, references, import, raced, early, refused>>
BY Begun DEF StoreUnnumbered, Free, OthersStay

LEMMA Brought ==
  ASSUME BaseInv, NEW i \in Items, NEW kind \in Kinds, NEW p \in Projects,
         NEW n \in 1 .. MaxNumber[p], Store(i, kind, p, n)
  PROVE  /\ jobs[i].step = "idle" /\ items[i] = None /\ items' = items
         /\ OthersStay(i) /\ JobBecomes(i, "store", kind, p, n, "brought")
         /\ n \in Nat /\ n > 0 /\ n <= MaxNumber[p]
         /\ UNCHANGED <<sequence, references, import, raced, early, refused>>
<1> DEFINE job == [Idle EXCEPT !.do = "store", !.kind = kind, !.project = p, !.number = n,
                               !.step = "brought"]
<1>1. n \in Nat /\ n > 0 /\ n <= MaxNumber[p]
  BY NumbersAssumption
<1>2. /\ job \in Jobs /\ job.do = "store" /\ job.kind = kind /\ job.project = p /\ job.number = n
      /\ job.step = "brought"
  BY <1>1 DEF Idle, Jobs
<1>3. jobs' = [jobs EXCEPT ![i] = job] /\ items' = items
  BY DEF Store
<1> HIDE DEF job
<1>4. JobBecomes(i, "store", kind, p, n, "brought") /\ OthersStay(i)
  BY <1>2, <1>3 DEF BaseInv, TypeInv, JobBecomes, OthersStay
<1> QED BY <1>1, <1>3, <1>4 DEF Store, Free

LEMMA NumberTaken ==
  ASSUME BaseInv, NEW i \in Items, TakeNumber(i)
  PROVE  LET p == jobs[i].project
             n == sequence[p] + 1
         IN  /\ p \in Projects /\ n \in Nat /\ n > 0 /\ n <= MaxNumber[p]
             /\ jobs[i].step = "inserted" /\ items' = items
             /\ OthersStay(i) /\ JobBecomes(i, jobs[i].do, jobs[i].kind, p, n, "numbered")
             /\ sequence' = [sequence EXCEPT ![p] = n]
             /\ raced' = IF Setting(p) THEN raced \cup {p} ELSE raced
             /\ early' = IF ImportRuns(p) THEN early \cup {<<i, p>>} ELSE early
             /\ UNCHANGED <<references, import, refused>>
<1> DEFINE p == jobs[i].project
           n == sequence[p] + 1
<1>1. jobs[i] \in Jobs /\ p \in Projects /\ sequence[p] \in Nat /\ jobs[i].next \in Nat
  BY DEF TakeNumber, BaseInv, TypeInv, JobInv, JobOK, Jobs
<1>2. n \in Nat /\ n > 0 /\ n <= MaxNumber[p]
  BY <1>1, NumbersAssumption DEF TakeNumber, NextValue
<1>3. /\ jobs'[i] = [jobs[i] EXCEPT !.number = n, !.next = jobs[i].next, !.step = "numbered"]
      /\ \A j \in Items \ {i} : jobs'[j] = jobs[j]
  BY <1>1 DEF TakeNumber, BaseInv, TypeInv, Jobs
<1>4. JobBecomes(i, jobs[i].do, jobs[i].kind, p, n, "numbered")
  <2> HIDE DEF n
  <2> QED BY <1>1, <1>2, <1>3, WentOn
<1> QED BY <1>1, <1>2, <1>3, <1>4 DEF TakeNumber, NextValue, OthersStay

LEMMA Referred ==
  ASSUME BaseInv, NEW i \in Items, Refer(i)
  PROVE  /\ jobs[i].step = "numbered" /\ ~ Refused(i) /\ ~ Contended(i) /\ items' = items
         /\ jobs[i].project \in Projects /\ jobs[i].number \in Nat
         /\ OthersStay(i)
         /\ JobBecomes(i, jobs[i].do, jobs[i].kind, jobs[i].project, jobs[i].number, "referred")
         /\ references' = IF Atomic(i) THEN references
                          ELSE references \cup {[project |-> jobs[i].project,
                                                 ref |-> jobs[i].number, item |-> i]}
         /\ UNCHANGED <<sequence, import, raced, early, refused>>
<1>1. /\ jobs[i] \in Jobs /\ jobs[i].number \in Nat /\ jobs[i].next \in Nat
      /\ jobs[i].project \in Projects
  BY DEF Refer, BaseInv, TypeInv, JobInv, JobOK, Jobs, Given
<1>2. /\ jobs'[i] = [jobs[i] EXCEPT !.number = jobs[i].number, !.next = jobs[i].next,
                                    !.step = "referred"]
      /\ \A j \in Items \ {i} : jobs'[j] = jobs[j]
  BY <1>1 DEF Refer, BaseInv, TypeInv, Jobs
<1>3. JobBecomes(i, jobs[i].do, jobs[i].kind, jobs[i].project, jobs[i].number, "referred")
  BY <1>1, <1>2, WentOn
<1> QED BY <1>1, <1>2, <1>3 DEF Refer, OthersStay

LEMMA RefusalDone ==
  ASSUME BaseInv, NEW i \in Items, Refuse(i)
  PROVE  /\ jobs[i].step = "numbered" /\ Refused(i) /\ jobs[i].project \in Projects
         /\ OthersStay(i) /\ JobEnds(i) /\ items' = items
         /\ refused' = refused \cup {jobs[i].project}
         /\ IF jobs[i].do = "import"
            THEN import' \in Imports /\ import'.project = import.project /\ import'.step = "failed"
            ELSE import' = import
         /\ UNCHANGED <<sequence, references, raced, early>>
<1>1. jobs[i].project \in Projects
  BY DEF Refuse, BaseInv, JobInv, JobOK, Given
<1>2. OthersStay(i) /\ JobEnds(i)
  BY IdleIsIdle DEF Refuse, BaseInv, TypeInv, OthersStay, JobEnds, JobBecomes
<1>3. jobs[i].do = "import" =>
        import' \in Imports /\ import'.project = import.project /\ import'.step = "failed"
  BY DEF Refuse, BaseInv, TypeInv, Imports
<1> QED BY <1>1, <1>2, <1>3 DEF Refuse

LEMMA NumberSaved ==
  ASSUME BaseInv, NEW i \in Items, SaveNumber(i)
  PROVE  LET job == jobs[i]
         IN  /\ job.step = "referred" /\ job.project \in Projects /\ job.number \in Nat
             /\ OthersStay(i) /\ RowBecomes(i, job.kind, job.project, job.number, "no")
             /\ IF job.do = "import"
                THEN JobBecomes(i, "import", job.kind, job.project, job.number, "saved")
                ELSE JobEnds(i)
             /\ references' = IF Atomic(i)
                              THEN references \cup {[project |-> job.project, ref |-> job.number,
                                                     item |-> i]}
                              ELSE references
             /\ UNCHANGED <<sequence, import, raced, early, refused>>
<1> DEFINE job == jobs[i]
           item == [kind |-> job.kind, project |-> job.project, ref |-> job.number,
                    brought |-> "no", taken |-> {}]
<1>1. /\ job \in Jobs /\ job.number \in Nat /\ job.next \in Nat /\ job.project \in Projects
      /\ job.kind \in Kinds
  BY DEF SaveNumber, BaseInv, TypeInv, JobInv, JobOK, Jobs, Given
<1>2. item \in ItemRows
  BY <1>1 DEF ItemRows
<1>3. items'[i] = item /\ \A j \in Items \ {i} : items'[j] = items[j]
  BY DEF SaveNumber, BaseInv, TypeInv
<1>4. RowBecomes(i, job.kind, job.project, job.number, "no")
  BY <1>2, <1>3 DEF RowBecomes
<1>5. \A j \in Items \ {i} : jobs'[j] = jobs[j]
  BY DEF SaveNumber, BaseInv, TypeInv
<1>6. CASE job.do = "import"
  <2>1. jobs'[i] = [jobs[i] EXCEPT !.number = jobs[i].number, !.next = jobs[i].next, !.step = "saved"]
    BY <1>1, <1>6 DEF SaveNumber, BaseInv, TypeInv, Jobs
  <2>2. JobBecomes(i, "import", job.kind, job.project, job.number, "saved")
    <3>1. JobBecomes(i, jobs[i].do, jobs[i].kind, jobs[i].project, jobs[i].number, "saved")
      BY <1>1, <2>1, WentOn
    <3> QED BY <1>6, <3>1
  <2> QED BY <1>1, <1>3, <1>4, <1>5, <1>6, <2>2 DEF SaveNumber, OthersStay
<1>7. CASE job.do # "import"
  <2>1. JobEnds(i)
    BY <1>7, IdleIsIdle DEF SaveNumber, BaseInv, TypeInv, JobEnds, JobBecomes
  <2> QED BY <1>1, <1>3, <1>4, <1>5, <1>7, <2>1 DEF SaveNumber, OthersStay
<1> QED BY <1>6, <1>7

LEMMA Deleted ==
  ASSUME BaseInv, NEW i \in Items, Delete(i)
  PROVE  /\ jobs[i].step = "idle" /\ items'[i] = None
         /\ OthersStay(i) /\ JobBecomes(i, "nothing", jobs[i].kind, None, 0, "gone")
         /\ UNCHANGED <<sequence, references, import, raced, early, refused>>
<1>1. jobs[i] \in Jobs /\ jobs[i].do = "nothing" /\ jobs[i].project = None /\ jobs[i].number = 0
  BY DEF Delete, Free, BaseInv, TypeInv, JobInv, JobOK, Given, Bringing
<1>2. jobs' = [jobs EXCEPT ![i].step = "gone"] /\ items' = [items EXCEPT ![i] = None]
  BY DEF Delete
<1>3. jobs'[i] = [jobs[i] EXCEPT !.step = "gone"] /\ OthersStay(i) /\ items'[i] = None
  BY <1>2 DEF BaseInv, TypeInv, OthersStay
<1>4. JobBecomes(i, "nothing", jobs[i].kind, None, 0, "gone")
  BY <1>1, <1>3 DEF JobBecomes, Jobs
<1> QED BY <1>3, <1>4 DEF Delete, Free

LEMMA Died ==
  ASSUME BaseInv, NEW i \in Items, Die(i)
  PROVE  /\ jobs[i].step \notin {"idle", "gone", "saved"} /\ jobs[i].do # "import"
         /\ OthersStay(i) /\ JobEnds(i) /\ items' = items
         /\ UNCHANGED <<sequence, references, import, raced, early, refused>>
BY IdleIsIdle DEF Die, BaseInv, TypeInv, OthersStay, JobEnds, JobBecomes

LEMMA NumberBrought ==
  ASSUME BaseInv, NEW i \in Items, NEW n \in Numbers \ {0}, BringNumber(i, n)
  PROVE  LET p == import.project
         IN  /\ p \in Projects /\ n \in Nat /\ n > 0 /\ n <= MaxNumber[p]
             /\ jobs[i].do = "import" /\ jobs[i].step = "saved" /\ import.step = "items"
             /\ RowBecomes(i, items[i].kind, p, n, "tracker") /\ items[i].kind \in Kinds
             /\ OthersStay(i) /\ JobEnds(i)
             /\ items'[i].taken = Stored(n)
             /\ \A j \in In(p) : items[j].brought = "tracker" => items[j].ref # n
             /\ early' = early \ {<<i, p>>}
             /\ UNCHANGED <<sequence, references, import, raced, refused>>
<1> DEFINE p == import.project
<1>1. /\ jobs[i].do = "import" /\ jobs[i].step = "saved" /\ import.step = "items"
      /\ items[i] \in ItemRows /\ items[i].project = p /\ p \in Projects
  BY DEF BringNumber, Doing, BaseInv, JobInv, JobOK, Given, ImportInv
<1>2. n \in Nat /\ n > 0 /\ n <= MaxNumber[p]
  BY NumbersAssumption DEF Numbers, BringNumber
<1> DEFINE had == Stored(n)
<1>6. had \in SUBSET Items
  BY DEF Stored, In
<1>3. /\ items'[i] = [items[i] EXCEPT !.ref = n, !.brought = "tracker", !.taken = had]
      /\ \A j \in Items \ {i} : items'[j] = items[j]
  BY <1>1 DEF BringNumber, BaseInv, TypeInv, ItemRows
<1>4. /\ RowBecomes(i, items[i].kind, p, n, "tracker") /\ items[i].kind \in Kinds
      /\ items'[i].taken = had
  <2> HIDE DEF had
  <2> QED BY <1>1, <1>2, <1>3, <1>6 DEF RowBecomes, ItemRows
<1>5. OthersStay(i) /\ JobEnds(i)
  BY <1>3, IdleIsIdle DEF BringNumber, BaseInv, TypeInv, OthersStay, JobEnds, JobBecomes
<1> QED BY <1>1, <1>2, <1>4, <1>5 DEF BringNumber

\* The greater of two numbers.
LEMMA MaxOfTwo ==
  ASSUME NEW a \in Nat, NEW b \in Nat
  PROVE  Max({a, b}) = IF a >= b THEN a ELSE b
<1>1. \E x \in {a, b} : \A y \in {a, b} : x >= y
  OBVIOUS
<1>2. Max({a, b}) \in {a, b} /\ \A y \in {a, b} : Max({a, b}) >= y
  BY <1>1 DEF Max
<1> QED BY <1>2

LEMMA StoreAdvanced ==
  ASSUME BaseInv, NEW i \in Items, StoreNext(i)
  PROVE  LET p == jobs[i].project
             n == sequence[p] + 1
         IN  /\ p \in Projects /\ n \in Nat /\ n <= MaxNumber[p]
             /\ jobs[i].step = "brought" /\ items' = items
             /\ OthersStay(i) /\ jobs'[i].next = n
             /\ JobBecomes(i, jobs[i].do, jobs[i].kind, p, jobs[i].number, "advanced")
             /\ sequence' = [sequence EXCEPT ![p] = n]
             /\ raced' = IF OthersSetting(i) THEN raced \cup {p} ELSE raced
             /\ UNCHANGED <<references, import, early, refused>>
<1> DEFINE p == jobs[i].project
           n == sequence[p] + 1
<1>1. jobs[i] \in Jobs /\ p \in Projects /\ sequence[p] \in Nat /\ jobs[i].number \in Nat
  BY DEF StoreNext, BaseInv, TypeInv, JobInv, JobOK, Jobs, Bringing
<1>2. n \in Nat /\ n <= MaxNumber[p]
  BY <1>1, NumbersAssumption DEF StoreNext, NextValue
<1>3. /\ jobs'[i] = [jobs[i] EXCEPT !.number = jobs[i].number, !.next = n, !.step = "advanced"]
      /\ \A j \in Items \ {i} : jobs'[j] = jobs[j]
  BY <1>1 DEF StoreNext, BaseInv, TypeInv, Jobs
<1>4. JobBecomes(i, jobs[i].do, jobs[i].kind, p, jobs[i].number, "advanced") /\ jobs'[i].next = n
  <2> HIDE DEF n
  <2> QED BY <1>1, <1>2, <1>3 DEF JobBecomes, Jobs
<1> QED BY <1>1, <1>2, <1>3, <1>4 DEF StoreNext, NextValue, OthersStay

LEMMA StoreDone ==
  ASSUME BaseInv, NEW i \in Items, StoreSet(i)
  PROVE  LET job == jobs[i]
             p == job.project
         IN  /\ job.step = "advanced" /\ p \in Projects /\ job.number \in Nat /\ job.next \in Nat
             /\ OthersStay(i) /\ RowBecomes(i, job.kind, p, job.number, "dump") /\ JobEnds(i)
             /\ items'[i].taken = HadAlready(i, p, job.number)
             /\ sequence' = [sequence EXCEPT ![p] = IF job.next >= job.number THEN job.next
                                                    ELSE job.number]
             /\ UNCHANGED <<references, import, raced, early, refused>>
<1> DEFINE job == jobs[i]
           had == HadAlready(i, job.project, job.number)
           item == [kind |-> job.kind, project |-> job.project, ref |-> job.number,
                    brought |-> "dump", taken |-> had]
<1>1. /\ job.number \in Nat /\ job.next \in Nat /\ job.project \in Projects /\ job.kind \in Kinds
  BY DEF StoreSet, BaseInv, TypeInv, JobInv, JobOK, Jobs, Bringing
<1>7. had \in SUBSET Items
  BY DEF HadAlready, In
<1>2. /\ item \in ItemRows /\ item.kind = job.kind /\ item.project = job.project
      /\ item.ref = job.number /\ item.brought = "dump" /\ item.taken = had
  <2> HIDE DEF had
  <2> QED BY <1>1, <1>7 DEF ItemRows
<1>3. items'[i] = item /\ \A j \in Items \ {i} : items'[j] = items[j]
  BY DEF StoreSet, BaseInv, TypeInv
<1>4. RowBecomes(i, job.kind, job.project, job.number, "dump") /\ items'[i].taken = had
  <2> HIDE DEF item, had
  <2> QED BY <1>2, <1>3 DEF RowBecomes
<1>5. OthersStay(i) /\ JobEnds(i)
  BY <1>3, IdleIsIdle DEF StoreSet, BaseInv, TypeInv, OthersStay, JobEnds, JobBecomes
<1>6. sequence' = [sequence EXCEPT ![job.project] = Max({job.next, job.number})]
  BY DEF StoreSet, SetMax
<1> QED BY <1>1, <1>4, <1>5, <1>6, MaxOfTwo DEF StoreSet

\* A bounded set of numbers has a greatest one.
LEMMA MaxOfBounded ==
  ASSUME NEW n \in Nat, NEW S \in SUBSET (0 .. n)
  PROVE  Max(S \cup {0}) \in Nat /\ \A x \in S : x <= Max(S \cup {0})
<1> DEFINE R == OpToRel(<, Nat)
           T == {n - x : x \in S \cup {0}}
<1>1. /\ \A x \in S \cup {0} : x \in Nat /\ x <= n /\ n - x \in Nat
      /\ T \subseteq Nat /\ T # {}
  <2>1. \A x \in S \cup {0} : x \in Nat /\ x <= n /\ n - x \in Nat
    OBVIOUS
  <2>2. n - 0 \in T
    OBVIOUS
  <2> QED BY <2>1, <2>2
<1>2. IsWellFoundedOn(R, Nat)
  BY NatLessThanWellFounded
<1>3. \A x, y \in Nat : x < y => <<x, y>> \in R
  BY DEF OpToRel
<1> HIDE DEF R
<1>4. \E x \in T : \A y \in T : ~ (<<y, x>> \in R)
  <2> HIDE DEF T
  <2> QED BY <1>1, <1>2, WFMin
<1>5. PICK x \in S \cup {0} : \A y \in T : ~ (<<y, n - x>> \in R)
  BY <1>4
<1>6. \A y \in S \cup {0} : x >= y
  <2> SUFFICES ASSUME NEW y \in S \cup {0} PROVE x >= y
    OBVIOUS
  <2>1. n - y \in T
    OBVIOUS
  <2>2. ~ (n - y < n - x)
    BY <1>1, <1>3, <1>5, <2>1
  <2> QED BY <1>1, <2>2
<1>7. Max(S \cup {0}) \in S \cup {0} /\ \A y \in S \cup {0} : Max(S \cup {0}) >= y
  BY <1>6 DEF Max
<1> QED BY <1>1, <1>7

LEMMA ImportStarted ==
  ASSUME BaseInv, NEW p \in Projects, StartImport(p)
  PROVE  /\ import.step = "none" /\ sequence[p] = 0 /\ \A i \in Items : jobs[i].project # p
         /\ import' \in Imports /\ import'.project = p /\ import'.step = "items"
         /\ UNCHANGED <<items, sequence, references, jobs, raced, early, refused>>
BY DEF StartImport, BaseInv, TypeInv, Imports

LEMMA RecalcCounted ==
  ASSUME BaseInv, RecalcCount
  PROVE  /\ import.step = "items" /\ \A i \in Items : jobs[i].do # "import"
         /\ import' \in Imports /\ import'.project = import.project /\ import'.step = "counted"
         /\ \A i \in In(import.project) : items[i].kind # "epic" => items[i].ref <= import'.max
         /\ UNCHANGED <<items, sequence, references, jobs, raced, early, refused>>
<1> DEFINE p == import.project
<1>1. import.step = "items" /\ p \in Projects /\ MaxNumber[p] \in Nat
  BY NumbersAssumption DEF RecalcCount, BaseInv, ImportInv
<1>2. Counted(p) \in SUBSET (0 .. MaxNumber[p])
  BY <1>1 DEF Counted, In, BaseInv, TypeInv, RangeInv, ItemRows
<1>3. PICK m : m = Max(Counted(p) \cup {0})
  OBVIOUS
<1>4. m \in Nat /\ \A x \in Counted(p) : x <= m
  BY <1>1, <1>2, <1>3, MaxOfBounded
<1>5. \A i \in In(p) : items[i].kind # "epic" => items[i].ref <= m
  BY <1>4 DEF Counted
<1>6. import' = [import EXCEPT !.max = m, !.step = "counted"]
  BY <1>3 DEF RecalcCount
<1> QED BY <1>1, <1>4, <1>5, <1>6 DEF RecalcCount, Importing, BaseInv, TypeInv, Imports

LEMMA RecalcAdvanced ==
  ASSUME BaseInv, RecalcNext
  PROVE  LET p == import.project
             n == sequence[p] + 1
         IN  /\ p \in Projects /\ n \in Nat /\ import.step = "counted"
             /\ import' \in Imports /\ import'.project = p /\ import'.step = "advanced"
             /\ import'.next = n /\ import'.max = import.max
             /\ sequence' = [sequence EXCEPT ![p] = n]
             /\ raced' = IF Setting(p) THEN raced \cup {p} ELSE raced
             /\ UNCHANGED <<items, references, jobs, early, refused>>
<1> DEFINE p == import.project
           n == sequence[p] + 1
<1>1. p \in Projects /\ sequence[p] \in Nat /\ n \in Nat
  BY DEF RecalcNext, BaseInv, TypeInv, ImportInv
<1>2. import' = [import EXCEPT !.next = n, !.step = "advanced"]
  BY DEF RecalcNext
<1>3. /\ import' \in Imports /\ import'.project = import.project /\ import'.step = "advanced"
      /\ import'.next = n /\ import'.max = import.max
  <2> HIDE DEF n
  <2> QED BY <1>1, <1>2 DEF BaseInv, TypeInv, Imports
<1> QED BY <1>1, <1>3 DEF RecalcNext, NextValue

LEMMA RecalcDone ==
  ASSUME BaseInv, RecalcSet
  PROVE  LET p == import.project
         IN  /\ p \in Projects /\ import.step = "advanced" /\ import.next \in Nat /\ import.max \in Nat
             /\ import' \in Imports /\ import'.project = p /\ import'.step = "over"
             /\ sequence' = [sequence EXCEPT ![p] = IF import.next >= import.max THEN import.next
                                                    ELSE import.max]
             /\ UNCHANGED <<items, references, jobs, raced, early, refused>>
<1>1. import.project \in Projects /\ import.next \in Nat /\ import.max \in Nat
  BY DEF RecalcSet, BaseInv, TypeInv, ImportInv, Imports
<1>2. import' \in Imports /\ import'.project = import.project /\ import'.step = "over"
  BY DEF RecalcSet, BaseInv, TypeInv, Imports
<1>3. sequence' = [sequence EXCEPT ![import.project] = Max({import.next, import.max})]
  BY DEF RecalcSet, SetMax
<1> QED BY <1>1, <1>2, <1>3, MaxOfTwo DEF RecalcSet

LEMMA ImportFailed ==
  ASSUME BaseInv, ImportFails
  PROVE  /\ import.step \in {"items", "counted"}
         /\ import' \in Imports /\ import'.project = import.project /\ import'.step = "failed"
         /\ jobs' \in [Items -> Jobs]
         /\ \A i \in Items : IF jobs[i].do = "import" THEN JobEnds(i) ELSE jobs'[i] = jobs[i]
         /\ UNCHANGED <<items, sequence, references, raced, early, refused>>
BY IdleIsIdle DEF ImportFails, Importing, BaseInv, TypeInv, Imports, JobEnds, JobBecomes

-----------------------------------------------------------------------------
(* The rows and jobs keep their types, and jobs what their steps say.      *)

\* The steps of one job, of a request or of the importer.
JobStep(i) ==
  \/ ItemNext(i)
  \/ \E kind \in Kinds : ImportItem(i, kind)
  \/ \E n \in Numbers \ {0} : BringNumber(i, n)

\* No step adds an item or takes one away.
LEMMA ItemsStay ==
  ASSUME BaseInv, NEW i \in Items, JobStep(i)
  PROVE  jobs' = [j \in Items |-> jobs'[j]] /\ items' = [j \in Items |-> items'[j]]
<1>1. jobs = [j \in Items |-> jobs[j]] /\ items = [j \in Items |-> items[j]]
  BY DEF BaseInv, TypeInv
<1>2. ASSUME NEW do, NEW kind, NEW p, Insert(i, do, kind, p)
      PROVE  jobs' = [j \in Items |-> jobs'[j]] /\ items' = [j \in Items |-> items'[j]]
  BY <1>1, <1>2 DEF Insert
<1>3. CASE \E kind \in Kinds, p \in Projects : Create(i, kind, p) \/ StoreUnnumbered(i, kind, p)
  BY <1>1, <1>2, <1>3 DEF Create, StoreUnnumbered
<1>4. CASE \E kind \in Kinds, p \in Projects : \E n \in 1..MaxNumber[p] : Store(i, kind, p, n)
  BY <1>1, <1>4 DEF Store
<1>5. CASE \E p \in Projects : Move(i, p)
  BY <1>1, <1>5 DEF Move
<1>6. CASE TakeNumber(i)
  BY <1>1, <1>6 DEF TakeNumber
<1>7. CASE Refer(i)
  BY <1>1, <1>7 DEF Refer
<1>8. CASE Refuse(i)
  BY <1>1, <1>8 DEF Refuse
<1>9. CASE SaveNumber(i)
  BY <1>1, <1>9 DEF SaveNumber
<1>10. CASE StoreNext(i)
  BY <1>1, <1>10 DEF StoreNext
<1>11. CASE StoreSet(i)
  BY <1>1, <1>11 DEF StoreSet
<1>12. CASE Delete(i) \/ Die(i)
  BY <1>1, <1>12 DEF Delete, Die
<1>13. CASE \E kind \in Kinds : ImportItem(i, kind)
  BY <1>2, <1>13 DEF ImportItem
<1>14. CASE \E n \in Numbers \ {0} : BringNumber(i, n)
  BY <1>1, <1>14 DEF BringNumber
<1> QED BY <1>3, <1>4, <1>5, <1>6, <1>7, <1>8, <1>9, <1>10, <1>11, <1>12, <1>13, <1>14
        DEF JobStep, ItemNext

LEMMA TypesOfJob ==
  ASSUME BaseInv, NEW i \in Items, JobStep(i), OthersStay(i), jobs'[i] \in Jobs,
         items'[i] \in ItemRows \cup {None}, sequence' \in [Projects -> Nat],
         references' \subseteq ReferenceRows, import' \in Imports
  PROVE  TypeInv'
<1>1. jobs' = [j \in Items |-> jobs'[j]] /\ items' = [j \in Items |-> items'[j]]
  BY ItemsStay
<1>2. \A j \in Items : jobs'[j] \in Jobs /\ items'[j] \in ItemRows \cup {None}
  BY DEF OthersStay, BaseInv, TypeInv
<1> QED BY <1>1, <1>2 DEF TypeInv

\* A step of a job that leaves the import and the rows of Reference alone.
LEMMA BaseOfPlainJob ==
  ASSUME BaseInv, NEW i \in Items, JobStep(i), OthersStay(i), jobs'[i] \in Jobs,
         items' = items \/ items'[i] = None
           \/ (items'[i] \in ItemRows /\ items'[i].brought # "tracker"
               /\ items'[i].ref <= MaxNumber[items'[i].project]),
         sequence' \in [Projects -> Nat], references' \subseteq ReferenceRows,
         UNCHANGED import, JobOK(i)',
         jobs'[i].do = "import" => \A j \in Items \ {i} : jobs[j].do # "import",
         jobs'[i].number > 0 => jobs'[i].number <= MaxNumber[jobs'[i].project]
  PROVE  BaseInv'
<1>1. TypeInv'
  BY TypesOfJob DEF BaseInv, TypeInv
<1>2. /\ items'[i] # None /\ items'[i].brought = "tracker" =>
           import.step # "none" /\ items'[i].project = import.project
      /\ items'[i] # None => items'[i].ref <= MaxNumber[items'[i].project]
  BY DEF BaseInv, ImportInv, RangeInv
<1> QED BY <1>1, <1>2, BaseOfJob DEF OthersStay

\* An update of the sequence of a project.
LEMMA SequenceTypes ==
  ASSUME BaseInv, NEW p, NEW n \in Nat, sequence' = [sequence EXCEPT ![p] = n]
  PROVE  sequence' \in [Projects -> Nat]
BY DEF BaseInv, TypeInv

LEMMA BaseOfTrivial ==
  ASSUME BaseInv
  PROVE  /\ sequence \in [Projects -> Nat] /\ references \subseteq ReferenceRows
         /\ \A i \in Items : items[i] \in ItemRows \cup {None} /\ jobs[i] \in Jobs /\ JobOK(i)
         /\ import \in Imports
BY DEF BaseInv, TypeInv, JobInv

LEMMA BaseItemStep ==
  ASSUME BaseInv, NEW i \in Items, JobStep(i)
  PROVE  BaseInv'
<1> USE BaseOfTrivial
<1>1. ASSUME NEW do \in {"create", "import"}, NEW kind \in Kinds, NEW p \in Projects,
             Insert(i, do, kind, p),
             do = "import" => import.step = "items" /\ import.project = p
                              /\ \A j \in Items : jobs[j].do # "import"
      PROVE  BaseInv'
  <2>1. /\ jobs[i].step = "idle" /\ items[i] = None
        /\ OthersStay(i) /\ JobBecomes(i, do, kind, p, 0, "inserted")
        /\ items' = items \/ RowBecomes(i, kind, p, 0, "no")
        /\ UNCHANGED <<sequence, references, import>>
    BY <1>1, Inserted
  <2>2. JobOK(i)'
    BY <1>1, <2>1 DEF JobBecomes, RowBecomes, JobOK, Given, Bringing
  <2>3. items' = items \/ (items'[i] \in ItemRows /\ items'[i].brought # "tracker"
                           /\ items'[i].ref <= MaxNumber[items'[i].project])
    BY <2>1, NumbersAssumption DEF RowBecomes
  <2> QED BY <1>1, <2>1, <2>2, <2>3, BaseOfPlainJob DEF JobBecomes
<1>2. CASE \E kind \in Kinds, p \in Projects : Create(i, kind, p)
  BY <1>1, <1>2 DEF Create
<1>3. CASE \E kind \in Kinds : ImportItem(i, kind)
  <2>1. PICK kind \in Kinds : ImportItem(i, kind)
    BY <1>3
  <2>2. /\ import.step = "items" /\ import.project \in Projects
        /\ \A j \in Items : jobs[j].do # "import"
        /\ Insert(i, "import", kind, import.project)
    BY <2>1 DEF ImportItem, Importing, BaseInv, ImportInv
  <2> QED BY <1>1, <2>2
<1>4. CASE \E kind \in Kinds, p \in Projects : StoreUnnumbered(i, kind, p)
  <2>1. PICK kind \in Kinds, p \in Projects : StoreUnnumbered(i, kind, p)
    BY <1>4
  <2>2. /\ jobs[i].step = "idle" /\ items' = items
        /\ OthersStay(i) /\ JobBecomes(i, "store", kind, p, 0, "inserted")
        /\ UNCHANGED <<sequence, references, import>>
    BY <2>1, StoreBegun
  <2>3. JobOK(i)'
    BY <2>2 DEF JobBecomes, JobOK, Given, Bringing
  <2> QED BY <2>2, <2>3, BaseOfPlainJob DEF JobBecomes
<1>5. CASE \E kind \in Kinds, p \in Projects : \E n \in 1..MaxNumber[p] : Store(i, kind, p, n)
  <2>1. PICK kind \in Kinds, p \in Projects : \E n \in 1..MaxNumber[p] : Store(i, kind, p, n)
    BY <1>5
  <2>2. PICK n \in 1..MaxNumber[p] : Store(i, kind, p, n)
    BY <2>1
  <2>3. /\ items[i] = None /\ items' = items /\ n <= MaxNumber[p] /\ n \in Nat
        /\ OthersStay(i) /\ JobBecomes(i, "store", kind, p, n, "brought")
        /\ UNCHANGED <<sequence, references, import>>
    BY <2>2, Brought
  <2>4. JobOK(i)'
    BY <2>3 DEF JobBecomes, JobOK, Given, Bringing
  <2> QED BY <2>3, <2>4, BaseOfPlainJob DEF JobBecomes
<1>6. CASE \E p \in Projects : Move(i, p)
  <2>1. PICK p \in Projects : Move(i, p)
    BY <1>6
  <2>2. /\ items[i] \in ItemRows /\ items' = items
        /\ OthersStay(i) /\ JobBecomes(i, "move", items[i].kind, p, 0, "inserted")
        /\ UNCHANGED <<sequence, references, import>>
    BY <2>1, MoveBegun
  <2>3. JobOK(i)'
    BY <2>2 DEF JobBecomes, JobOK, Given, Bringing, ItemRows
  <2> QED BY <2>2, <2>3, BaseOfPlainJob DEF JobBecomes
<1>7. CASE TakeNumber(i)
  <2> DEFINE p == jobs[i].project
             n == sequence[p] + 1
  <2>1. /\ p \in Projects /\ n \in Nat /\ n <= MaxNumber[p] /\ items' = items
        /\ jobs[i].step = "inserted" /\ OthersStay(i)
        /\ JobBecomes(i, jobs[i].do, jobs[i].kind, p, n, "numbered")
        /\ sequence' = [sequence EXCEPT ![p] = n]
        /\ UNCHANGED <<references, import>>
    BY <1>7, NumberTaken
  <2>2. sequence' \in [Projects -> Nat]
    BY <2>1, SequenceTypes
  <2> HIDE DEF n
  <2>3. JobOK(i)'
    BY <2>1 DEF JobBecomes, JobOK, Given, Bringing
  <2>4. jobs'[i].do = "import" => \A j \in Items \ {i} : jobs[j].do # "import"
    BY <2>1 DEF JobBecomes, BaseInv, JobInv
  <2> QED BY <2>1, <2>2, <2>3, <2>4, BaseOfPlainJob DEF JobBecomes
<1>8. CASE Refer(i)
  <2>1. /\ jobs[i].step = "numbered" /\ items' = items
        /\ jobs[i].project \in Projects /\ jobs[i].number \in Nat /\ OthersStay(i)
        /\ JobBecomes(i, jobs[i].do, jobs[i].kind, jobs[i].project, jobs[i].number, "referred")
        /\ references' = IF Atomic(i) THEN references
                         ELSE references \cup {[project |-> jobs[i].project,
                                                ref |-> jobs[i].number, item |-> i]}
        /\ UNCHANGED <<sequence, import>>
    BY <1>8, Referred
  <2>2. references' \subseteq ReferenceRows
    BY <2>1 DEF ReferenceRows
  <2>3. JobOK(i)'
    BY <2>1 DEF JobBecomes, JobOK, Given, Bringing
  <2>4. /\ jobs'[i].do = "import" => \A j \in Items \ {i} : jobs[j].do # "import"
        /\ jobs'[i].number > 0 => jobs'[i].number <= MaxNumber[jobs'[i].project]
    BY <2>1 DEF JobBecomes, BaseInv, JobInv, RangeInv
  <2> QED BY <2>1, <2>2, <2>3, <2>4, BaseOfPlainJob DEF JobBecomes
<1>9. CASE Refuse(i)
  <2>1. /\ OthersStay(i) /\ JobEnds(i) /\ items' = items
        /\ IF jobs[i].do = "import"
           THEN import' \in Imports /\ import'.project = import.project /\ import'.step = "failed"
           ELSE import' = import
        /\ UNCHANGED <<sequence, references>>
    BY <1>9, RefusalDone
  <2>2. TypeInv'
    BY <1>9, <2>1, TypesOfJob DEF JobStep, ItemNext, JobEnds, JobBecomes
  <2>3. JobOK(i)'
    BY <2>1 DEF JobEnds, JobBecomes, JobOK, Given, Bringing
  <2>4. /\ import' = import \/ (jobs[i].do = "import" /\ jobs'[i].do # "import")
        /\ import'.project = import.project /\ import'.step = "none" <=> import.step = "none"
    BY <2>1 DEF JobEnds, JobBecomes, JobOK
  <2>5. /\ items'[i] # None /\ items'[i].brought = "tracker" =>
             import.step # "none" /\ items'[i].project = import.project
        /\ items'[i] # None => items'[i].ref <= MaxNumber[items'[i].project]
    BY <2>1 DEF BaseInv, ImportInv, RangeInv
  <2> QED BY <2>1, <2>2, <2>3, <2>4, <2>5, BaseOfJob DEF JobEnds, JobBecomes, OthersStay
<1>10. CASE SaveNumber(i)
  <2> DEFINE job == jobs[i]
  <2>1. /\ job.step = "referred" /\ job.project \in Projects /\ job.number \in Nat
        /\ OthersStay(i) /\ RowBecomes(i, job.kind, job.project, job.number, "no")
        /\ IF job.do = "import"
           THEN JobBecomes(i, "import", job.kind, job.project, job.number, "saved")
           ELSE JobEnds(i)
        /\ references' = IF Atomic(i)
                         THEN references \cup {[project |-> job.project, ref |-> job.number,
                                                item |-> i]}
                         ELSE references
        /\ UNCHANGED <<sequence, import>>
    BY <1>10, NumberSaved
  <2>2. references' \subseteq ReferenceRows
    BY <2>1 DEF ReferenceRows
  <2>3. JobOK(i)'
    BY <2>1 DEF JobEnds, JobBecomes, RowBecomes, JobOK, Given, Bringing
  <2>4. /\ jobs'[i].do = "import" => \A j \in Items \ {i} : jobs[j].do # "import"
        /\ job.number <= MaxNumber[job.project]
    BY <2>1, NumbersAssumption DEF JobEnds, JobBecomes, BaseInv, JobInv, RangeInv
  <2> QED BY <2>1, <2>2, <2>3, <2>4, BaseOfPlainJob DEF JobEnds, JobBecomes, RowBecomes
<1>11. CASE StoreNext(i)
  <2> DEFINE p == jobs[i].project
             n == sequence[p] + 1
  <2>1. /\ p \in Projects /\ n \in Nat /\ jobs[i].step = "brought" /\ items' = items
        /\ OthersStay(i)
        /\ JobBecomes(i, jobs[i].do, jobs[i].kind, p, jobs[i].number, "advanced")
        /\ sequence' = [sequence EXCEPT ![p] = n]
        /\ UNCHANGED <<references, import>>
    BY <1>11, StoreAdvanced
  <2>2. sequence' \in [Projects -> Nat]
    BY <2>1, SequenceTypes
  <2> HIDE DEF n
  <2>3. JobOK(i)'
    BY <2>1 DEF JobBecomes, JobOK, Given, Bringing
  <2>4. /\ jobs'[i].do = "import" => \A j \in Items \ {i} : jobs[j].do # "import"
        /\ jobs'[i].number > 0 => jobs'[i].number <= MaxNumber[jobs'[i].project]
    BY <2>1 DEF JobBecomes, BaseInv, JobInv, RangeInv
  <2> QED BY <2>1, <2>2, <2>3, <2>4, BaseOfPlainJob DEF JobBecomes
<1>12. CASE StoreSet(i)
  <2> DEFINE job == jobs[i]
             m == IF job.next >= job.number THEN job.next ELSE job.number
  <2>1. /\ job.step = "advanced" /\ job.project \in Projects /\ job.number \in Nat /\ job.next \in Nat
        /\ OthersStay(i) /\ RowBecomes(i, job.kind, job.project, job.number, "dump") /\ JobEnds(i)
        /\ sequence' = [sequence EXCEPT ![job.project] = m]
        /\ UNCHANGED <<references, import>>
    BY <1>12, StoreDone
  <2>2. sequence' \in [Projects -> Nat]
    BY <2>1, SequenceTypes
  <2>3. JobOK(i)'
    BY <2>1 DEF JobEnds, JobBecomes, JobOK, Given, Bringing
  <2>4. job.number <= MaxNumber[job.project]
    BY <2>1, NumbersAssumption DEF BaseInv, RangeInv
  <2> QED BY <2>1, <2>2, <2>3, <2>4, BaseOfPlainJob DEF JobEnds, JobBecomes, RowBecomes
<1>13. CASE Delete(i)
  <2>1. /\ items'[i] = None /\ OthersStay(i)
        /\ JobBecomes(i, "nothing", jobs[i].kind, None, 0, "gone")
        /\ UNCHANGED <<sequence, references, import>>
    BY <1>13, Deleted
  <2>2. JobOK(i)'
    BY <2>1 DEF JobBecomes, JobOK, Given, Bringing
  <2> QED BY <2>1, <2>2, BaseOfPlainJob DEF JobBecomes
<1>14. CASE Die(i)
  <2>1. /\ OthersStay(i) /\ JobEnds(i) /\ items' = items
        /\ UNCHANGED <<sequence, references, import>>
    BY <1>14, Died
  <2>2. JobOK(i)'
    BY <2>1 DEF JobEnds, JobBecomes, JobOK, Given, Bringing
  <2> QED BY <2>1, <2>2, BaseOfPlainJob DEF JobEnds, JobBecomes
<1>15. CASE \E n \in Numbers \ {0} : BringNumber(i, n)
  <2>1. PICK n \in Numbers \ {0} : BringNumber(i, n)
    BY <1>15
  <2>2. /\ import.project \in Projects /\ n \in Nat /\ n <= MaxNumber[import.project]
        /\ import.step = "items" /\ OthersStay(i) /\ JobEnds(i)
        /\ RowBecomes(i, items[i].kind, import.project, n, "tracker")
        /\ UNCHANGED <<sequence, references, import>>
    BY <2>1, NumberBrought
  <2>3. TypeInv'
    BY <2>2, TypesOfJob DEF JobEnds, JobBecomes, RowBecomes
  <2>4. JobOK(i)'
    BY <2>2 DEF JobEnds, JobBecomes, JobOK, Given, Bringing
  <2> QED BY <2>2, <2>3, <2>4, BaseOfJob DEF JobEnds, JobBecomes, RowBecomes, OthersStay
<1> QED BY <1>2, <1>3, <1>4, <1>5, <1>6, <1>7, <1>8, <1>9, <1>10, <1>11, <1>12, <1>13, <1>14,
           <1>15 DEF JobStep, ItemNext

LEMMA BaseStep == BaseInv /\ [Next]_vars => BaseInv'
<1> SUFFICES ASSUME BaseInv, [Next]_vars PROVE BaseInv'
  OBVIOUS
<1>1. CASE \E i \in Items : JobStep(i)
  BY <1>1, BaseItemStep
<1>2. CASE \E p \in Projects : StartImport(p)
  <2>1. PICK p \in Projects : StartImport(p)
    BY <1>2
  <2>2. /\ import.step = "none" /\ \A i \in Items : jobs[i].project # p
        /\ import' \in Imports /\ import'.project = p /\ import'.step = "items"
        /\ UNCHANGED <<items, sequence, references, jobs>>
    BY <2>1, ImportStarted
  <2>3. TypeInv' /\ RangeInv' /\ ImportInv'
    BY <2>2 DEF BaseInv, TypeInv, RangeInv, ImportInv
  <2>4. JobInv'
    BY <2>2 DEF BaseInv, JobInv, JobOK
  <2> QED BY <2>3, <2>4 DEF BaseInv
<1>3. ASSUME import' \in Imports, import'.project = import.project, import.step # "none",
             import'.step # "none", \A i \in Items : jobs[i].do # "import",
             UNCHANGED <<items, references, jobs>>, sequence' \in [Projects -> Nat]
      PROVE  BaseInv'
  <2>1. TypeInv' /\ RangeInv' /\ ImportInv'
    BY <1>3 DEF BaseInv, TypeInv, RangeInv, ImportInv
  <2>2. JobInv'
    BY <1>3 DEF BaseInv, JobInv, JobOK
  <2> QED BY <2>1, <2>2 DEF BaseInv
<1>4. \A i \in Items : import.step # "items" => jobs[i].do # "import"
  BY DEF BaseInv, JobInv, JobOK
<1>5. CASE RecalcCount
  <2>1. sequence' \in [Projects -> Nat]
    BY <1>5, RecalcCounted DEF BaseInv, TypeInv
  <2> QED BY <1>3, <1>5, <2>1, RecalcCounted
<1>6. CASE RecalcNext
  <2>1. sequence' \in [Projects -> Nat]
    BY <1>6, RecalcAdvanced, SequenceTypes
  <2> QED BY <1>3, <1>4, <1>6, <2>1, RecalcAdvanced
<1>7. CASE RecalcSet
  <2>1. sequence' \in [Projects -> Nat]
    BY <1>7, RecalcDone, SequenceTypes
  <2> QED BY <1>3, <1>4, <1>7, <2>1, RecalcDone
<1>8. CASE ImportFails
  <2>1. /\ import.step \in {"items", "counted"}
        /\ import' \in Imports /\ import'.project = import.project /\ import'.step = "failed"
        /\ jobs' \in [Items -> Jobs]
        /\ \A i \in Items : IF jobs[i].do = "import" THEN JobEnds(i) ELSE jobs'[i] = jobs[i]
        /\ UNCHANGED <<items, sequence, references>>
    BY <1>8, ImportFailed
  <2>2. TypeInv' /\ ImportInv'
    BY <2>1 DEF BaseInv, TypeInv, ImportInv
  <2>3. RangeInv'
    BY <2>1 DEF BaseInv, RangeInv, JobEnds, JobBecomes
  <2>4. JobInv'
    <3>1. ASSUME NEW i \in Items PROVE JobOK(i)' /\ jobs'[i].do # "import"
      <4>1. CASE jobs[i].do = "import"
        BY <2>1, <4>1 DEF JobEnds, JobBecomes, JobOK, Given, Bringing
      <4>2. CASE jobs[i].do # "import"
        BY <2>1, <4>2 DEF BaseInv, JobInv, JobOK
      <4> QED BY <4>1, <4>2
    <3> QED BY <3>1 DEF JobInv
  <2> QED BY <2>2, <2>3, <2>4 DEF BaseInv
<1>9. CASE UNCHANGED vars
  BY <1>9 DEF vars, BaseInv, TypeInv, JobInv, JobOK, ImportInv, RangeInv
<1> QED BY <1>1, <1>2, <1>5, <1>6, <1>7, <1>8, <1>9 DEF Next, ImportNext, JobStep

-----------------------------------------------------------------------------
(* Links lead home.                                                        *)

RowOf(i, p, n) == [project |-> p, ref |-> n, item |-> i]

\* The row for the number that Taiga gave to an item is there when the item shows the number,
\* and a transaction that has inserted its row is the only one to insert that number.
LinkOK(i) ==
  /\ items[i] # None /\ items[i].ref # 0 /\ items[i].brought = "no" =>
       RowOf(i, items[i].project, items[i].ref) \in references
  /\ jobs[i].step = "referred" =>
       IF Atomic(i) THEN ~ Refused(i) /\ ~ Contended(i)
       ELSE RowOf(i, jobs[i].project, jobs[i].number) \in references

\* A number of a project leads to one item.
RowsDiffer == \A r, q \in references : r.project = q.project /\ r.ref = q.ref => r = q

LinkInv == RowsDiffer /\ \A i \in Items : LinkOK(i)

\* A step of one job that inserts no row, at once or in its transaction.
LEMMA LinksOfJob ==
  ASSUME LinkInv, NEW i \in Items, OthersStay(i), UNCHANGED references,
         jobs'[i].step # "referred",
         items' = items \/ items'[i] = None \/ items'[i].ref = 0 \/ items'[i].brought # "no"
           \/ RowOf(i, items'[i].project, items'[i].ref) \in references
  PROVE  LinkInv'
<1>1. RowsDiffer'
  BY DEF LinkInv, RowsDiffer
<1>2. LinkOK(i)'
  BY DEF LinkInv, LinkOK
<1>3. ASSUME NEW j \in Items \ {i} PROVE LinkOK(j)'
  <2>1. LinkOK(j) /\ jobs'[j] = jobs[j] /\ items'[j] = items[j]
    BY DEF LinkInv, OthersStay
  <2>2. Atomic(j)' <=> Atomic(j)
    BY <2>1 DEF Atomic
  <2>3. Refused(j)' <=> Refused(j)
    BY <2>1 DEF Refused
  <2>4. Contended(j)' => Contended(j)
    BY <2>1 DEF Contended, OthersStay, Atomic
  <2> QED BY <2>1, <2>2, <2>3, <2>4 DEF LinkOK
<1> QED BY <1>1, <1>2, <1>3 DEF LinkInv

\* The insert of a row that no committed row and no transaction contradicts.
LEMMA LinksOfRefer ==
  ASSUME BaseInv, LinkInv, NEW i \in Items, Refer(i)
  PROVE  LinkInv'
<1> DEFINE p == jobs[i].project
           n == jobs[i].number
           row == RowOf(i, p, n)
<1>1. /\ jobs[i].step = "numbered" /\ ~ Refused(i) /\ ~ Contended(i) /\ items' = items
      /\ OthersStay(i) /\ JobBecomes(i, jobs[i].do, jobs[i].kind, p, n, "referred")
      /\ references' = IF Atomic(i) THEN references ELSE references \cup {row}
  BY Referred DEF RowOf
<1>2. row.project = p /\ row.ref = n
  BY DEF RowOf
<1>3. \A r \in references : ~ (r.project = p /\ r.ref = n)
  BY <1>1 DEF Refused
<1> HIDE DEF row
<1>4. Atomic(i)' <=> Atomic(i)
  BY <1>1 DEF Atomic, JobBecomes
<1>5. RowsDiffer'
  BY <1>1, <1>2, <1>3 DEF LinkInv, RowsDiffer
<1>6. ASSUME NEW j \in Items \ {i} PROVE LinkOK(j)'
  <2>1. LinkOK(j) /\ jobs'[j] = jobs[j] /\ items'[j] = items[j]
    BY <1>1 DEF LinkInv, OthersStay
  <2>2. Atomic(j)' <=> Atomic(j)
    BY <2>1 DEF Atomic
  <2>3. CASE jobs[j].step = "referred" /\ Atomic(j)
    <3>1. ~ (jobs[j].project = p /\ jobs[j].number = n)
      BY <1>1, <2>3 DEF Contended
    <3>2. ~ Refused(j)' /\ ~ Contended(j)'
      <4>1. ~ Refused(j) /\ ~ Contended(j)
        BY <2>1, <2>3 DEF LinkOK
      <4>2. ~ Refused(j)'
        BY <1>1, <1>2, <2>1, <3>1, <4>1 DEF Refused
      <4>3. ~ Contended(j)'
        <5> SUFFICES ASSUME NEW k \in Items \ {j}, jobs'[k].step = "referred", Atomic(k)',
                            jobs'[k].project = jobs[j].project, jobs'[k].number = jobs[j].number
                     PROVE  FALSE
          BY <2>1 DEF Contended
        <5>1. k # i
          BY <1>1, <3>1 DEF JobBecomes
        <5>2. jobs'[k] = jobs[k]
          BY <1>1, <5>1 DEF OthersStay
        <5> QED BY <4>1, <5>2 DEF Contended, Atomic
      <4> QED BY <4>2, <4>3
    <3> QED BY <1>1, <2>1, <2>2, <2>3, <3>2 DEF LinkOK
  <2>4. CASE ~ (jobs[j].step = "referred" /\ Atomic(j))
    BY <1>1, <2>1, <2>2, <2>4 DEF LinkOK
  <2> QED BY <2>3, <2>4
<1>7. LinkOK(i)'
  <2>1. /\ items'[i] # None /\ items'[i].ref # 0 /\ items'[i].brought = "no" =>
             RowOf(i, items'[i].project, items'[i].ref) \in references'
    BY <1>1 DEF LinkInv, LinkOK
  <2>2. CASE Atomic(i)
    <3>1. ~ Refused(i)'
      BY <1>1, <2>2 DEF Refused, JobBecomes
    <3>2. ~ Contended(i)'
      BY <1>1 DEF Contended, OthersStay, Atomic, JobBecomes
    <3> QED BY <1>4, <2>1, <2>2, <3>1, <3>2 DEF LinkOK
  <2>3. CASE ~ Atomic(i)
    BY <1>1, <1>4, <2>1, <2>3 DEF LinkOK, JobBecomes, row
  <2> QED BY <2>2, <2>3
<1> QED BY <1>5, <1>6, <1>7 DEF LinkInv

\* The commit of a transaction's row, which is the only one with its number.
LEMMA LinksOfSave ==
  ASSUME BaseInv, LinkInv, NEW i \in Items, SaveNumber(i)
  PROVE  LinkInv'
<1> DEFINE p == jobs[i].project
           n == jobs[i].number
           row == RowOf(i, p, n)
<1>1. /\ jobs[i].step = "referred"
      /\ OthersStay(i) /\ RowBecomes(i, jobs[i].kind, p, n, "no") /\ jobs'[i].step # "referred"
      /\ references' = IF Atomic(i) THEN references \cup {row} ELSE references
  BY NumberSaved DEF RowOf, JobBecomes, JobEnds
<1>2. row.project = p /\ row.ref = n
  BY DEF RowOf
<1> HIDE DEF row
<1>3. CASE ~ Atomic(i)
  <2>1. row \in references
    BY <1>1, <1>3 DEF LinkInv, LinkOK, row
  <2> QED BY <1>1, <1>3, <2>1, LinksOfJob DEF RowBecomes, row
<1>4. CASE Atomic(i)
  <2>1. ~ Refused(i) /\ ~ Contended(i)
    BY <1>1, <1>4 DEF LinkInv, LinkOK
  <2>2. RowsDiffer'
    BY <1>1, <1>2, <1>4, <2>1 DEF LinkInv, RowsDiffer, Refused
  <2>3. LinkOK(i)'
    BY <1>1, <1>4 DEF LinkOK, RowBecomes, row
  <2>4. ASSUME NEW j \in Items \ {i} PROVE LinkOK(j)'
    <3>1. LinkOK(j) /\ jobs'[j] = jobs[j] /\ items'[j] = items[j]
      BY <1>1 DEF LinkInv, OthersStay
    <3>2. Atomic(j)' <=> Atomic(j)
      BY <3>1 DEF Atomic
    <3>3. CASE jobs[j].step = "referred" /\ Atomic(j)
      <4>1. ~ Refused(j) /\ ~ Contended(j)
        BY <3>1, <3>3 DEF LinkOK
      <4>2. ~ (jobs[j].project = p /\ jobs[j].number = n)
        BY <2>1, <3>3 DEF Contended
      <4>3. ~ Refused(j)'
        BY <1>1, <1>2, <1>4, <3>1, <4>1, <4>2 DEF Refused
      <4>4. ~ Contended(j)'
        BY <1>1, <3>1, <4>1 DEF Contended, OthersStay, Atomic
      <4> QED BY <1>1, <3>1, <3>2, <3>3, <4>3, <4>4 DEF LinkOK
    <3>4. CASE ~ (jobs[j].step = "referred" /\ Atomic(j))
      BY <1>1, <3>1, <3>2, <3>4 DEF LinkOK
    <3> QED BY <3>3, <3>4
  <2> QED BY <2>2, <2>3, <2>4 DEF LinkInv
<1> QED BY <1>3, <1>4

LEMMA LinkStep == BaseInv /\ LinkInv /\ [Next]_vars => LinkInv'
<1> SUFFICES ASSUME BaseInv, LinkInv, [Next]_vars PROVE LinkInv'
  OBVIOUS
<1>1. ASSUME NEW i \in Items, NEW do \in {"create", "import"}, NEW kind \in Kinds,
             NEW p \in Projects, Insert(i, do, kind, p)
      PROVE  LinkInv'
  BY <1>1, Inserted, LinksOfJob DEF JobBecomes, RowBecomes
<1>2. ASSUME NEW i \in Items, NEW kind \in Kinds, NEW p \in Projects, Create(i, kind, p)
      PROVE  LinkInv'
  BY <1>1, <1>2 DEF Create
<1>3. ASSUME NEW i \in Items, NEW kind \in Kinds, ImportItem(i, kind) PROVE LinkInv'
  <2>1. import.project \in Projects /\ Insert(i, "import", kind, import.project)
    BY <1>3 DEF ImportItem, BaseInv, ImportInv
  <2> QED BY <1>1, <2>1
<1>4. ASSUME NEW i \in Items, NEW kind \in Kinds, NEW p \in Projects, StoreUnnumbered(i, kind, p)
      PROVE  LinkInv'
  BY <1>4, StoreBegun, LinksOfJob DEF JobBecomes
<1>5. ASSUME NEW i \in Items, NEW kind \in Kinds, NEW p \in Projects,
             NEW n \in 1..MaxNumber[p], Store(i, kind, p, n)
      PROVE  LinkInv'
  BY <1>5, Brought, LinksOfJob DEF JobBecomes
<1>6. ASSUME NEW i \in Items, NEW p \in Projects, Move(i, p) PROVE LinkInv'
  BY <1>6, MoveBegun, LinksOfJob DEF JobBecomes
<1>7. ASSUME NEW i \in Items, TakeNumber(i) PROVE LinkInv'
  BY <1>7, NumberTaken, LinksOfJob DEF JobBecomes
<1>8. ASSUME NEW i \in Items, Refuse(i) PROVE LinkInv'
  BY <1>8, RefusalDone, LinksOfJob DEF JobEnds, JobBecomes
<1>9. ASSUME NEW i \in Items, StoreNext(i) PROVE LinkInv'
  BY <1>9, StoreAdvanced, LinksOfJob DEF JobBecomes
<1>10. ASSUME NEW i \in Items, StoreSet(i) PROVE LinkInv'
  BY <1>10, StoreDone, LinksOfJob DEF JobEnds, JobBecomes, RowBecomes
<1>11. ASSUME NEW i \in Items, Delete(i) PROVE LinkInv'
  BY <1>11, Deleted, LinksOfJob DEF JobBecomes
<1>12. ASSUME NEW i \in Items, Die(i) PROVE LinkInv'
  BY <1>12, Died, LinksOfJob DEF JobEnds, JobBecomes
<1>13. ASSUME NEW i \in Items, NEW n \in Numbers \ {0}, BringNumber(i, n) PROVE LinkInv'
  BY <1>13, NumberBrought, LinksOfJob DEF JobEnds, JobBecomes, RowBecomes
<1>14. ASSUME UNCHANGED <<items, references, jobs>> PROVE LinkInv'
  BY <1>14 DEF LinkInv, RowsDiffer, LinkOK, Refused, Contended, Atomic
<1>15. CASE ImportFails
  <2>1. /\ \A i \in Items : IF jobs[i].do = "import" THEN JobEnds(i) ELSE jobs'[i] = jobs[i]
        /\ UNCHANGED <<items, references>>
    BY <1>15, ImportFailed
  <2>2. RowsDiffer'
    BY <2>1 DEF LinkInv, RowsDiffer
  <2>3. ASSUME NEW i \in Items PROVE LinkOK(i)'
    <3>1. CASE jobs'[i] = jobs[i]
      <4>1. LinkOK(i) /\ (Refused(i)' <=> Refused(i)) /\ (Atomic(i)' <=> Atomic(i))
        BY <2>1, <3>1 DEF LinkInv, Refused, Atomic
      <4>2. Contended(i)' => Contended(i)
        BY <2>1, <3>1 DEF Contended, Atomic, JobEnds, JobBecomes
      <4> QED BY <2>1, <3>1, <4>1, <4>2 DEF LinkOK
    <3>2. CASE JobEnds(i)
      BY <2>1, <3>2 DEF LinkInv, LinkOK, JobEnds, JobBecomes
    <3> QED BY <2>1, <3>1, <3>2
  <2> QED BY <2>2, <2>3 DEF LinkInv
<1>16. CASE \E p \in Projects : StartImport(p)
  BY <1>14, <1>16 DEF StartImport
<1>17. CASE RecalcCount \/ RecalcNext \/ RecalcSet \/ UNCHANGED vars
  BY <1>14, <1>17 DEF RecalcCount, RecalcNext, RecalcSet, vars
<1> QED BY <1>2, <1>3, <1>4, <1>5, <1>6, <1>7, <1>8, <1>9, <1>10, <1>11, <1>12, <1>13, <1>15,
           <1>16, <1>17, LinksOfRefer, LinksOfSave DEF Next, ItemNext, ImportNext

\* The link to a number that Taiga gave leads to its item alone, however items are created,
\* moved, stored, imported, deleted and refused, and whoever sets the sequence meanwhile.
THEOREM LinksHome == Spec => []LinksLeadHome
<1>1. Init => BaseInv /\ LinkInv
  <2>1. Init => LinkInv
    BY DEF Init, LinkInv, RowsDiffer, LinkOK, Idle
  <2> QED BY <2>1, InitBase
<1>2. BaseInv /\ LinkInv /\ [Next]_vars => (BaseInv /\ LinkInv)'
  BY BaseStep, LinkStep
<1>3. BaseInv /\ LinkInv => LinksLeadHome
  <2> SUFFICES ASSUME BaseInv, LinkInv, NEW i \in Items, items[i] # None, items[i].ref # 0,
                      items[i].brought = "no"
               PROVE  {r.item : r \in {q \in references : q.project = items[i].project
                                                          /\ q.ref = items[i].ref}} = {i}
    BY DEF LinksLeadHome
  <2> DEFINE row == RowOf(i, items[i].project, items[i].ref)
  <2>1. row \in references
    BY DEF LinkInv, LinkOK
  <2>2. row.project = items[i].project /\ row.ref = items[i].ref /\ row.item = i
    BY DEF RowOf
  <2> HIDE DEF row
  <2>3. {q \in references : q.project = items[i].project /\ q.ref = items[i].ref} = {row}
    BY <2>1, <2>2 DEF LinkInv, RowsDiffer
  <2> QED BY <2>2, <2>3
<1> QED BY <1>1, <1>2, <1>3, PTL DEF Spec

-----------------------------------------------------------------------------
(* Numbers of a project that never gave one while a job set its sequence.  *)

\* No number beyond the sequence of p but those of dumps and trackers on their way there.
RowBelow(p, i) ==
  items[i] # None /\ items[i].project = p =>
    /\ items[i].brought # "tracker" => items[i].ref <= sequence[p]
    /\ items[i].brought = "tracker" /\ items[i].kind # "epic" =>
         /\ import.step \in {"counted", "advanced"} => items[i].ref <= import.max
         /\ import.step = "over" => items[i].ref <= sequence[p]

JobBelow(p, i) ==
  jobs[i].project = p =>
    /\ jobs[i].step \in Given => jobs[i].number <= sequence[p]
    /\ jobs[i].step = "advanced" => /\ jobs[i].next = sequence[p]
                                    /\ ~ (import.project = p /\ import.step = "advanced")

Advanced(p, i) == jobs[i].project = p /\ jobs[i].step = "advanced"

SequenceInv(p) ==
  /\ \A i \in Items : RowBelow(p, i) /\ JobBelow(p, i)
  /\ \A i, j \in Items : Advanced(p, i) /\ Advanced(p, j) => i = j
  /\ import.project = p /\ import.step = "advanced" => import.next = sequence[p]
  /\ \A r \in references : r.project = p => r.ref <= sequence[p]

\* Who has a number of the sequence while the import runs is known to have it too early.
EarlyOK(p, i) ==
  \/ <<i, p>> \in early
  \/ /\ items[i] # None /\ items[i].project = p /\ items[i].brought = "no" => items[i].ref = 0
     /\ jobs[i].project = p => jobs[i].step \notin Given

EarlyInv(p) == ImportRuns(p) => \A i \in Items : EarlyOK(p, i)

\* An item that has a number of p, or is about to get it.
Has(i, p, n) ==
  \/ items[i] # None /\ items[i].project = p /\ items[i].ref = n
  \/ jobs[i].project = p /\ jobs[i].number = n

Exempt(k, p) ==
  \/ <<k, p>> \in early
  \/ /\ items[k] # None /\ items[k].project = p
     /\ items[k].kind = "epic" /\ items[k].brought = "tracker"
  \/ jobs[k].project = p /\ jobs[k].step \in Bringing

\* Item i of p was given the number of j from outside.
Took(i, j, p) == items[i] # None /\ items[i].project = p /\ j \in items[i].taken

UniqueInv(p) ==
  \A i, j \in Items : i # j => \A n \in Nat \ {0} :
    Has(i, p, n) /\ Has(j, p, n) => Exempt(i, p) \/ Exempt(j, p) \/ Took(i, j, p) \/ Took(j, i, p)

\* A job that is numbering an item of p has a number of its own, for which no row is there.
FreshInv(p) ==
  /\ \A i, j \in Items :
       /\ jobs[i].project = p /\ jobs[i].step \in Given
       /\ jobs[j].project = p /\ jobs[j].step \in Given
       /\ jobs[i].number = jobs[j].number
       => i = j
  /\ \A i \in Items : jobs[i].project = p /\ jobs[i].step = "numbered" => ~ Refused(i)

\* An item that is numbered anew has no number brought to its project.
NoneBrought(i) ==
  /\ jobs[i].step \in {"inserted"} \cup Given
  /\ items[i] # None /\ items[i].project = jobs[i].project
  => items[i].brought = "no" /\ items[i].taken = {}

OrderlyInv(p) == SequenceInv(p) /\ EarlyInv(p) /\ UniqueInv(p) /\ FreshInv(p)

NumberInv ==
  /\ \A i \in Items : NoneBrought(i)
  /\ \A p \in Projects \ raced : OrderlyInv(p)

LEMMA InitNumbers == Init => NumberInv
<1> SUFFICES ASSUME Init PROVE NumberInv
  OBVIOUS
<1>1. \A i \in Items : items[i] = None /\ jobs[i].step = "idle" /\ jobs[i].project = None
                       /\ jobs[i].number = 0
  BY DEF Init, Idle
<1>2. references = {} /\ import.step = "none"
  BY DEF Init
<1>3. ASSUME NEW p \in Projects PROVE SequenceInv(p) /\ EarlyInv(p)
  BY <1>1, <1>2 DEF SequenceInv, RowBelow, JobBelow, Advanced, EarlyInv, ImportRuns, Given
<1>4. ASSUME NEW p \in Projects PROVE UniqueInv(p) /\ FreshInv(p)
  BY <1>1, <1>2 DEF UniqueInv, Has, FreshInv, Given
<1> QED BY <1>1, <1>3, <1>4 DEF NumberInv, OrderlyInv, NoneBrought, Given

LEMMA NumberTypes ==
  ASSUME BaseInv
  PROVE  /\ \A p \in Projects : sequence[p] \in Nat
         /\ \A i \in Items : /\ jobs[i].number \in Nat /\ jobs[i].next \in Nat
                             /\ items[i] # None => items[i].ref \in Nat
         /\ import.max \in Nat /\ import.next \in Nat
         /\ \A r \in references : r.ref \in Nat
BY DEF BaseInv, TypeInv, Jobs, ItemRows, Imports, ReferenceRows

-----------------------------------------------------------------------------
(* The sequence.                                                           *)

\* A step of one job that leaves the sequence of p alone.
LEMMA SequenceOfJob ==
  ASSUME NEW p \in Projects, SequenceInv(p), NEW i \in Items, OthersStay(i),
         sequence'[p] = sequence[p],
         import' = import \/ import'.step = "failed",
         \/ items' = items \/ items'[i] = None
         \/ items'[i].project # p
         \/ items'[i].brought # "tracker" /\ items'[i].ref <= sequence[p]
         \/ items'[i].brought = "tracker" /\ import'.step = "items",
         jobs'[i].project = p => /\ jobs'[i].step \in Given => jobs'[i].number <= sequence[p]
                                 /\ jobs'[i].step # "advanced",
         \A r \in references' : r \in references \/ r.project # p \/ r.ref <= sequence[p]
  PROVE  SequenceInv(p)'
<1>1. ASSUME NEW j \in Items PROVE RowBelow(p, j)'
  <2>1. CASE items'[j] = items[j]
    BY <2>1 DEF SequenceInv, RowBelow
  <2>2. CASE items'[j] # items[j]
    BY <2>2 DEF OthersStay, RowBelow
  <2> QED BY <2>1, <2>2
<1>2. ASSUME NEW j \in Items PROVE JobBelow(p, j)'
  <2>1. CASE j = i
    BY <2>1 DEF JobBelow
  <2>2. CASE j # i
    BY <2>2 DEF SequenceInv, OthersStay, JobBelow
  <2> QED BY <2>1, <2>2
<1>3. \A j \in Items : Advanced(p, j)' => Advanced(p, j)
  BY DEF Advanced, OthersStay
<1> QED BY <1>1, <1>2, <1>3 DEF SequenceInv


\* A step that sets the sequence of p, and not lower.
LEMMA SequenceRaised ==
  ASSUME BaseInv, NEW p \in Projects, SequenceInv(p), NEW n \in Nat, sequence'[p] = n,
         n >= sequence[p], UNCHANGED references,
         \A j \in Items : \/ items'[j] = items[j]
                          \/ items'[j].brought # "tracker" /\ items'[j].ref <= n,
         \A j \in Items : jobs'[j].project = p =>
           /\ jobs'[j].step \in Given => jobs'[j] = jobs[j] \/ jobs'[j].number <= n
           /\ jobs'[j].step = "advanced" => jobs'[j].next = n,
         \A j, k \in Items : Advanced(p, j)' /\ Advanced(p, k)' => j = k,
         import'.project = p /\ import'.step = "advanced" =>
           import'.next = n /\ \A j \in Items : ~ Advanced(p, j)',
         \/ import' = import
         \/ import.step = "counted" /\ import'.step = "advanced" /\ import'.max = import.max
         \/ import.step = "advanced" /\ import'.step = "over" /\ import.max <= n
  PROVE  SequenceInv(p)'
<1> USE NumberTypes
<1>1. ASSUME NEW j \in Items PROVE RowBelow(p, j)'
  <2>1. CASE items'[j] = items[j]
    <3>1. RowBelow(p, j)
      BY DEF SequenceInv
    <3> SUFFICES ASSUME items[j] # None, items[j].project = p PROVE RowBelow(p, j)'
      BY <2>1 DEF RowBelow
    <3>2. items[j].brought # "tracker" => items[j].ref <= n
      BY <3>1 DEF RowBelow
    <3>3. ASSUME items[j].brought = "tracker", items[j].kind # "epic"
          PROVE  /\ import'.step \in {"counted", "advanced"} => items[j].ref <= import'.max
                 /\ import'.step = "over" => items[j].ref <= n
      <4>1. /\ import.step \in {"counted", "advanced"} => items[j].ref <= import.max
            /\ import.step = "over" => items[j].ref <= sequence[p]
        BY <3>1, <3>3 DEF RowBelow
      <4>2. CASE import' = import
        BY <4>1, <4>2
      <4>3. CASE import.step = "counted" /\ import'.step = "advanced" /\ import'.max = import.max
        BY <4>1, <4>3
      <4>4. CASE import.step = "advanced" /\ import'.step = "over" /\ import.max <= n
        BY <4>1, <4>4
      <4> QED BY <4>2, <4>3, <4>4
    <3> QED BY <2>1, <3>2, <3>3 DEF RowBelow
  <2>2. CASE items'[j] # items[j]
    BY <2>2 DEF RowBelow
  <2> QED BY <2>1, <2>2
<1>2. ASSUME NEW j \in Items PROVE JobBelow(p, j)'
  <2>1. jobs'[j].project = p /\ jobs'[j].step \in Given => jobs'[j].number <= n
    BY DEF SequenceInv, JobBelow
  <2> QED BY <2>1 DEF JobBelow, Advanced
<1>3. \A r \in references' : r.project = p => r.ref <= n
  BY DEF SequenceInv
<1> QED BY <1>1, <1>2, <1>3 DEF SequenceInv

LEMMA SequenceJobStep ==
  ASSUME BaseInv, NEW p \in Projects, SequenceInv(p), p \notin raced',
         NEW i \in Items, JobStep(i)
  PROVE  SequenceInv(p)'
<1> USE NumberTypes
<1>1. ASSUME NEW do \in {"create", "import"}, NEW kind \in Kinds, NEW q \in Projects,
             Insert(i, do, kind, q)
      PROVE  SequenceInv(p)'
  BY <1>1, Inserted, SequenceOfJob DEF JobBecomes, RowBecomes, Given
<1>2. CASE \E kind \in Kinds, q \in Projects : Create(i, kind, q)
  BY <1>1, <1>2 DEF Create
<1>3. CASE \E kind \in Kinds : ImportItem(i, kind)
  BY <1>1, <1>3 DEF ImportItem, BaseInv, ImportInv
<1>4. CASE \E kind \in Kinds, q \in Projects : StoreUnnumbered(i, kind, q)
  BY <1>4, StoreBegun, SequenceOfJob DEF JobBecomes, Given
<1>5. CASE \E kind \in Kinds, q \in Projects : \E n \in 1..MaxNumber[q] : Store(i, kind, q, n)
  <2>1. PICK kind \in Kinds, q \in Projects : \E n \in 1..MaxNumber[q] : Store(i, kind, q, n)
    BY <1>5
  <2>2. PICK n \in 1..MaxNumber[q] : Store(i, kind, q, n)
    BY <2>1
  <2> QED BY <2>2, Brought, SequenceOfJob DEF JobBecomes, Given
<1>6. CASE \E q \in Projects : Move(i, q)
  BY <1>6, MoveBegun, SequenceOfJob DEF JobBecomes, Given
<1>7. CASE TakeNumber(i)
  <2> DEFINE q == jobs[i].project
             n == sequence[q] + 1
  <2>1. /\ q \in Projects /\ n \in Nat /\ items' = items /\ OthersStay(i)
        /\ JobBecomes(i, jobs[i].do, jobs[i].kind, q, n, "numbered")
        /\ sequence' = [sequence EXCEPT ![q] = n]
        /\ raced' = IF Setting(q) THEN raced \cup {q} ELSE raced
        /\ UNCHANGED <<references, import>>
    BY <1>7, NumberTaken
  <2> HIDE DEF n
  <2>2. CASE p = q
    <3>1. sequence'[p] = n /\ n >= sequence[p] /\ ~ Setting(p)
      BY <2>1, <2>2 DEF n, BaseInv, TypeInv
    <3>2. \A j \in Items : ~ Advanced(p, j)'
      BY <2>1, <3>1 DEF JobBecomes, OthersStay, Advanced, Setting
    <3>3. ~ (import'.project = p /\ import'.step = "advanced")
      BY <2>1, <3>1 DEF Setting
    <3>4. \A j \in Items : jobs'[j].project = p =>
            /\ jobs'[j].step \in Given => jobs'[j] = jobs[j] \/ jobs'[j].number <= n
            /\ jobs'[j].step = "advanced" => jobs'[j].next = n
      BY <2>1, <3>2 DEF JobBecomes, OthersStay, Advanced
    <3> QED BY <2>1, <3>1, <3>2, <3>3, <3>4, SequenceRaised
  <2>3. CASE p # q
    <3>1. sequence'[p] = sequence[p]
      BY <2>1, <2>3 DEF BaseInv, TypeInv
    <3> QED BY <2>1, <2>3, <3>1, SequenceOfJob DEF JobBecomes
  <2> QED BY <2>2, <2>3
<1>8. CASE Refer(i)
  <2> DEFINE q == jobs[i].project
             n == jobs[i].number
  <2>1. /\ jobs[i].step = "numbered" /\ items' = items /\ OthersStay(i)
        /\ JobBecomes(i, jobs[i].do, jobs[i].kind, q, n, "referred")
        /\ references' \in {references, references \cup {RowOf(i, q, n)}}
        /\ UNCHANGED <<sequence, import>>
    BY <1>8, Referred DEF RowOf
  <2>2. q = p => n <= sequence[p]
    BY <2>1 DEF SequenceInv, JobBelow, Given
  <2>3. \A r \in references' : r \in references \/ r.project # p \/ r.ref <= sequence[p]
    BY <2>1, <2>2 DEF RowOf
  <2> QED BY <2>1, <2>2, <2>3, SequenceOfJob DEF JobBecomes
<1>9. CASE Refuse(i)
  BY <1>9, RefusalDone, SequenceOfJob DEF JobEnds, JobBecomes, Given
<1>10. CASE SaveNumber(i)
  <2> DEFINE q == jobs[i].project
             n == jobs[i].number
  <2>1. /\ jobs[i].step = "referred" /\ OthersStay(i) /\ RowBecomes(i, jobs[i].kind, q, n, "no")
        /\ IF jobs[i].do = "import" THEN JobBecomes(i, "import", jobs[i].kind, q, n, "saved")
           ELSE JobEnds(i)
        /\ references' \in {references, references \cup {RowOf(i, q, n)}}
        /\ UNCHANGED <<sequence, import>>
    BY <1>10, NumberSaved DEF RowOf
  <2>2. q = p => n <= sequence[p]
    BY <2>1 DEF SequenceInv, JobBelow, Given
  <2>3. \A r \in references' : r \in references \/ r.project # p \/ r.ref <= sequence[p]
    BY <2>1, <2>2 DEF RowOf
  <2>4. jobs'[i].project = p => /\ jobs'[i].step \in Given => jobs'[i].number <= sequence[p]
                                /\ jobs'[i].step # "advanced"
    BY <2>1, <2>2 DEF JobBecomes, JobEnds, Given
  <2> QED BY <2>1, <2>2, <2>3, <2>4, SequenceOfJob DEF RowBecomes
<1>11. CASE StoreNext(i)
  <2> DEFINE q == jobs[i].project
             n == sequence[q] + 1
  <2>1. /\ q \in Projects /\ n \in Nat /\ items' = items /\ OthersStay(i) /\ jobs'[i].next = n
        /\ JobBecomes(i, jobs[i].do, jobs[i].kind, q, jobs[i].number, "advanced")
        /\ sequence' = [sequence EXCEPT ![q] = n]
        /\ raced' = IF OthersSetting(i) THEN raced \cup {q} ELSE raced
        /\ UNCHANGED <<references, import>>
    BY <1>11, StoreAdvanced
  <2> HIDE DEF n
  <2>2. CASE p = q
    <3>1. sequence'[p] = n /\ n >= sequence[p] /\ ~ OthersSetting(i)
      BY <2>1, <2>2 DEF n, BaseInv, TypeInv
    <3>2. \A j \in Items : Advanced(p, j)' => j = i
      BY <2>1, <2>2, <3>1 DEF OthersStay, Advanced, OthersSetting
    <3>3. ~ (import'.project = p /\ import'.step = "advanced")
      BY <2>1, <2>2, <3>1 DEF OthersSetting
    <3>4. \A j \in Items : jobs'[j].project = p =>
            /\ jobs'[j].step \in Given => jobs'[j] = jobs[j] \/ jobs'[j].number <= n
            /\ jobs'[j].step = "advanced" => jobs'[j].next = n
      BY <2>1, <3>2 DEF JobBecomes, OthersStay, Advanced, Given
    <3> QED BY <2>1, <3>1, <3>2, <3>3, <3>4, SequenceRaised
  <2>3. CASE p # q
    <3>1. sequence'[p] = sequence[p]
      BY <2>1, <2>3 DEF BaseInv, TypeInv
    <3> QED BY <2>1, <2>3, <3>1, SequenceOfJob DEF JobBecomes
  <2> QED BY <2>2, <2>3
<1>12. CASE StoreSet(i)
  <2> DEFINE q == jobs[i].project
             n == IF jobs[i].next >= jobs[i].number THEN jobs[i].next ELSE jobs[i].number
  <2>1. /\ jobs[i].step = "advanced" /\ q \in Projects /\ jobs[i].next \in Nat
        /\ OthersStay(i) /\ RowBecomes(i, jobs[i].kind, q, jobs[i].number, "dump") /\ JobEnds(i)
        /\ sequence' = [sequence EXCEPT ![q] = n]
        /\ UNCHANGED <<references, import>>
    BY <1>12, StoreDone
  <2>2. n \in Nat /\ n >= jobs[i].next /\ n >= jobs[i].number
    BY <2>1
  <2> HIDE DEF n
  <2>3. CASE p = q
    <3>1. Advanced(p, i) /\ JobBelow(p, i)
      BY <2>1, <2>3 DEF Advanced, SequenceInv
    <3>2. sequence'[p] = n /\ n >= sequence[p]
      BY <2>1, <2>2, <2>3, <3>1 DEF JobBelow, BaseInv, TypeInv
    <3>3. \A j \in Items : ~ Advanced(p, j)'
      BY <2>1, <3>1 DEF SequenceInv, OthersStay, Advanced, JobEnds, JobBecomes
    <3>4. ~ (import'.project = p /\ import'.step = "advanced")
      BY <2>1, <2>3, <3>1 DEF JobBelow
    <3>5. \A j \in Items : jobs'[j].project = p =>
            /\ jobs'[j].step \in Given => jobs'[j] = jobs[j] \/ jobs'[j].number <= n
            /\ jobs'[j].step = "advanced" => jobs'[j].next = n
      BY <2>1, <3>3 DEF JobEnds, JobBecomes, OthersStay, Advanced, Given
    <3>6. \A j \in Items : items'[j] = items[j]
                           \/ (items'[j].brought # "tracker" /\ items'[j].ref <= n)
      BY <2>1, <2>2 DEF RowBecomes, OthersStay
    <3> QED BY <2>1, <2>2, <3>2, <3>3, <3>4, <3>5, <3>6, SequenceRaised
  <2>4. CASE p # q
    <3>1. sequence'[p] = sequence[p]
      BY <2>1, <2>4 DEF BaseInv, TypeInv
    <3> QED BY <2>1, <2>4, <3>1, SequenceOfJob DEF JobEnds, JobBecomes, RowBecomes, Given
  <2> QED BY <2>3, <2>4
<1>13. CASE Delete(i)
  BY <1>13, Deleted, SequenceOfJob DEF JobBecomes, Given
<1>14. CASE Die(i)
  BY <1>14, Died, SequenceOfJob DEF JobEnds, JobBecomes, Given
<1>15. CASE \E n \in Numbers \ {0} : BringNumber(i, n)
  BY <1>15, NumberBrought, SequenceOfJob DEF JobEnds, JobBecomes, RowBecomes, Given
<1> QED BY <1>2, <1>3, <1>4, <1>5, <1>6, <1>7, <1>8, <1>9, <1>10, <1>11, <1>12, <1>13, <1>14,
           <1>15 DEF JobStep, ItemNext

\* The steps of the import that leave the jobs of others alone.
ImportStep ==
  \/ \E p \in Projects : StartImport(p)
  \/ RecalcCount \/ RecalcNext \/ RecalcSet \/ ImportFails

LEMMA SequenceImportStep ==
  ASSUME BaseInv, NEW p \in Projects, SequenceInv(p), p \notin raced', ImportStep
  PROVE  SequenceInv(p)'
<1> USE NumberTypes
<1>1. CASE \E q \in Projects : StartImport(q)
  <2>1. /\ import.step = "none" /\ import'.step = "items"
        /\ UNCHANGED <<items, sequence, references, jobs>>
    BY <1>1, ImportStarted
  <2>2. \A j \in Items : RowBelow(p, j)' /\ JobBelow(p, j)'
    BY <2>1 DEF SequenceInv, RowBelow, JobBelow
  <2> QED BY <2>1, <2>2 DEF SequenceInv, Advanced
<1>2. CASE RecalcCount
  <2>1. /\ import.step = "items" /\ import'.step = "counted"
        /\ \A i \in In(import.project) : items[i].kind # "epic" => items[i].ref <= import'.max
        /\ UNCHANGED <<items, sequence, references, jobs>>
    BY <1>2, RecalcCounted
  <2>2. \A j \in Items : RowBelow(p, j)'
    BY <2>1 DEF SequenceInv, RowBelow, In, BaseInv, ImportInv
  <2>3. \A j \in Items : JobBelow(p, j)'
    BY <2>1 DEF SequenceInv, JobBelow
  <2> QED BY <2>1, <2>2, <2>3 DEF SequenceInv, Advanced
<1>3. CASE RecalcNext
  <2> DEFINE q == import.project
             n == sequence[q] + 1
  <2>1. /\ q \in Projects /\ n \in Nat /\ import.step = "counted"
        /\ import'.project = q /\ import'.step = "advanced"
        /\ import'.next = n /\ import'.max = import.max
        /\ sequence' = [sequence EXCEPT ![q] = n]
        /\ raced' = IF Setting(q) THEN raced \cup {q} ELSE raced
        /\ UNCHANGED <<items, references, jobs>>
    BY <1>3, RecalcAdvanced
  <2> HIDE DEF n
  <2>2. CASE p = q
    <3>1. sequence'[p] = n /\ n >= sequence[p] /\ ~ Setting(p)
      BY <2>1, <2>2 DEF n, BaseInv, TypeInv
    <3>2. \A j \in Items : ~ Advanced(p, j) /\ ~ Advanced(p, j)'
      BY <2>1, <3>1 DEF Advanced, Setting
    <3> QED BY <2>1, <3>1, <3>2, SequenceRaised DEF Advanced
  <2>3. CASE p # q
    <3>1. sequence'[p] = sequence[p]
      BY <2>1, <2>3 DEF BaseInv, TypeInv
    <3>2. \A j \in Items : RowBelow(p, j)'
      BY <2>1, <3>1 DEF SequenceInv, RowBelow
    <3>3. \A j \in Items : JobBelow(p, j)'
      BY <2>1, <2>3, <3>1 DEF SequenceInv, JobBelow
    <3> QED BY <2>1, <2>3, <3>1, <3>2, <3>3 DEF SequenceInv, Advanced
  <2> QED BY <2>2, <2>3
<1>4. CASE RecalcSet
  <2> DEFINE q == import.project
             n == IF import.next >= import.max THEN import.next ELSE import.max
  <2>1. /\ q \in Projects /\ import.step = "advanced" /\ import'.project = q /\ import'.step = "over"
        /\ sequence' = [sequence EXCEPT ![q] = n]
        /\ UNCHANGED <<items, references, jobs>>
    BY <1>4, RecalcDone
  <2>2. n \in Nat /\ n >= import.next /\ n >= import.max
    OBVIOUS
  <2> HIDE DEF n
  <2>3. CASE p = q
    <3>1. sequence'[p] = n /\ n >= sequence[p]
      BY <2>1, <2>2, <2>3 DEF SequenceInv, BaseInv, TypeInv
    <3>2. \A j \in Items : ~ Advanced(p, j) /\ ~ Advanced(p, j)'
      BY <2>1, <2>3 DEF Advanced, SequenceInv, JobBelow
    <3> QED BY <2>1, <2>2, <3>1, <3>2, SequenceRaised DEF Advanced
  <2>4. CASE p # q
    <3>1. sequence'[p] = sequence[p]
      BY <2>1, <2>4 DEF BaseInv, TypeInv
    <3>2. \A j \in Items : RowBelow(p, j)'
      BY <2>1, <2>4, <3>1 DEF SequenceInv, RowBelow, BaseInv, ImportInv
    <3>3. \A j \in Items : JobBelow(p, j)'
      BY <2>1, <2>4, <3>1 DEF SequenceInv, JobBelow
    <3> QED BY <2>1, <2>4, <3>1, <3>2, <3>3 DEF SequenceInv, Advanced
  <2> QED BY <2>3, <2>4
<1>5. CASE ImportFails
  <2>1. /\ import'.step = "failed" /\ UNCHANGED <<items, sequence, references>>
        /\ \A i \in Items : JobEnds(i) \/ jobs'[i] = jobs[i]
    BY <1>5, ImportFailed
  <2>2. \A j \in Items : RowBelow(p, j)' /\ (Advanced(p, j)' => Advanced(p, j))
    BY <2>1 DEF SequenceInv, RowBelow, Advanced, JobEnds, JobBecomes
  <2>3. \A j \in Items : JobBelow(p, j)'
    BY <2>1 DEF SequenceInv, JobBelow, JobEnds, JobBecomes, Given
  <2> QED BY <2>1, <2>2, <2>3 DEF SequenceInv
<1> QED BY <1>1, <1>2, <1>3, <1>4, <1>5 DEF ImportStep

LEMMA StepsOfNext ==
  [Next]_vars <=> (\E i \in Items : JobStep(i)) \/ ImportStep \/ UNCHANGED vars
BY DEF Next, ImportNext, JobStep, ImportStep

LEMMA SequenceStep ==
  ASSUME BaseInv, NEW p \in Projects, SequenceInv(p), p \notin raced', [Next]_vars
  PROVE  SequenceInv(p)'
<1>1. CASE UNCHANGED vars
  BY <1>1 DEF vars, SequenceInv, RowBelow, JobBelow, Advanced
<1> QED BY <1>1, StepsOfNext, SequenceJobStep, SequenceImportStep

-----------------------------------------------------------------------------
(* Numbers of the sequence given too early.                                *)

LEMMA EarlyOfJob ==
  ASSUME NEW p \in Projects, EarlyInv(p), NEW i \in Items, OthersStay(i),
         ImportRuns(p)' => ImportRuns(p), ImportRuns(p)' => EarlyOK(p, i)',
         \A j \in Items \ {i} : <<j, p>> \in early => <<j, p>> \in early'
  PROVE  EarlyInv(p)'
<1>1. ASSUME ImportRuns(p)', NEW j \in Items PROVE EarlyOK(p, j)'
  <2>1. CASE j = i
    BY <1>1, <2>1
  <2>2. CASE j # i
    <3>1. EarlyOK(p, j) /\ jobs'[j] = jobs[j] /\ items'[j] = items[j]
      BY <1>1, <2>2 DEF EarlyInv, OthersStay
    <3> QED BY <2>2, <3>1 DEF EarlyOK
  <2> QED BY <2>1, <2>2
<1> QED BY <1>1 DEF EarlyInv

LEMMA EarlyJobStep ==
  ASSUME BaseInv, NEW p \in Projects, EarlyInv(p), NEW i \in Items, JobStep(i)
  PROVE  EarlyInv(p)'
<1>0. ImportRuns(p) => EarlyOK(p, i)
  BY DEF EarlyInv
<1>1. ASSUME NEW do \in {"create", "import"}, NEW kind \in Kinds, NEW q \in Projects,
             Insert(i, do, kind, q)
      PROVE  EarlyInv(p)'
  <2>1. /\ OthersStay(i) /\ JobBecomes(i, do, kind, q, 0, "inserted")
        /\ items' = items \/ RowBecomes(i, kind, q, 0, "no")
        /\ UNCHANGED <<import, early>>
    BY <1>1, Inserted
  <2>2. ImportRuns(p)' <=> ImportRuns(p)
    BY <2>1 DEF ImportRuns
  <2>3. ImportRuns(p) => EarlyOK(p, i)'
    BY <1>0, <2>1 DEF EarlyOK, JobBecomes, RowBecomes, Given
  <2> QED BY <2>1, <2>2, <2>3, EarlyOfJob
<1>2. CASE \E kind \in Kinds, q \in Projects : Create(i, kind, q)
  BY <1>1, <1>2 DEF Create
<1>3. CASE \E kind \in Kinds : ImportItem(i, kind)
  BY <1>1, <1>3 DEF ImportItem, BaseInv, ImportInv
<1>4. ASSUME OthersStay(i), jobs'[i].project = p => jobs'[i].step \notin Given,
             items' = items \/ items'[i] = None \/ items'[i].brought # "no",
             UNCHANGED early, ImportRuns(p)' => ImportRuns(p)
      PROVE  EarlyInv(p)'
  <2>1. ImportRuns(p) => EarlyOK(p, i)'
    BY <1>0, <1>4 DEF EarlyOK
  <2> QED BY <1>4, <2>1, EarlyOfJob
<1>5. import' = import => (ImportRuns(p)' <=> ImportRuns(p))
  BY DEF ImportRuns
<1>6. CASE \E kind \in Kinds, q \in Projects : StoreUnnumbered(i, kind, q)
  BY <1>4, <1>5, <1>6, StoreBegun DEF JobBecomes, Given
<1>7. CASE \E kind \in Kinds, q \in Projects : \E n \in 1..MaxNumber[q] : Store(i, kind, q, n)
  <2>1. PICK kind \in Kinds, q \in Projects : \E n \in 1..MaxNumber[q] : Store(i, kind, q, n)
    BY <1>7
  <2>2. PICK n \in 1..MaxNumber[q] : Store(i, kind, q, n)
    BY <2>1
  <2> QED BY <1>4, <1>5, <2>2, Brought DEF JobBecomes, Given
<1>8. CASE \E q \in Projects : Move(i, q)
  BY <1>4, <1>5, <1>8, MoveBegun DEF JobBecomes, Given
<1>9. CASE TakeNumber(i)
  <2> DEFINE q == jobs[i].project
             n == sequence[q] + 1
  <2>1. /\ items' = items /\ OthersStay(i)
        /\ JobBecomes(i, jobs[i].do, jobs[i].kind, q, n, "numbered")
        /\ early' = IF ImportRuns(q) THEN early \cup {<<i, q>>} ELSE early
        /\ UNCHANGED import
    BY <1>9, NumberTaken
  <2> HIDE DEF n
  <2>2. ImportRuns(p) => EarlyOK(p, i)'
    BY <1>0, <2>1 DEF EarlyOK, JobBecomes
  <2> QED BY <1>5, <2>1, <2>2, EarlyOfJob
<1>10. CASE Refer(i)
  <2>1. /\ jobs[i].step = "numbered" /\ items' = items /\ OthersStay(i)
        /\ JobBecomes(i, jobs[i].do, jobs[i].kind, jobs[i].project, jobs[i].number, "referred")
        /\ UNCHANGED <<import, early>>
    BY <1>10, Referred
  <2>2. ImportRuns(p) => EarlyOK(p, i)'
    BY <1>0, <2>1 DEF EarlyOK, JobBecomes, Given
  <2> QED BY <1>5, <2>1, <2>2, EarlyOfJob
<1>11. CASE Refuse(i)
  <2>1. /\ jobs[i].step = "numbered" /\ JobEnds(i) /\ items' = items /\ OthersStay(i)
        /\ IF jobs[i].do = "import"
           THEN import'.project = import.project /\ import'.step = "failed"
           ELSE import' = import
        /\ UNCHANGED early
    BY <1>11, RefusalDone
  <2>2. ImportRuns(p)' => ImportRuns(p)
    BY <2>1 DEF ImportRuns, BaseInv, JobInv, JobOK
  <2> QED BY <1>4, <2>1, <2>2 DEF JobEnds, JobBecomes, Given
<1>12. CASE SaveNumber(i)
  <2> DEFINE q == jobs[i].project
             n == jobs[i].number
  <2>1. /\ jobs[i].step = "referred" /\ OthersStay(i) /\ RowBecomes(i, jobs[i].kind, q, n, "no")
        /\ JobEnds(i) \/ JobBecomes(i, "import", jobs[i].kind, q, n, "saved")
        /\ UNCHANGED <<import, early>>
    BY <1>12, NumberSaved
  <2>2. ImportRuns(p) => EarlyOK(p, i)'
    <3>1. CASE q = p
      BY <1>0, <2>1, <3>1 DEF EarlyOK, Given
    <3>2. CASE q # p
      BY <1>0, <2>1, <3>2 DEF EarlyOK, JobEnds, JobBecomes, RowBecomes, Given
    <3> QED BY <3>1, <3>2
  <2> QED BY <1>5, <2>1, <2>2, EarlyOfJob
<1>13. CASE StoreNext(i)
  BY <1>4, <1>5, <1>13, StoreAdvanced DEF JobBecomes, Given
<1>14. CASE StoreSet(i)
  BY <1>4, <1>5, <1>14, StoreDone DEF JobEnds, JobBecomes, RowBecomes, Given
<1>15. CASE Delete(i)
  BY <1>4, <1>5, <1>15, Deleted DEF JobBecomes, Given
<1>16. CASE Die(i)
  BY <1>4, <1>5, <1>16, Died DEF JobEnds, JobBecomes, Given
<1>17. CASE \E n \in Numbers \ {0} : BringNumber(i, n)
  <2>1. PICK n \in Numbers \ {0} : BringNumber(i, n)
    BY <1>17
  <2>2. /\ RowBecomes(i, items[i].kind, import.project, n, "tracker") /\ OthersStay(i) /\ JobEnds(i)
        /\ early' = early \ {<<i, import.project>>} /\ UNCHANGED import
    BY <2>1, NumberBrought
  <2>3. EarlyOK(p, i)'
    BY <2>2 DEF EarlyOK, RowBecomes, JobEnds, JobBecomes, Given
  <2> QED BY <1>5, <2>2, <2>3, EarlyOfJob
<1> QED BY <1>2, <1>3, <1>6, <1>7, <1>8, <1>9, <1>10, <1>11, <1>12, <1>13, <1>14, <1>15, <1>16,
           <1>17 DEF JobStep, ItemNext

LEMMA EarlyStep ==
  ASSUME BaseInv, NEW p \in Projects, SequenceInv(p), EarlyInv(p), [Next]_vars
  PROVE  EarlyInv(p)'
<1>1. ASSUME UNCHANGED <<items, early>>, ImportRuns(p)' => ImportRuns(p),
             \A i \in Items : jobs'[i] = jobs[i] \/ JobEnds(i)
      PROVE  EarlyInv(p)'
  BY <1>1 DEF EarlyInv, EarlyOK, JobEnds, JobBecomes, Given
<1>2. CASE \E q \in Projects : StartImport(q)
  <2>1. PICK q \in Projects : StartImport(q)
    BY <1>2
  <2>2. /\ import.step = "none" /\ sequence[q] = 0 /\ \A i \in Items : jobs[i].project # q
        /\ import'.project = q /\ UNCHANGED <<items, jobs, early>>
    BY <2>1, ImportStarted
  <2>3. CASE p = q
    <3>1. \A i \in Items : items[i] # None /\ items[i].project = p /\ items[i].brought = "no" =>
            items[i].ref <= 0 /\ items[i].ref \in Nat
      BY <2>2, <2>3, NumberTypes DEF SequenceInv, RowBelow
    <3>2. \A i \in Items : items[i] # None /\ items[i].project = p /\ items[i].brought = "no" =>
            items[i].ref = 0
      BY <3>1
    <3> QED BY <2>2, <2>3, <3>2 DEF EarlyInv, EarlyOK
  <2>4. CASE p # q
    BY <2>2, <2>4 DEF EarlyInv, EarlyOK, ImportRuns
  <2> QED BY <2>3, <2>4
<1>3. CASE RecalcCount
  BY <1>1, <1>3, RecalcCounted DEF ImportRuns
<1>4. CASE RecalcNext
  BY <1>1, <1>4, RecalcAdvanced DEF ImportRuns
<1>5. CASE RecalcSet
  BY <1>1, <1>5, RecalcDone DEF ImportRuns
<1>6. CASE ImportFails
  BY <1>1, <1>6, ImportFailed DEF ImportRuns
<1>7. CASE UNCHANGED vars
  BY <1>1, <1>7 DEF vars, ImportRuns
<1> QED BY <1>2, <1>3, <1>4, <1>5, <1>6, <1>7, StepsOfNext, EarlyJobStep DEF ImportStep

-----------------------------------------------------------------------------
(* An item that is numbered anew has no number brought to its project.     *)

LEMMA NoneBroughtStep ==
  ASSUME BaseInv, NEW k \in Items, NoneBrought(k), [Next]_vars
  PROVE  NoneBrought(k)'
<1>1. ASSUME NEW i \in Items, OthersStay(i), k # i PROVE NoneBrought(k)'
  BY <1>1 DEF OthersStay, NoneBrought
<1>2. ASSUME NEW i \in Items, OthersStay(i), jobs'[i].step \notin {"inserted"} \cup Given
      PROVE  NoneBrought(k)'
  BY <1>1, <1>2 DEF NoneBrought
<1>3. ASSUME NEW i \in Items, OthersStay(i), items'[i].project # jobs'[i].project
               \/ (items'[i].brought = "no" /\ items'[i].taken = {}) \/ items'[i] = None
      PROVE  NoneBrought(k)'
  BY <1>1, <1>3 DEF NoneBrought
<1>4. ASSUME NEW i \in Items, NEW do \in {"create", "import"}, NEW kind \in Kinds,
             NEW q \in Projects, Insert(i, do, kind, q)
      PROVE  NoneBrought(k)'
  BY <1>3, <1>4, Inserted DEF RowBecomes
<1>5. ASSUME NEW i \in Items, NEW kind \in Kinds, NEW q \in Projects,
             Create(i, kind, q) \/ StoreUnnumbered(i, kind, q)
      PROVE  NoneBrought(k)'
  <2>1. CASE Create(i, kind, q)
    BY <1>4, <2>1 DEF Create
  <2>2. CASE StoreUnnumbered(i, kind, q)
    BY <1>3, <2>2, StoreBegun DEF StoreUnnumbered
  <2> QED BY <1>5, <2>1, <2>2
<1>6. ASSUME NEW i \in Items, NEW kind \in Kinds, ImportItem(i, kind) PROVE NoneBrought(k)'
  BY <1>4, <1>6 DEF ImportItem, BaseInv, ImportInv
<1>7. ASSUME NEW i \in Items, NEW kind \in Kinds, NEW q \in Projects,
             NEW n \in 1..MaxNumber[q], Store(i, kind, q, n)
      PROVE  NoneBrought(k)'
  BY <1>2, <1>7, Brought DEF JobBecomes, Given
<1>8. ASSUME NEW i \in Items, NEW q \in Projects, Move(i, q) PROVE NoneBrought(k)'
  BY <1>3, <1>8, MoveBegun DEF JobBecomes, Move
<1>9. ASSUME NEW i \in Items, TakeNumber(i) PROVE NoneBrought(k)'
  <2>1. /\ jobs[i].step = "inserted" /\ items' = items /\ OthersStay(i)
        /\ jobs'[i].project = jobs[i].project
    BY <1>9, NumberTaken DEF JobBecomes
  <2>2. CASE k = i
    BY <2>1, <2>2 DEF NoneBrought
  <2> QED BY <1>1, <2>1, <2>2
<1>10. ASSUME NEW i \in Items, Refer(i) PROVE NoneBrought(k)'
  <2>1. /\ jobs[i].step = "numbered" /\ items' = items /\ OthersStay(i)
        /\ jobs'[i].project = jobs[i].project
    BY <1>10, Referred DEF JobBecomes
  <2>2. CASE k = i
    BY <2>1, <2>2 DEF NoneBrought, Given
  <2> QED BY <1>1, <2>1, <2>2
<1>11. ASSUME NEW i \in Items, Refuse(i) PROVE NoneBrought(k)'
  BY <1>2, <1>11, RefusalDone DEF JobEnds, JobBecomes, Given
<1>12. ASSUME NEW i \in Items, SaveNumber(i) PROVE NoneBrought(k)'
  BY <1>3, <1>12, NumberSaved DEF RowBecomes
<1>13. ASSUME NEW i \in Items, StoreNext(i) PROVE NoneBrought(k)'
  BY <1>2, <1>13, StoreAdvanced DEF JobBecomes, Given
<1>14. ASSUME NEW i \in Items, StoreSet(i) PROVE NoneBrought(k)'
  BY <1>2, <1>14, StoreDone DEF JobEnds, JobBecomes, Given
<1>15. ASSUME NEW i \in Items, Delete(i) PROVE NoneBrought(k)'
  BY <1>3, <1>15, Deleted
<1>16. ASSUME NEW i \in Items, Die(i) PROVE NoneBrought(k)'
  BY <1>2, <1>16, Died DEF JobEnds, JobBecomes, Given
<1>17. ASSUME NEW i \in Items, NEW n \in Numbers \ {0}, BringNumber(i, n) PROVE NoneBrought(k)'
  BY <1>2, <1>17, NumberBrought DEF JobEnds, JobBecomes, Given
<1>18. ASSUME UNCHANGED items, jobs'[k] = jobs[k] \/ JobEnds(k) PROVE NoneBrought(k)'
  BY <1>18 DEF NoneBrought, JobEnds, JobBecomes, Given
<1>19. CASE ImportStep
  <2>1. CASE ImportFails
    BY <1>18, <2>1, ImportFailed
  <2>2. CASE ~ ImportFails
    BY <1>18, <1>19, <2>2 DEF ImportStep, StartImport, RecalcCount, RecalcNext, RecalcSet
  <2> QED BY <2>1, <2>2
<1>20. CASE UNCHANGED vars
  BY <1>18, <1>20 DEF vars
<1> QED BY <1>5, <1>6, <1>7, <1>8, <1>9, <1>10, <1>11, <1>12, <1>13, <1>14, <1>15, <1>16, <1>17,
           <1>19, <1>20, StepsOfNext DEF JobStep, ItemNext

-----------------------------------------------------------------------------
(* The numbers differ.                                                     *)

LEMMA UniqueOfJob ==
  ASSUME NEW p \in Projects, UniqueInv(p), NEW i \in Items, OthersStay(i),
         \A j \in Items \ {i} : <<j, p>> \in early => <<j, p>> \in early',
         \A n \in Nat \ {0} : Has(i, p, n)' =>
           \/ Exempt(i, p)'
           \/ /\ Has(i, p, n) /\ ~ Exempt(i, p)
              /\ \A j \in Items : Took(i, j, p) => Took(i, j, p)'
           \/ \A j \in Items \ {i} : Has(j, p, n) => Exempt(j, p) \/ Took(i, j, p)'
  PROVE  UniqueInv(p)'
<1>1. ASSUME NEW j \in Items \ {i}
      PROVE  /\ Exempt(j, p) => Exempt(j, p)'
             /\ \A n \in Nat : Has(j, p, n)' <=> Has(j, p, n)
             /\ \A k \in Items : Took(j, k, p)' <=> Took(j, k, p)
  BY DEF OthersStay, Exempt, Has, Took
<1>2. ASSUME NEW j \in Items \ {i}, NEW n \in Nat \ {0}, Has(i, p, n)', Has(j, p, n)'
      PROVE  Exempt(i, p)' \/ Exempt(j, p)' \/ Took(i, j, p)' \/ Took(j, i, p)'
  <2>1. Has(j, p, n)
    BY <1>1, <1>2
  <2>2. Has(i, p, n) /\ ~ Exempt(i, p) => Exempt(j, p) \/ Took(i, j, p) \/ Took(j, i, p)
    BY <2>1 DEF UniqueInv
  <2> QED BY <1>1, <1>2, <2>1, <2>2
<1>3. ASSUME NEW j \in Items \ {i}, NEW k \in Items \ {i}, j # k, NEW n \in Nat \ {0},
             Has(j, p, n)', Has(k, p, n)'
      PROVE  Exempt(j, p)' \/ Exempt(k, p)' \/ Took(j, k, p)' \/ Took(k, j, p)'
  <2>1. Has(j, p, n) /\ Has(k, p, n)
    BY <1>1, <1>3
  <2>2. Exempt(j, p) \/ Exempt(k, p) \/ Took(j, k, p) \/ Took(k, j, p)
    BY <1>3, <2>1 DEF UniqueInv
  <2> QED BY <1>1, <2>2
<1> SUFFICES ASSUME NEW j \in Items, NEW k \in Items, j # k, NEW n \in Nat \ {0},
                    Has(j, p, n)', Has(k, p, n)'
             PROVE  Exempt(j, p)' \/ Exempt(k, p)' \/ Took(j, k, p)' \/ Took(k, j, p)'
  BY DEF UniqueInv
<1>4. CASE j = i
  BY <1>2, <1>4
<1>5. CASE k = i
  BY <1>2, <1>5
<1> QED BY <1>3, <1>4, <1>5

\* A step that gives i no number and takes no excuse from it.
LEMMA UniqueQuiet ==
  ASSUME NEW p \in Projects, UniqueInv(p), NEW i \in Items, OthersStay(i), UNCHANGED early,
         \A n \in Nat \ {0} : Has(i, p, n)' =>
           /\ Has(i, p, n) /\ (Exempt(i, p) => Exempt(i, p)')
           /\ \A j \in Items : Took(i, j, p) => Took(i, j, p)'
  PROVE  UniqueInv(p)'
BY UniqueOfJob

LEMMA UniqueOfTake ==
  ASSUME BaseInv, NEW p \in Projects, SequenceInv(p), UniqueInv(p), p \notin raced',
         NEW i \in Items, TakeNumber(i)
  PROVE  UniqueInv(p)'
<1> USE NumberTypes
<1> DEFINE q == jobs[i].project
           n == sequence[q] + 1
<1>1. /\ q \in Projects /\ n \in Nat /\ items' = items /\ OthersStay(i)
      /\ jobs[i].step = "inserted"
      /\ JobBecomes(i, jobs[i].do, jobs[i].kind, q, n, "numbered")
      /\ raced' = IF Setting(q) THEN raced \cup {q} ELSE raced
      /\ early' = IF ImportRuns(q) THEN early \cup {<<i, q>>} ELSE early
  BY NumberTaken
<1>2. p = q => n > sequence[p] /\ ~ Setting(p)
  BY <1>1
<1> HIDE DEF n
<1>3. /\ Exempt(i, p) => Exempt(i, p)'
      /\ \A j \in Items : Took(i, j, p) => Took(i, j, p)'
  BY <1>1 DEF Exempt, Bringing, Took
<1>4. ASSUME p = q, ~ ImportRuns(p), NEW j \in Items \ {i}, Has(j, p, n) PROVE Exempt(j, p)
  <2>1. RowBelow(p, j) /\ JobBelow(p, j)
    BY DEF SequenceInv
  <2>2. CASE items[j] # None /\ items[j].project = p /\ items[j].ref = n
    <3>1. ~ (items[j].ref <= sequence[p])
      BY <1>1, <1>2, <1>4, <2>2
    <3>2. items[j].brought = "tracker"
      BY <2>1, <2>2, <3>1 DEF RowBelow
    <3>3. import.step = "over"
      BY <1>4, <2>2, <3>2 DEF BaseInv, ImportInv, ImportRuns
    <3> QED BY <2>1, <2>2, <3>1, <3>2, <3>3 DEF RowBelow, Exempt
  <2>3. CASE jobs[j].project = p /\ jobs[j].number = n
    <3>1. jobs[j].number # 0 /\ ~ (jobs[j].number <= sequence[p])
      BY <1>1, <1>2, <1>4, <2>3
    <3>2. jobs[j].step \in Given \cup Bringing
      BY <3>1 DEF BaseInv, JobInv, JobOK
    <3>3. jobs[j].step \notin Bringing
      BY <1>2, <1>4, <2>3 DEF Setting, Bringing
    <3> QED BY <2>1, <2>3, <3>1, <3>2, <3>3 DEF JobBelow
  <2> QED BY <1>4, <2>2, <2>3 DEF Has
<1>5. ASSUME NEW m \in Nat \ {0}, Has(i, p, m)'
      PROVE  \/ Exempt(i, p)'
             \/ /\ Has(i, p, m) /\ ~ Exempt(i, p)
                /\ \A j \in Items : Took(i, j, p) => Took(i, j, p)'
             \/ \A j \in Items \ {i} : Has(j, p, m) => Exempt(j, p) \/ Took(i, j, p)'
  <2>1. CASE p = q /\ m = n
    <3>1. CASE ImportRuns(p)
      BY <1>1, <2>1, <3>1 DEF Exempt
    <3>2. CASE ~ ImportRuns(p)
      BY <1>4, <2>1, <3>2
    <3> QED BY <3>1, <3>2
  <2>2. CASE ~ (p = q /\ m = n)
    <3>1. Has(i, p, m)
      BY <1>1, <1>5, <2>2 DEF Has, JobBecomes
    <3> QED BY <1>3, <3>1
  <2> QED BY <2>1, <2>2
<1> QED BY <1>1, <1>5, UniqueOfJob

\* Who had the tracker's number already was numbered too early, or is or was stored with it.
LEMMA UniqueOfBring ==
  ASSUME BaseInv, NEW p \in Projects, EarlyInv(p), UniqueInv(p),
         NEW i \in Items, NEW n \in Numbers \ {0}, BringNumber(i, n)
  PROVE  UniqueInv(p)'
<1> DEFINE q == import.project
<1>1. /\ n \in Nat /\ n > 0 /\ import.step = "items"
      /\ RowBecomes(i, items[i].kind, q, n, "tracker") /\ OthersStay(i) /\ JobEnds(i)
      /\ items'[i].taken = Stored(n)
      /\ \A j \in In(q) : items[j].brought = "tracker" => items[j].ref # n
      /\ early' = early \ {<<i, q>>}
  BY NumberBrought
<1>2. ASSUME p = q, items'[i] # None, NEW j \in Items \ {i}, Has(j, p, n)
      PROVE  Exempt(j, p) \/ Took(i, j, p)'
  <2>1. EarlyOK(p, j)
    BY <1>1, <1>2 DEF EarlyInv, ImportRuns
  <2>2. CASE items[j] # None /\ items[j].project = p /\ items[j].ref = n
    <3>1. j \in In(q) /\ items[j] \in ItemRows /\ items[j].brought # "tracker"
      BY <1>1, <1>2, <2>2 DEF In, BaseInv, TypeInv
    <3>2. CASE items[j].brought = "no"
      BY <1>1, <1>2, <2>1, <2>2, <3>2 DEF EarlyOK, Exempt
    <3>3. CASE items[j].brought = "dump"
      <4>1. j \in Stored(n)
        BY <1>2, <2>2, <3>1, <3>3 DEF Stored
      <4> QED BY <1>1, <1>2, <4>1 DEF Took, RowBecomes
    <3> QED BY <3>1, <3>2, <3>3 DEF ItemRows
  <2>3. CASE jobs[j].project = p /\ jobs[j].number = n
    <3>1. jobs[j].step \in Given \cup Bringing
      BY <1>1, <2>3 DEF BaseInv, JobInv, JobOK
    <3> QED BY <2>1, <2>3, <3>1 DEF EarlyOK, Exempt
  <2> QED BY <1>2, <2>2, <2>3 DEF Has
<1>3. ASSUME NEW m \in Nat \ {0}, Has(i, p, m)'
      PROVE  \A j \in Items \ {i} : Has(j, p, m) => Exempt(j, p) \/ Took(i, j, p)'
  <2>1. p = q /\ m = n /\ items'[i] # None
    BY <1>1, <1>3 DEF Has, RowBecomes, JobEnds, JobBecomes
  <2> QED BY <1>2, <2>1
<1>4. \A j \in Items \ {i} : <<j, p>> \in early => <<j, p>> \in early'
  BY <1>1
<1> QED BY <1>1, <1>3, <1>4, UniqueOfJob

\* While an item is being stored, its number may be anyone's.
LEMMA UniqueOfStore ==
  ASSUME BaseInv, NEW p \in Projects, UniqueInv(p), NEW i \in Items, NEW kind \in Kinds,
         NEW q \in Projects, NEW n \in 1..MaxNumber[q], Store(i, kind, q, n)
  PROVE  UniqueInv(p)'
<1>1. /\ OthersStay(i) /\ JobBecomes(i, "store", kind, q, n, "brought")
      /\ items' = items /\ items[i] = None /\ UNCHANGED early
  BY Brought
<1>2. \A m \in Nat \ {0} : Has(i, p, m)' => p = q
  BY <1>1 DEF Has, JobBecomes
<1>3. p = q => Exempt(i, p)'
  BY <1>1 DEF Exempt, JobBecomes, Bringing
<1> QED BY <1>1, <1>2, <1>3, UniqueOfJob

\* When it is stored, it has taken its number from those who had it.
LEMMA UniqueOfStored ==
  ASSUME BaseInv, NEW p \in Projects, UniqueInv(p), NEW i \in Items, StoreSet(i)
  PROVE  UniqueInv(p)'
<1> DEFINE q == jobs[i].project
           n == jobs[i].number
<1>1. /\ OthersStay(i) /\ JobEnds(i) /\ RowBecomes(i, jobs[i].kind, q, n, "dump")
      /\ items'[i].taken = HadAlready(i, q, n)
      /\ UNCHANGED early
  BY StoreDone
<1>2. \A m \in Nat \ {0} : Has(i, p, m)' => p = q /\ m = n /\ items'[i] # None
  BY <1>1 DEF Has, RowBecomes, JobEnds, JobBecomes
<1>3. ASSUME p = q, items'[i] # None, NEW j \in Items \ {i}, Has(j, p, n)
      PROVE  Took(i, j, p)'
  <2>1. j \in HadAlready(i, q, n)
    BY <1>3 DEF Has, HadAlready, In
  <2>2. items'[i].project = q
    BY <1>1 DEF RowBecomes
  <2> QED BY <1>1, <1>3, <2>1, <2>2 DEF Took
<1> QED BY <1>1, <1>2, <1>3, UniqueOfJob

LEMMA UniqueJobStep ==
  ASSUME BaseInv, NEW p \in Projects, SequenceInv(p), EarlyInv(p), UniqueInv(p), p \notin raced',
         NEW i \in Items, NoneBrought(i), JobStep(i)
  PROVE  UniqueInv(p)'
<1>1. ASSUME NEW do \in {"create", "import"}, NEW kind \in Kinds, NEW q \in Projects,
             Insert(i, do, kind, q)
      PROVE  UniqueInv(p)'
  <2>1. /\ OthersStay(i) /\ JobBecomes(i, do, kind, q, 0, "inserted") /\ items[i] = None
        /\ items' = items \/ RowBecomes(i, kind, q, 0, "no")
        /\ UNCHANGED early
    BY <1>1, Inserted
  <2>2. \A n \in Nat \ {0} : ~ Has(i, p, n)'
    BY <2>1 DEF Has, JobBecomes, RowBecomes
  <2> QED BY <2>1, <2>2, UniqueQuiet
<1>2. CASE \E kind \in Kinds, q \in Projects : Create(i, kind, q)
  BY <1>1, <1>2 DEF Create
<1>3. CASE \E kind \in Kinds : ImportItem(i, kind)
  BY <1>1, <1>3 DEF ImportItem, BaseInv, ImportInv
<1>4. ASSUME OthersStay(i), UNCHANGED <<items, early>>,
             jobs'[i].number = 0 \/ (/\ jobs'[i].number = jobs[i].number
                                     /\ jobs'[i].project = jobs[i].project
                                     /\ jobs[i].step \in Bringing => jobs'[i].step \in Bringing)
      PROVE  UniqueInv(p)'
  <2>1. ASSUME NEW n \in Nat \ {0}, Has(i, p, n)' PROVE Exempt(i, p) => Exempt(i, p)'
    <3>1. jobs[i].step \in Bringing => items[i] = None
      BY DEF BaseInv, JobInv, JobOK
    <3> QED BY <1>4, <2>1, <3>1 DEF Exempt, Has
  <2>2. \A n \in Nat \ {0} : Has(i, p, n)' => Has(i, p, n)
    BY <1>4 DEF Has
  <2>3. \A j \in Items : Took(i, j, p) => Took(i, j, p)'
    BY <1>4 DEF Took
  <2> QED BY <1>4, <2>1, <2>2, <2>3, UniqueQuiet
<1>5. CASE \E kind \in Kinds, q \in Projects : StoreUnnumbered(i, kind, q)
  BY <1>4, <1>5, StoreBegun DEF JobBecomes
<1>6. CASE \E kind \in Kinds, q \in Projects : \E n \in 1..MaxNumber[q] : Store(i, kind, q, n)
  <2>1. PICK kind \in Kinds, q \in Projects : \E n \in 1..MaxNumber[q] : Store(i, kind, q, n)
    BY <1>6
  <2> QED BY <2>1, UniqueOfStore
<1>7. CASE \E q \in Projects : Move(i, q)
  BY <1>4, <1>7, MoveBegun DEF JobBecomes
<1>8. CASE TakeNumber(i)
  BY <1>8, UniqueOfTake
<1>9. CASE Refer(i)
  BY <1>4, <1>9, Referred DEF JobBecomes, Bringing
<1>10. CASE Refuse(i)
  BY <1>4, <1>10, RefusalDone DEF JobEnds, JobBecomes
<1>11. CASE SaveNumber(i)
  <2> DEFINE q == jobs[i].project
             n == jobs[i].number
  <2>1. /\ jobs[i].step = "referred" /\ OthersStay(i) /\ RowBecomes(i, jobs[i].kind, q, n, "no")
        /\ JobEnds(i) \/ JobBecomes(i, "import", jobs[i].kind, q, n, "saved")
        /\ UNCHANGED early
    BY <1>11, NumberSaved
  <2>2. \A m \in Nat \ {0} : Has(i, p, m)' => p = q /\ m = n
    BY <2>1 DEF Has, RowBecomes, JobEnds, JobBecomes
  <2>3. p = q /\ Exempt(i, p) => Exempt(i, p)'
    BY <2>1 DEF Exempt, NoneBrought, Given, Bringing
  <2>4. \A j \in Items : Took(i, j, p) => p # q
    BY <2>1 DEF Took, NoneBrought, Given
  <2> QED BY <2>1, <2>2, <2>3, <2>4, UniqueQuiet DEF Has
<1>12. CASE StoreNext(i)
  BY <1>4, <1>12, StoreAdvanced DEF JobBecomes, Bringing
<1>13. CASE StoreSet(i)
  BY <1>13, UniqueOfStored
<1>14. CASE Delete(i)
  <2>1. /\ items'[i] = None /\ OthersStay(i) /\ jobs'[i].number = 0 /\ UNCHANGED early
    BY <1>14, Deleted DEF JobBecomes
  <2>2. \A m \in Nat \ {0} : ~ Has(i, p, m)'
    BY <2>1 DEF Has
  <2> QED BY <2>1, <2>2, UniqueQuiet
<1>15. CASE Die(i)
  BY <1>4, <1>15, Died DEF JobEnds, JobBecomes
<1>16. CASE \E n \in Numbers \ {0} : BringNumber(i, n)
  BY <1>16, UniqueOfBring
<1> QED BY <1>2, <1>3, <1>5, <1>6, <1>7, <1>8, <1>9, <1>10, <1>11, <1>12, <1>13, <1>14, <1>15,
           <1>16 DEF JobStep, ItemNext

LEMMA UniqueStep ==
  ASSUME BaseInv, NEW p \in Projects, SequenceInv(p), EarlyInv(p), UniqueInv(p), p \notin raced',
         \A i \in Items : NoneBrought(i), [Next]_vars
  PROVE  UniqueInv(p)'
<1>1. ASSUME UNCHANGED <<items, early>>, \A i \in Items : jobs'[i] = jobs[i] \/ JobEnds(i)
      PROVE  UniqueInv(p)'
  <2>1. ASSUME NEW i \in Items, NEW n \in Nat \ {0}, Has(i, p, n)'
        PROVE  Has(i, p, n) /\ (Exempt(i, p) => Exempt(i, p)')
    <3>1. jobs[i].step \in Bringing => items[i] = None
      BY DEF BaseInv, JobInv, JobOK
    <3> QED BY <1>1, <2>1, <3>1 DEF Exempt, Has, JobEnds, JobBecomes
  <2>2. \A i, j \in Items : Took(i, j, p)' <=> Took(i, j, p)
    BY <1>1 DEF Took
  <2> QED BY <2>1, <2>2 DEF UniqueInv
<1>2. CASE ImportStep
  <2>1. CASE ImportFails
    BY <1>1, <2>1, ImportFailed
  <2>2. CASE ~ ImportFails
    BY <1>1, <1>2, <2>2 DEF ImportStep, StartImport, RecalcCount, RecalcNext, RecalcSet
  <2> QED BY <2>1, <2>2
<1>3. CASE UNCHANGED vars
  BY <1>1, <1>3 DEF vars
<1> QED BY <1>2, <1>3, StepsOfNext, UniqueJobStep

-----------------------------------------------------------------------------
(* The numbers given are fresh.                                            *)

\* A step of one job that takes no number.
LEMMA FreshOfJob ==
  ASSUME NEW p \in Projects, FreshInv(p), NEW i \in Items, OthersStay(i),
         \/ UNCHANGED references
         \/ /\ jobs[i].step \in Given /\ jobs'[i].step # "numbered"
            /\ references' = references \cup {RowOf(i, jobs[i].project, jobs[i].number)},
         jobs'[i].project = p /\ jobs'[i].step \in Given =>
           /\ jobs'[i].step # "numbered" /\ jobs[i].step \in Given
           /\ jobs'[i].project = jobs[i].project /\ jobs'[i].number = jobs[i].number
  PROVE  FreshInv(p)'
<1>1. ASSUME NEW j \in Items, NEW k \in Items, j # k,
             jobs'[j].project = p, jobs'[j].step \in Given,
             jobs'[k].project = p, jobs'[k].step \in Given, jobs'[j].number = jobs'[k].number
      PROVE  FALSE
  <2>1. jobs[j].project = p /\ jobs[j].step \in Given /\ jobs'[j].number = jobs[j].number
    BY <1>1 DEF OthersStay
  <2>2. jobs[k].project = p /\ jobs[k].step \in Given /\ jobs'[k].number = jobs[k].number
    BY <1>1 DEF OthersStay
  <2> QED BY <1>1, <2>1, <2>2 DEF FreshInv
<1>2. ASSUME NEW j \in Items, jobs'[j].project = p, jobs'[j].step = "numbered"
      PROVE  ~ Refused(j)'
  <2>1. j # i
    BY <1>2 DEF Given
  <2>2. jobs'[j] = jobs[j] /\ ~ Refused(j)
    BY <1>2, <2>1 DEF OthersStay, FreshInv
  <2>3. CASE UNCHANGED references
    BY <2>2, <2>3 DEF Refused
  <2>4. CASE /\ jobs[i].step \in Given
             /\ references' = references \cup {RowOf(i, jobs[i].project, jobs[i].number)}
    <3>1. ~ (jobs[i].project = p /\ jobs[i].number = jobs[j].number)
      BY <1>2, <2>1, <2>2, <2>4 DEF FreshInv, Given
    <3> QED BY <1>2, <2>2, <2>4, <3>1 DEF Refused, RowOf
  <2> QED BY <2>3, <2>4
<1> QED BY <1>1, <1>2 DEF FreshInv

LEMMA FreshOfTake ==
  ASSUME BaseInv, NEW p \in Projects, SequenceInv(p), FreshInv(p), NEW i \in Items, TakeNumber(i)
  PROVE  FreshInv(p)'
<1> USE NumberTypes
<1> DEFINE q == jobs[i].project
           n == sequence[q] + 1
<1>1. /\ q \in Projects /\ n \in Nat /\ OthersStay(i)
      /\ JobBecomes(i, jobs[i].do, jobs[i].kind, q, n, "numbered")
      /\ UNCHANGED references
  BY NumberTaken
<1>2. p = q => n > sequence[p]
  BY <1>1
<1> HIDE DEF n
<1>3. CASE p # q
  BY <1>1, <1>3, FreshOfJob DEF JobBecomes
<1>4. CASE p = q
  <2>1. ASSUME NEW j \in Items \ {i}, jobs'[j].project = p, jobs'[j].step \in Given
        PROVE  jobs'[j] = jobs[j] /\ jobs[j].number # n
    <3>1. jobs'[j] = jobs[j] /\ JobBelow(p, j)
      BY <1>1 DEF OthersStay, SequenceInv
    <3>2. jobs[j].number <= sequence[p]
      BY <2>1, <3>1 DEF JobBelow
    <3> QED BY <1>1, <1>2, <1>4, <3>1, <3>2
  <2>2. \A r \in references : r.project = p => r.ref # n
    BY <1>1, <1>2, <1>4 DEF SequenceInv
  <2>3. ASSUME NEW j \in Items, jobs'[j].project = p, jobs'[j].step = "numbered"
        PROVE  ~ Refused(j)'
    <3>1. CASE j = i
      BY <1>1, <1>4, <2>2, <3>1 DEF Refused, JobBecomes
    <3>2. CASE j # i
      BY <1>1, <2>1, <2>3, <3>2 DEF Refused, FreshInv, Given
    <3> QED BY <3>1, <3>2
  <2>4. ASSUME NEW j \in Items, NEW k \in Items,
               jobs'[j].project = p, jobs'[j].step \in Given,
               jobs'[k].project = p, jobs'[k].step \in Given, jobs'[j].number = jobs'[k].number
        PROVE  j = k
    <3>1. jobs'[i].number = n
      BY <1>1 DEF JobBecomes
    <3>2. CASE j # i /\ k # i
      BY <2>1, <2>4, <3>2 DEF FreshInv
    <3>3. CASE j = i \/ k = i
      BY <2>1, <2>4, <3>1, <3>3
    <3> QED BY <3>2, <3>3
  <2> QED BY <2>3, <2>4 DEF FreshInv
<1> QED BY <1>3, <1>4

LEMMA FreshStep ==
  ASSUME BaseInv, NEW p \in Projects, SequenceInv(p), FreshInv(p), [Next]_vars
  PROVE  FreshInv(p)'
<1>1. ASSUME NEW i \in Items, OthersStay(i), UNCHANGED references, jobs'[i].step \notin Given
      PROVE  FreshInv(p)'
  BY <1>1, FreshOfJob
<1>2. ASSUME NEW i \in Items, NEW do \in {"create", "import"}, NEW kind \in Kinds,
             NEW q \in Projects, Insert(i, do, kind, q)
      PROVE  FreshInv(p)'
  BY <1>1, <1>2, Inserted DEF JobBecomes, Given
<1>3. ASSUME NEW i \in Items, NEW kind \in Kinds, NEW q \in Projects,
             Create(i, kind, q) \/ StoreUnnumbered(i, kind, q)
      PROVE  FreshInv(p)'
  <2>1. CASE Create(i, kind, q)
    BY <1>2, <2>1 DEF Create
  <2>2. CASE StoreUnnumbered(i, kind, q)
    BY <1>1, <2>2, StoreBegun DEF JobBecomes, Given
  <2> QED BY <1>3, <2>1, <2>2
<1>4. ASSUME NEW i \in Items, NEW kind \in Kinds, ImportItem(i, kind) PROVE FreshInv(p)'
  BY <1>2, <1>4 DEF ImportItem, BaseInv, ImportInv
<1>5. ASSUME NEW i \in Items, NEW kind \in Kinds, NEW q \in Projects,
             NEW n \in 1..MaxNumber[q], Store(i, kind, q, n)
      PROVE  FreshInv(p)'
  BY <1>1, <1>5, Brought DEF JobBecomes, Given
<1>6. ASSUME NEW i \in Items, NEW q \in Projects, Move(i, q) PROVE FreshInv(p)'
  BY <1>1, <1>6, MoveBegun DEF JobBecomes, Given
<1>7. ASSUME NEW i \in Items, Refer(i) PROVE FreshInv(p)'
  <2>1. /\ jobs[i].step = "numbered" /\ OthersStay(i)
        /\ JobBecomes(i, jobs[i].do, jobs[i].kind, jobs[i].project, jobs[i].number, "referred")
        /\ references' \in {references,
                            references \cup {RowOf(i, jobs[i].project, jobs[i].number)}}
    BY <1>7, Referred DEF RowOf
  <2> QED BY <2>1, FreshOfJob DEF JobBecomes, Given
<1>8. ASSUME NEW i \in Items, Refuse(i) PROVE FreshInv(p)'
  BY <1>1, <1>8, RefusalDone DEF JobEnds, JobBecomes, Given
<1>9. ASSUME NEW i \in Items, SaveNumber(i) PROVE FreshInv(p)'
  <2>1. /\ jobs[i].step = "referred" /\ OthersStay(i)
        /\ \/ JobEnds(i)
           \/ JobBecomes(i, "import", jobs[i].kind, jobs[i].project, jobs[i].number, "saved")
        /\ references' \in {references,
                            references \cup {RowOf(i, jobs[i].project, jobs[i].number)}}
    BY <1>9, NumberSaved DEF RowOf
  <2> QED BY <2>1, FreshOfJob DEF JobEnds, JobBecomes, Given
<1>10. ASSUME NEW i \in Items, StoreNext(i) PROVE FreshInv(p)'
  BY <1>1, <1>10, StoreAdvanced DEF JobBecomes, Given
<1>11. ASSUME NEW i \in Items, StoreSet(i) PROVE FreshInv(p)'
  BY <1>1, <1>11, StoreDone DEF JobEnds, JobBecomes, Given
<1>12. ASSUME NEW i \in Items, Delete(i) PROVE FreshInv(p)'
  BY <1>1, <1>12, Deleted DEF JobBecomes, Given
<1>13. ASSUME NEW i \in Items, Die(i) PROVE FreshInv(p)'
  BY <1>1, <1>13, Died DEF JobEnds, JobBecomes, Given
<1>14. ASSUME NEW i \in Items, NEW n \in Numbers \ {0}, BringNumber(i, n) PROVE FreshInv(p)'
  BY <1>1, <1>14, NumberBrought DEF JobEnds, JobBecomes, Given
<1>15. ASSUME UNCHANGED references, \A i \in Items : jobs'[i] = jobs[i] \/ JobEnds(i)
       PROVE  FreshInv(p)'
  BY <1>15 DEF FreshInv, Refused, JobEnds, JobBecomes, Given
<1>16. CASE ImportStep
  <2>1. CASE ImportFails
    BY <1>15, <2>1, ImportFailed
  <2>2. CASE ~ ImportFails
    BY <1>15, <1>16, <2>2 DEF ImportStep, StartImport, RecalcCount, RecalcNext, RecalcSet
  <2> QED BY <2>1, <2>2
<1>17. CASE UNCHANGED vars
  BY <1>15, <1>17 DEF vars
<1> QED BY <1>3, <1>4, <1>5, <1>6, <1>7, <1>8, <1>9, <1>10, <1>11, <1>12, <1>13, <1>14, <1>16,
           <1>17, StepsOfNext, FreshOfTake DEF JobStep, ItemNext

-----------------------------------------------------------------------------
(* The theorems about numbers.                                             *)

\* A project is never taken off the list of those that raced.
LEMMA RacedStays == BaseInv /\ [Next]_vars => raced \subseteq raced'
<1> SUFFICES ASSUME BaseInv, [Next]_vars PROVE raced \subseteq raced'
  OBVIOUS
<1>1. ASSUME NEW i \in Items, JobStep(i) PROVE raced \subseteq raced'
  BY <1>1 DEF JobStep, ItemNext, Create, Insert, StoreUnnumbered, Store, Move, TakeNumber, NextValue,
              Refer, Refuse, SaveNumber, StoreNext, StoreSet, Delete, Die, ImportItem, BringNumber
<1>2. CASE ImportStep
  BY <1>2 DEF ImportStep, StartImport, RecalcCount, RecalcNext, NextValue, RecalcSet, ImportFails
<1> QED BY <1>1, <1>2, StepsOfNext DEF vars

LEMMA NumberStep == BaseInv /\ NumberInv /\ [Next]_vars => NumberInv'
<1> SUFFICES ASSUME BaseInv, NumberInv, [Next]_vars PROVE NumberInv'
  OBVIOUS
<1>1. \A i \in Items : NoneBrought(i) /\ NoneBrought(i)'
  BY NoneBroughtStep DEF NumberInv
<1>2. ASSUME NEW p \in Projects, p \notin raced' PROVE OrderlyInv(p)'
  <2>1. SequenceInv(p) /\ EarlyInv(p) /\ UniqueInv(p) /\ FreshInv(p)
    BY <1>2, RacedStays DEF NumberInv, OrderlyInv
  <2>2. SequenceInv(p)'
    BY <1>2, <2>1, SequenceStep
  <2>3. EarlyInv(p)'
    BY <2>1, EarlyStep
  <2>4. UniqueInv(p)'
    BY <1>1, <1>2, <2>1, UniqueStep
  <2>5. FreshInv(p)'
    BY <2>1, FreshStep
  <2> QED BY <2>2, <2>3, <2>4, <2>5 DEF OrderlyInv
<1> QED BY <1>1, <1>2 DEF NumberInv

LEMMA NumbersInvariant == Spec => [](BaseInv /\ NumberInv)
<1>1. Init => BaseInv /\ NumberInv
  BY InitBase, InitNumbers
<1>2. BaseInv /\ NumberInv /\ [Next]_vars => (BaseInv /\ NumberInv)'
  BY BaseStep, NumberStep
<1> QED BY <1>1, <1>2, PTL DEF Spec

\* Two items of a project that never raced have one number only if one took it from the other,
\* from a dump or a tracker, or is an epic of the tracker, or was numbered while the import was
\* under way.
THEOREM NumbersUnique == Spec => []NumbersAreUnique
<1>1. BaseInv /\ NumberInv => NumbersAreUnique
  <2> SUFFICES ASSUME BaseInv, NumberInv, NEW p \in Projects \ raced,
                      NEW i \in In(p), NEW j \in In(p),
                      i # j, items[i].ref = items[j].ref, items[i].ref # 0
               PROVE  \/ j \in items[i].taken \/ i \in items[j].taken
                      \/ \E k \in {i, j} : <<k, p>> \in early
                                           \/ (items[k].kind = "epic" /\ items[k].brought = "tracker")
    BY DEF NumbersAreUnique
  <2>1. UniqueInv(p) /\ items[i].ref \in Nat \ {0}
    BY NumberTypes DEF NumberInv, OrderlyInv, In
  <2>2. Has(i, p, items[i].ref) /\ Has(j, p, items[i].ref)
    BY DEF Has, In
  <2>3. Exempt(i, p) \/ Exempt(j, p) \/ Took(i, j, p) \/ Took(j, i, p)
    BY <2>1, <2>2 DEF UniqueInv, In
  <2>4. \A k \in {i, j} : jobs[k].step \notin Bringing
    BY DEF In, BaseInv, JobInv, JobOK
  <2> QED BY <2>3, <2>4 DEF Exempt, Took
<1> QED BY <1>1, NumbersInvariant, PTL

\* A row of Reference is refused only in a project that raced.
THEOREM RefusalsExplained == Spec => []RefusedOnlyAfterRace
<1>1. Init => RefusedOnlyAfterRace
  BY DEF Init, RefusedOnlyAfterRace
<1>2. BaseInv /\ NumberInv /\ RefusedOnlyAfterRace /\ [Next]_vars => RefusedOnlyAfterRace'
  <2> SUFFICES ASSUME BaseInv, NumberInv, RefusedOnlyAfterRace, [Next]_vars
               PROVE  RefusedOnlyAfterRace'
    OBVIOUS
  <2>1. raced \subseteq raced'
    BY RacedStays
  <2>2. ASSUME NEW i \in Items, Refuse(i) PROVE refused' \subseteq raced'
    <3>1. /\ jobs[i].step = "numbered" /\ Refused(i) /\ jobs[i].project \in Projects
          /\ refused' = refused \cup {jobs[i].project}
      BY <2>2, RefusalDone
    <3>2. jobs[i].project \in raced
      BY <3>1 DEF NumberInv, OrderlyInv, FreshInv
    <3> QED BY <2>1, <3>1, <3>2 DEF RefusedOnlyAfterRace
  <2>3. refused' = refused \/ \E i \in Items : Refuse(i)
    <3>1. ASSUME NEW i \in Items, JobStep(i) PROVE refused' = refused \/ Refuse(i)
      BY <3>1 DEF JobStep, ItemNext, Create, Insert, StoreUnnumbered, Store, Move, TakeNumber,
                  Refer, SaveNumber, StoreNext, StoreSet, Delete, Die, ImportItem, BringNumber
    <3>2. ImportStep => refused' = refused
      BY DEF ImportStep, StartImport, RecalcCount, RecalcNext, RecalcSet, ImportFails
    <3> QED BY <3>1, <3>2, StepsOfNext DEF vars
  <2> QED BY <2>1, <2>2, <2>3 DEF RefusedOnlyAfterRace
<1> QED BY <1>1, <1>2, NumbersInvariant, PTL DEF Spec

=============================================================================

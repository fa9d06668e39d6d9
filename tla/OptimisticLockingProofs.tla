------------------------ MODULE OptimisticLockingProofs ------------------------
(***************************************************************************)
(* Theorems about OptimisticLocking for any number of requests, related    *)
(* changes, fields and server processes, loading early or late.            *)
(***************************************************************************)
EXTENDS OptimisticLocking, FiniteSetTheorems, WellFoundedInduction, TLAPS

Writing == {"saved", "snapshotted", "unlocked"}

\* The object is loaded before the version is compared; without this, what a
\* save merges would have no type.
LoadedInv == \A r \in Requests : pc[r] \in {"versioned", "valid"} => obj[r] # Unread

TypeInv == TypeOK /\ LoadedInv

\* The row lock is held exactly between the UPDATE and the commit, so the draft
\* of its holder is the next version of the committed row.
RowLockInv ==
  /\ \A r \in Requests : pc[r] \in Writing <=> writer = r
  /\ writer # NoOne => draft.version = row.version + 1

\* No accepted save has a version newer than the row.
SavedInv == \A r \in Done : saved[r] <= row.version

\* VersionCountsSaves is not inductive alone: Commit needs the row lock.
VersionInv == TypeInv /\ RowLockInv /\ SavedInv /\ VersionCountsSaves

-----------------------------------------------------------------------------
\* An entry is a partial function on the fields and the related key.
LEMMA EntryType ==
  ASSUME NEW b \in Requests \cup Attachments, NEW D \in SUBSET (Fields \cup {Related}),
         NEW g \in [D -> Contents]
  PROVE  [by |-> b, new |-> g] \in Entries
BY DEF Entries

\* Every reachable state is well typed.
LEMMA TypeInit == Init => TypeInv
<1> SUFFICES ASSUME Init PROVE TypeInv
  OBVIOUS
<1>1. [f \in Fields |-> Initial] \in Values
  BY DEF Values, Contents
<1>2. <<>> \in Seq(Entries)
  OBVIOUS
<1> QED
  BY <1>1, <1>2 DEF Init, TypeInv, TypeOK, LoadedInv, Locations, Answered

LEMMA TypeStep == TypeInv /\ [Next]_vars => TypeInv'
<1> SUFFICES ASSUME TypeInv, [Next]_vars PROVE TypeInv'
  OBVIOUS
<1> USE DEF TypeInv, TypeOK, LoadedInv, Locations, Answered, Goto, handlerVars
<1>1. ASSUME NEW r \in Requests, Open(r) PROVE TypeInv'
  BY <1>1 DEF Open
<1>2. ASSUME NEW r \in Requests, Send(r) PROVE TypeInv'
  BY <1>2 DEF Send
<1>3. ASSUME NEW r \in Requests, Start(r) PROVE TypeInv'
  BY <1>3 DEF Start
<1>4. ASSUME NEW r \in Requests, Load(r) PROVE TypeInv'
  BY <1>4 DEF Load
<1>5. ASSUME NEW r \in Requests, Lock(r) PROVE TypeInv'
  BY <1>5 DEF Lock
<1>6. ASSUME NEW r \in Requests, ReadVersion(r) PROVE TypeInv'
  BY <1>6 DEF ReadVersion
<1>7. ASSUME NEW r \in Requests, Validate(r) PROVE TypeInv'
  BY <1>7 DEF Validate
<1>8. ASSUME NEW r \in Requests, Save(r) PROVE TypeInv'
  <2>1. Merged(r) \in Values
    BY <1>8 DEF Save, Merged, Values, Contents
  <2>2. draft' \in [version : Nat, val : Values]
    BY <1>8, <2>1 DEF Save
  <2> QED
    BY <1>8, <2>2 DEF Save
<1>9. ASSUME NEW r \in Requests, TakeSnapshot(r) PROVE TypeInv'
  <2> DEFINE D == Diff(draft.val)
             e == [by |-> r, new |-> [f \in D |-> draft.val[f]]]
  <2>1. D \subseteq Fields
    BY DEF Diff
  <2>2. e \in Entries
    <3>1. [f \in D |-> draft.val[f]] \in [D -> Contents]
      BY <2>1 DEF Values
    <3> QED
      BY <2>1, <3>1, EntryType
  <2>3. history' = history \/ history' = Append(history, e)
    BY <1>9 DEF TakeSnapshot
  <2>4. history' \in Seq(Entries)
    <3>1. history \in Seq(Entries)
      OBVIOUS
    <3> HIDE DEF e, TypeInv, TypeOK, LoadedInv
    <3> QED
      BY <2>2, <2>3, <3>1
  <2> QED
    BY <1>9, <2>4 DEF TakeSnapshot
<1>10. ASSUME NEW r \in Requests, Unlock(r) PROVE TypeInv'
  BY <1>10 DEF Unlock
<1>11. ASSUME NEW r \in Requests, Commit(r) PROVE TypeInv'
  BY <1>11 DEF Commit
<1>12. ASSUME NEW a \in Attachments, LoadContentObject(a) PROVE TypeInv'
  BY <1>12 DEF LoadContentObject
<1>13. ASSUME NEW a \in Attachments, RecordRelated(a) PROVE TypeInv'
  <2> DEFINE D == Diff(frozen[a]) \cup {Related}
             g == [f \in D |-> IF f = Related THEN Initial ELSE frozen[a][f]]
             e == [by |-> a, new |-> g]
  <2>1. D \in SUBSET (Fields \cup {Related})
    BY DEF Diff
  <2>2. e \in Entries
    <3>1. frozen[a] \in Values
      BY <1>13 DEF RecordRelated
    <3>2. g \in [D -> Contents]
      BY <2>1, <3>1 DEF Values, Contents
    <3> HIDE DEF D, g
    <3> QED
      BY <2>1, <3>2, EntryType
  <2>3. history' = Append(history, e)
    BY <1>13 DEF RecordRelated
  <2>4. history' \in Seq(Entries)
    BY <2>2, <2>3
  <2> QED
    BY <1>13, <2>4 DEF RecordRelated
<1>14. CASE UNCHANGED vars
  BY <1>14 DEF vars
<1> HIDE DEF TypeInv, TypeOK, LoadedInv, Locations, Answered, Goto, handlerVars
<1> QED
  BY <1>1, <1>2, <1>3, <1>4, <1>5, <1>6, <1>7, <1>8, <1>9, <1>10, <1>11, <1>12,
     <1>13, <1>14 DEF Next, Handle, Finished

\* TypeOK is an invariant: the variables keep the types of the code's data.
THEOREM TypeCorrect == Spec => []TypeOK
<1>1. TypeInv => TypeOK
  BY DEF TypeInv
<1> QED
  BY <1>1, TypeInit, TypeStep, PTL DEF Spec

-----------------------------------------------------------------------------
LEMMA DoneIsFinite == IsFiniteSet(Done)
BY RequestsAssumption, FS_Subset DEF Done

LEMMA VersionInit == Init => VersionInv
<1> SUFFICES ASSUME Init PROVE VersionInv
  OBVIOUS
<1>1. Done = {}
  BY DEF Init, Done
<1>2. Cardinality(Done) = 0
  BY <1>1, FS_EmptySet
<1> QED
  BY <1>1, <1>2, TypeInit, RequestsAssumption
  DEF Init, VersionInv, RowLockInv, SavedInv, VersionCountsSaves, Writing

\* A step that neither saves nor commits leaves the version where it is.
LEMMA VersionKept ==
  ASSUME VersionInv, TypeInv', UNCHANGED <<row, draft, writer, saved>>,
         \A r \in Requests : pc'[r] \in Writing <=> pc[r] \in Writing,
         Done' = Done
  PROVE  VersionInv'
BY DEF VersionInv, RowLockInv, SavedInv, VersionCountsSaves

LEMMA VersionStep == VersionInv /\ [Next]_vars => VersionInv'
<1> SUFFICES ASSUME VersionInv, [Next]_vars PROVE VersionInv'
  OBVIOUS
<1>0. TypeInv /\ TypeInv'
  BY TypeStep DEF VersionInv
<1>t. TypeOK /\ TypeOK'
  BY <1>0 DEF TypeInv
<1>1. ASSUME NEW r \in Requests, Open(r) \/ Send(r) \/ Start(r) \/ Load(r) \/ Lock(r)
                \/ ReadVersion(r) \/ Validate(r) \/ TakeSnapshot(r) \/ Unlock(r)
      PROVE  VersionInv'
  <2>1. UNCHANGED <<row, draft, writer, saved>>
    BY <1>1 DEF Open, Send, Start, Load, Lock, ReadVersion, Validate, TakeSnapshot, Unlock
  <2>2. \A s \in Requests : pc'[s] \in Writing <=> pc[s] \in Writing
    BY <1>1, <1>t DEF TypeOK, Writing, Goto, Open, Send, Start, Load, Lock, ReadVersion,
       Validate, TakeSnapshot, Unlock
  <2>3. Done' = Done
    BY <1>1, <1>t DEF TypeOK, Done, Goto, Open, Send, Start, Load, Lock, ReadVersion,
       Validate, TakeSnapshot, Unlock
  <2> QED
    BY <1>0, <2>1, <2>2, <2>3, VersionKept
<1>2. ASSUME NEW r \in Requests, Save(r) PROVE VersionInv'
  <2>1. Done' = Done
    BY <1>2, <1>t DEF TypeOK, Done, Goto, Save
  <2>2. row' = row /\ saved' = saved
    BY <1>2 DEF Save
  <2>3. \A s \in Requests : pc'[s] \in Writing <=> writer' = s
    BY <1>2, <1>t, RequestsAssumption DEF TypeOK, Goto, Save, Writing, VersionInv, RowLockInv
  <2>4. draft'.version = row'.version + 1
    BY <1>2 DEF Save
  <2> QED
    BY <1>0, <2>1, <2>2, <2>3, <2>4 DEF VersionInv, RowLockInv, SavedInv, VersionCountsSaves
<1>3. ASSUME NEW r \in Requests, Commit(r) PROVE VersionInv'
  <2>1. writer = r /\ r # NoOne
    BY <1>3, RequestsAssumption DEF Commit, Writing, VersionInv, RowLockInv
  <2>2. row'.version = row.version + 1 /\ saved'[r] = row.version + 1
    BY <1>3, <1>t, <2>1 DEF Commit, TypeOK, VersionInv, RowLockInv
  <2>3. Done' = Done \cup {r} /\ r \notin Done
    BY <1>3, <1>t DEF TypeOK, Done, Goto, Commit
  <2>4. Cardinality(Done') = Cardinality(Done) + 1
    BY <2>3, DoneIsFinite, FS_AddElement
  <2>5. \A s \in Requests : pc'[s] \in Writing <=> writer' = s
    BY <1>3, <1>t, <2>1, RequestsAssumption
    DEF TypeOK, Goto, Commit, Writing, VersionInv, RowLockInv
  <2>6. \A s \in Done : saved'[s] = saved[s] /\ saved[s] \in Nat
    BY <1>3, <1>t, <2>3 DEF TypeOK, Commit, Done
  <2>7. SavedInv'
    <3>1. row.version \in Nat
      BY <1>t DEF TypeOK
    <3>2. \A s \in Done : saved'[s] <= row'.version
      BY <2>2, <2>6, <3>1 DEF SavedInv, VersionInv
    <3>3. saved'[r] <= row'.version
      BY <2>2, <3>1
    <3> QED
      BY <2>3, <3>2, <3>3 DEF SavedInv
  <2>8. VersionCountsSaves'
    <3>1. \A s \in Done : saved'[s] # saved'[r]
      BY <1>t, <2>2, <2>6 DEF TypeOK, SavedInv, VersionInv
    <3>2. Cardinality(Done) \in Nat
      BY DoneIsFinite, FS_CardinalityType
    <3>3. row'.version = 1 + Cardinality(Done')
      BY <2>2, <2>4, <3>2 DEF VersionInv, VersionCountsSaves
    <3> QED
      BY <2>3, <2>6, <3>1, <3>3 DEF VersionInv, VersionCountsSaves
  <2>9. RowLockInv'
    BY <1>3, <2>5 DEF RowLockInv, Commit
  <2> QED
    BY <1>0, <2>7, <2>8, <2>9 DEF VersionInv
<1>4. ASSUME NEW a \in Attachments, LoadContentObject(a) \/ RecordRelated(a)
      PROVE  VersionInv'
  BY <1>0, <1>4, VersionKept DEF LoadContentObject, RecordRelated, Done
<1>5. CASE UNCHANGED vars
  BY <1>0, <1>5, VersionKept DEF vars, Done
<1> QED
  BY <1>1, <1>2, <1>3, <1>4, <1>5 DEF Next, Handle, Finished

\* The version counts the accepted saves in every reachable state, however many
\* server processes interleave, and no two saves get the same version.
THEOREM VersionCorrect == Spec => []VersionCountsSaves
<1>1. VersionInv => VersionCountsSaves
  BY DEF VersionInv
<1> QED
  BY <1>1, VersionInit, VersionStep, PTL DEF Spec

-----------------------------------------------------------------------------
\* No related change has put an entry of its own into the history.
OnlySaves == \A a \in Attachments : ~ Recorded(a)

\* Entries are by requests that have taken their snapshot.
EntriesInv ==
  \A i \in DOMAIN history :
    history[i].by \in Requests => pc[history[i].by] \in {"snapshotted", "unlocked", "accepted"}

\* Before its commit a save differs from the row by its entry alone, the last and the only one
\* that is not visible.
Pending(r) ==
  \/ /\ \A i \in DOMAIN history : history[i].by # r
     /\ draft.val = row.val
  \/ /\ history # <<>> /\ history[Len(history)].by = r
     /\ \A i \in DOMAIN history : history[i].by = r => i = Len(history)
     /\ \A f \in Fields : IF f \in DOMAIN history[Len(history)].new
                          THEN history[Len(history)].new[f] = draft.val[f]
                          ELSE draft.val[f] = row.val[f]

PendingInv ==
  OnlySaves => /\ Rebuilt = row.val
               /\ \A r \in Requests : pc[r] \in {"snapshotted", "unlocked"} => Pending(r)

HistoryInv == VersionInv /\ EntriesInv /\ PendingInv

\* The entries that can be seen are the same as long as nobody commits.
LEMMA RebuiltKept ==
  ASSUME history' = history, \A r \in Requests : pc'[r] = "accepted" <=> pc[r] = "accepted"
  PROVE  Rebuilt' = Rebuilt
<1>1. \A i \in DOMAIN history : Visible(i)' <=> Visible(i)
  BY DEF Visible
<1>2. VisibleEntries' = VisibleEntries
  BY <1>1 DEF VisibleEntries
<1>3. \A f : EntriesOf(f)' = EntriesOf(f)
  BY <1>2 DEF EntriesOf
<1> QED BY <1>3 DEF Rebuilt

\* A set of entries has a newest one: their distances to the end have a least one.
LEMMA NewestExists ==
  ASSUME NEW n \in Nat, NEW I \in SUBSET (1 .. n), I # {}
  PROVE  \E i \in I : \A j \in I : j <= i
<1> DEFINE R == OpToRel(<, Nat)
           T == {n - i : i \in I}
<1>1. T \subseteq Nat /\ T # {}
  <2>1. \A i \in I : i \in Int /\ i <= n
    OBVIOUS
  <2>2. \A i \in I : n - i \in Nat
    BY <2>1
  <2> QED BY <2>2
<1>2. IsWellFoundedOn(R, Nat)
  BY NatLessThanWellFounded
<1>3. \A x, y \in Nat : x < y => <<x, y>> \in R
  BY DEF OpToRel
<1> HIDE DEF R
<1>4. \E x \in T : \A y \in T : ~ (<<y, x>> \in R)
  <2> HIDE DEF T
  <2> QED BY <1>1, <1>2, WFMin
<1>5. PICK i \in I : \A y \in T : ~ (<<y, n - i>> \in R)
  BY <1>4
<1>6. ASSUME NEW j \in I PROVE j <= i
  <2>1. n - j \in T
    OBVIOUS
  <2>2. ~ (n - j < n - i)
    BY <1>1, <1>3, <1>5, <2>1
  <2> QED BY <2>2
<1> QED BY <1>6

\* A new entry whose request has not committed cannot be seen.
LEMMA VisibleWithHidden ==
  ASSUME history \in Seq(Entries), NEW e \in Entries, history' = Append(history, e),
         e.by \in Requests, pc'[e.by] # "accepted",
         \A r \in Requests : pc'[r] = "accepted" <=> pc[r] = "accepted"
  PROVE  /\ VisibleEntries' = VisibleEntries
         /\ \A i \in VisibleEntries : history'[i] = history[i]
<1> DEFINE n == Len(history) + 1
<1>1. /\ DOMAIN history' = DOMAIN history \cup {n} /\ n \notin DOMAIN history
      /\ history'[n] = e /\ \A i \in DOMAIN history : history'[i] = history[i]
  OBVIOUS
<1> HIDE DEF n
<1>2. \A i \in DOMAIN history : Visible(i)' <=> Visible(i)
  BY <1>1 DEF Visible
<1>3. \A i \in DOMAIN history' : Visible(i)' => i # n
  BY <1>1 DEF Visible
<1> QED BY <1>1, <1>2, <1>3 DEF VisibleEntries

\* So it changes nothing of what the history tells.
LEMMA RebuiltWithHidden ==
  ASSUME history \in Seq(Entries), NEW e \in Entries, history' = Append(history, e),
         e.by \in Requests, pc'[e.by] # "accepted",
         \A r \in Requests : pc'[r] = "accepted" <=> pc[r] = "accepted"
  PROVE  Rebuilt' = Rebuilt
<1>1. DOMAIN history = 1 .. Len(history) /\ Len(history) \in Nat
  OBVIOUS
<1>2. VisibleEntries' = VisibleEntries /\ \A i \in VisibleEntries : history'[i] = history[i]
  BY VisibleWithHidden
<1>3. \A f : EntriesOf(f)' = EntriesOf(f)
  BY <1>2 DEF EntriesOf
<1>4. \A f \in Fields : EntriesOf(f) # {} => Newest(EntriesOf(f)) \in VisibleEntries
  <2> SUFFICES ASSUME NEW f \in Fields, EntriesOf(f) # {}
               PROVE  Newest(EntriesOf(f)) \in VisibleEntries
    OBVIOUS
  <2>1. EntriesOf(f) \subseteq VisibleEntries /\ EntriesOf(f) \subseteq 1 .. Len(history)
    BY <1>1 DEF EntriesOf, VisibleEntries
  <2>2. \E i \in EntriesOf(f) : \A j \in EntriesOf(f) : j <= i
    BY <1>1, <2>1, NewestExists
  <2> QED BY <2>1, <2>2 DEF Newest
<1> QED BY <1>2, <1>3, <1>4 DEF Rebuilt


\* A step that leaves the rows and the history alone, and moves no request to or from the places
\* after its snapshot.
LEMMA HistoryKept ==
  ASSUME HistoryInv, VersionInv', UNCHANGED <<row, history>>,
         \A r \in Requests : /\ pc'[r] = "accepted" <=> pc[r] = "accepted"
                             /\ pc'[r] \in {"snapshotted", "unlocked"} <=> pc[r] \in {"snapshotted", "unlocked"},
         (\A r \in Requests : pc[r] \notin {"snapshotted", "unlocked"}) \/ draft' = draft
  PROVE  HistoryInv'
<1>1. EntriesInv'
  BY DEF HistoryInv, EntriesInv
<1>2. Rebuilt' = Rebuilt
  BY RebuiltKept
<1>3. OnlySaves' <=> OnlySaves
  BY DEF OnlySaves, Recorded
<1>4. PendingInv'
  BY <1>2, <1>3 DEF HistoryInv, PendingInv, Pending
<1> QED BY <1>1, <1>4 DEF HistoryInv

LEMMA HistoryOfSnapshot ==
  ASSUME HistoryInv, VersionInv', NEW r \in Requests, TakeSnapshot(r)
  PROVE  HistoryInv'
<1> DEFINE D == Diff(draft.val)
           e == [by |-> r, new |-> [f \in D |-> draft.val[f]]]
<1>0. TypeOK /\ TypeOK'
  BY DEF HistoryInv, VersionInv, TypeInv
<1>1. /\ pc[r] = "saved" /\ pc'[r] = "snapshotted" /\ UNCHANGED <<row, draft, writer>>
      /\ \A s \in Requests \ {r} : pc'[s] = pc[s]
      /\ history' = IF D = {} THEN history ELSE Append(history, e)
  BY <1>0 DEF TakeSnapshot, Goto, TypeOK
<1>2. \A s \in Requests : pc[s] \notin {"snapshotted", "unlocked"}
  BY <1>1 DEF HistoryInv, VersionInv, RowLockInv, Writing
<1>3. \A s \in Requests \ {r} : pc'[s] \notin {"snapshotted", "unlocked"}
  BY <1>1, <1>2
<1>4. \A i \in DOMAIN history : history[i].by # r
  BY <1>1 DEF HistoryInv, EntriesInv
<1>5. /\ D \subseteq Fields /\ draft.val \in Values /\ row.val \in Values
      /\ history \in Seq(Entries)
  BY <1>0 DEF Diff, TypeOK
<1>6. \A s \in Requests : pc'[s] = "accepted" <=> pc[s] = "accepted"
  BY <1>1
<1>7. ASSUME OnlySaves
      PROVE  \A f \in Fields : f \in D <=> draft.val[f] # row.val[f]
  BY <1>7 DEF Diff, HistoryInv, PendingInv
<1>8. CASE D = {}
  <2>1. history' = history
    BY <1>1, <1>8
  <2>2. Rebuilt' = Rebuilt
    BY <1>6, <2>1, RebuiltKept
  <2>3. EntriesInv'
    BY <1>1, <1>4, <2>1 DEF HistoryInv, EntriesInv
  <2>4. ASSUME OnlySaves PROVE draft.val = row.val
    BY <1>5, <1>7, <1>8, <2>4 DEF Values
  <2>5. OnlySaves' <=> OnlySaves
    BY <2>1 DEF OnlySaves, Recorded
  <2>6. PendingInv'
    <3>1. ASSUME OnlySaves PROVE Pending(r)'
      BY <1>1, <1>4, <2>1, <2>4, <3>1 DEF Pending
    <3> QED BY <1>1, <1>3, <2>2, <2>5, <3>1 DEF PendingInv, HistoryInv
  <2> QED BY <2>3, <2>6 DEF HistoryInv
<1>9. CASE D # {}
  <2>1. history' = Append(history, e)
    BY <1>1, <1>9
  <2>2. e \in Entries
    <3>1. [f \in D |-> draft.val[f]] \in [D -> Contents]
      BY <1>5 DEF Values
    <3> QED BY <1>5, <3>1, EntryType
  <2>3. e.by = r /\ DOMAIN e.new = D /\ \A f \in D : e.new[f] = draft.val[f]
    OBVIOUS
  <2> HIDE DEF e
  <2>4. /\ DOMAIN history' = 1 .. Len(history) + 1 /\ Len(history') = Len(history) + 1
        /\ history'[Len(history) + 1] = e /\ history' # <<>>
        /\ DOMAIN history = 1 .. Len(history) /\ Len(history) \in Nat
        /\ \A i \in DOMAIN history : history'[i] = history[i]
    BY <1>5, <2>1, <2>2
  <2>5. Rebuilt' = Rebuilt
    BY <1>1, <1>5, <1>6, <2>1, <2>2, <2>3, RebuiltWithHidden
  <2>6. \A i \in DOMAIN history' : i \in DOMAIN history \/ i = Len(history) + 1
    BY <2>4
  <2>7. EntriesInv'
    <3>1. ASSUME NEW i \in DOMAIN history', history'[i].by \in Requests
          PROVE  pc'[history'[i].by] \in {"snapshotted", "unlocked", "accepted"}
      BY <1>1, <1>4, <2>3, <2>4, <2>6, <3>1 DEF HistoryInv, EntriesInv
    <3> QED BY <3>1 DEF EntriesInv
  <2>8. OnlySaves' => OnlySaves
    BY <2>4 DEF OnlySaves, Recorded
  <2>9. ASSUME OnlySaves PROVE Pending(r)'
    <3>1. \A i \in DOMAIN history' : history'[i].by = r => i = Len(history')
      BY <1>4, <2>4, <2>6
    <3>2. \A f \in Fields : IF f \in DOMAIN history'[Len(history')].new
                            THEN history'[Len(history')].new[f] = draft'.val[f]
                            ELSE draft'.val[f] = row'.val[f]
      BY <1>1, <1>7, <2>3, <2>4, <2>9
    <3> QED BY <2>3, <2>4, <3>1, <3>2 DEF Pending
  <2>10. PendingInv'
    BY <1>1, <1>3, <2>5, <2>8, <2>9 DEF PendingInv, HistoryInv
  <2> QED BY <2>7, <2>10 DEF HistoryInv
<1> QED BY <1>8, <1>9


\* The commit shows the entry of the save together with its row.
LEMMA HistoryOfCommit ==
  ASSUME HistoryInv, VersionInv', NEW r \in Requests, Commit(r)
  PROVE  HistoryInv'
<1>0. TypeOK /\ TypeOK'
  BY DEF HistoryInv, VersionInv, TypeInv
<1>1. /\ pc[r] = "unlocked" /\ pc'[r] = "accepted" /\ UNCHANGED <<history, draft>> /\ row' = draft
      /\ \A s \in Requests \ {r} : pc'[s] = pc[s]
  BY <1>0 DEF Commit, Goto, TypeOK
<1>2. \A s \in Requests \ {r} : pc[s] \notin {"snapshotted", "unlocked"}
  BY <1>1 DEF HistoryInv, VersionInv, RowLockInv, Writing
<1>3. EntriesInv'
  BY <1>1 DEF HistoryInv, EntriesInv
<1>4. OnlySaves' <=> OnlySaves
  BY <1>1 DEF OnlySaves, Recorded
<1>5. \A s \in Requests : pc'[s] \notin {"snapshotted", "unlocked"}
  BY <1>1, <1>2
<1>6. ASSUME OnlySaves PROVE Rebuilt' = row'.val
  <2>1. Rebuilt = row.val /\ Pending(r)
    BY <1>1, <1>6 DEF HistoryInv, PendingInv
  <2>2. /\ history \in Seq(Entries) /\ row.val \in Values /\ draft.val \in Values
    BY <1>0 DEF TypeOK
  <2>3. \A i \in DOMAIN history : history[i].by # r => (Visible(i)' <=> Visible(i))
    BY <1>1 DEF Visible
  <2>4. CASE \A i \in DOMAIN history : history[i].by # r
    <3>1. VisibleEntries' = VisibleEntries
      BY <1>1, <2>3, <2>4 DEF VisibleEntries
    <3>2. \A f : EntriesOf(f)' = EntriesOf(f)
      BY <1>1, <3>1 DEF EntriesOf
    <3>3. Rebuilt' = Rebuilt
      BY <1>1, <3>2 DEF Rebuilt
    <3>4. draft.val = row.val
      BY <2>1, <2>2, <2>4 DEF Pending
    <3> QED BY <1>1, <2>1, <3>3, <3>4
  <2>5. CASE ~ \A i \in DOMAIN history : history[i].by # r
    <3>0. PICK n : n = Len(history)
      OBVIOUS
    <3> DEFINE e == history[n]
    <3>1. /\ history # <<>> /\ e.by = r
          /\ \A i \in DOMAIN history : history[i].by = r => i = n
          /\ \A f \in Fields : IF f \in DOMAIN e.new THEN e.new[f] = draft.val[f]
                               ELSE draft.val[f] = row.val[f]
      BY <2>1, <2>5, <3>0 DEF Pending
    <3>2. DOMAIN history = 1 .. n /\ n \in Nat /\ n \in DOMAIN history
      BY <2>2, <3>0, <3>1
    <3>3. ~ Visible(n) /\ Visible(n)'
      BY <1>1, <3>1 DEF Visible
    <3>4. VisibleEntries' = VisibleEntries \cup {n} /\ n \notin VisibleEntries
      BY <1>1, <2>3, <3>1, <3>2, <3>3 DEF VisibleEntries
    <3>5. ASSUME NEW f \in Fields PROVE Rebuilt'[f] = draft.val[f]
      <4>1. CASE f \in DOMAIN e.new
        <5>1. n \in EntriesOf(f)' /\ EntriesOf(f)' \subseteq 1 .. n
          BY <1>1, <3>2, <3>4, <4>1 DEF EntriesOf, VisibleEntries
        <5>2. Newest(EntriesOf(f)') = n
          <6>1. \A j \in EntriesOf(f)' : j <= n /\ j \in Int
            BY <3>2, <5>1
          <6>2. \A i \in EntriesOf(f)' : (\A j \in EntriesOf(f)' : j <= i) => i = n
            BY <3>2, <5>1, <6>1
          <6> QED BY <5>1, <6>1, <6>2 DEF Newest
        <5>3. Newest(EntriesOf(f))' = n
          BY <5>2 DEF Newest
        <5> QED BY <1>1, <3>1, <4>1, <5>1, <5>3 DEF Rebuilt
      <4>2. CASE f \notin DOMAIN e.new
        <5>1. EntriesOf(f)' = EntriesOf(f)
          BY <1>1, <3>4, <4>2 DEF EntriesOf
        <5>2. Rebuilt'[f] = Rebuilt[f]
          BY <1>1, <5>1 DEF Rebuilt
        <5> QED BY <2>1, <3>1, <4>2, <5>2
      <4> QED BY <4>1, <4>2
    <3>6. Rebuilt' = [f \in Fields |-> Rebuilt'[f]]
      BY DEF Rebuilt
    <3> QED BY <1>1, <2>2, <3>5, <3>6 DEF Values
  <2> QED BY <2>4, <2>5
<1>7. PendingInv'
  BY <1>4, <1>5, <1>6 DEF PendingInv
<1> QED BY <1>3, <1>7 DEF HistoryInv

LEMMA HistoryStep == HistoryInv /\ [Next]_vars => HistoryInv'
<1> SUFFICES ASSUME HistoryInv, [Next]_vars PROVE HistoryInv'
  OBVIOUS
<1>0. VersionInv' /\ TypeOK
  BY VersionStep DEF HistoryInv, VersionInv, TypeInv
<1>1. ASSUME NEW r \in Requests, Open(r) \/ Send(r) \/ Start(r) \/ Load(r) \/ Lock(r)
                \/ ReadVersion(r) \/ Validate(r) \/ Unlock(r)
      PROVE  HistoryInv'
  <2>1. UNCHANGED <<row, history, draft>>
    BY <1>1 DEF Open, Send, Start, Load, Lock, ReadVersion, Validate, Unlock
  <2>2. \A s \in Requests :
          /\ pc'[s] = "accepted" <=> pc[s] = "accepted"
          /\ pc'[s] \in {"snapshotted", "unlocked"} <=> pc[s] \in {"snapshotted", "unlocked"}
    BY <1>0, <1>1 DEF TypeOK, Goto, Open, Send, Start, Load, Lock, ReadVersion, Validate, Unlock
  <2> QED BY <1>0, <2>1, <2>2, HistoryKept
<1>2. ASSUME NEW r \in Requests, Save(r) PROVE HistoryInv'
  <2>1. UNCHANGED <<row, history>> /\ writer = NoOne /\ pc[r] = "valid"
    BY <1>2 DEF Save
  <2>2. \A s \in Requests :
          /\ pc'[s] = "accepted" <=> pc[s] = "accepted"
          /\ pc'[s] \in {"snapshotted", "unlocked"} <=> pc[s] \in {"snapshotted", "unlocked"}
    BY <1>0, <1>2 DEF TypeOK, Goto, Save
  <2>3. \A s \in Requests : pc[s] \notin {"snapshotted", "unlocked"}
    BY <2>1, RequestsAssumption DEF HistoryInv, VersionInv, RowLockInv, Writing
  <2> QED BY <1>0, <2>1, <2>2, <2>3, HistoryKept
<1>3. ASSUME NEW r \in Requests, TakeSnapshot(r) PROVE HistoryInv'
  BY <1>0, <1>3, HistoryOfSnapshot
<1>4. ASSUME NEW r \in Requests, Commit(r) PROVE HistoryInv'
  BY <1>0, <1>4, HistoryOfCommit
<1>5. ASSUME NEW a \in Attachments, LoadContentObject(a) PROVE HistoryInv'
  <2>1. UNCHANGED <<row, history, draft, pc>>
    BY <1>5 DEF LoadContentObject
  <2> QED BY <1>0, <2>1, HistoryKept
<1>6. ASSUME NEW a \in Attachments, RecordRelated(a) PROVE HistoryInv'
  <2>1. PICK e : history' = Append(history, e) /\ e.by = a
    <3> DEFINE D == Diff(frozen[a]) \cup {Related}
               e == [by |-> a, new |-> [f \in D |-> IF f = Related THEN Initial ELSE frozen[a][f]]]
    <3>1. history' = Append(history, e) /\ e.by = a
      BY <1>6 DEF RecordRelated
    <3> QED BY <3>1
  <2>2. /\ pc' = pc /\ history \in Seq(Entries)
    BY <1>0, <1>6 DEF RecordRelated, TypeOK
  <2>3. /\ DOMAIN history' = DOMAIN history \cup {Len(history) + 1}
        /\ history'[Len(history) + 1] = e /\ \A i \in DOMAIN history : history'[i] = history[i]
    <3>1. history' \in Seq(Entries)
      BY <1>0 DEF VersionInv, TypeInv, TypeOK
    <3> QED BY <2>1, <2>2, <3>1
  <2>4. EntriesInv'
    BY <2>1, <2>2, <2>3, RequestsAssumption DEF HistoryInv, EntriesInv
  <2>5. ~ OnlySaves'
    BY <2>1, <2>3 DEF OnlySaves, Recorded
  <2> QED BY <1>0, <2>4, <2>5 DEF HistoryInv, PendingInv
<1>7. CASE UNCHANGED vars
  <2>1. UNCHANGED <<row, history, draft, pc>>
    BY <1>7 DEF vars
  <2> QED BY <1>0, <2>1, HistoryKept
<1> QED BY <1>1, <1>2, <1>3, <1>4, <1>5, <1>6, <1>7 DEF Next, Handle, Finished

\* As long as no related change has been recorded, the history tells what is in the row, however
\* many requests and server processes interleave, also when stale fields were saved.
THEOREM HistoryCorrect == Spec => []HistoryMatchesRow
<1>1. Init => HistoryInv
  <2> SUFFICES ASSUME Init PROVE HistoryInv
    OBVIOUS
  <2>1. /\ history = <<>> /\ row.val = [f \in Fields |-> Initial]
        /\ \A r \in Requests : pc[r] = "idle"
    BY DEF Init
  <2>2. DOMAIN history = {}
    BY <2>1
  <2>3. Rebuilt = row.val
    BY <2>1, <2>2 DEF Rebuilt, EntriesOf, VisibleEntries
  <2> QED BY <2>1, <2>2, <2>3, VersionInit DEF HistoryInv, EntriesInv, PendingInv
<1>2. HistoryInv => HistoryMatchesRow
  BY DEF HistoryInv, PendingInv, OnlySaves, HistoryMatchesRow
<1> QED BY <1>1, <1>2, HistoryStep, PTL DEF Spec

-----------------------------------------------------------------------------
(* One server process and no related changes: the refinement.              *)

Compared == {"versioned", "valid"} \cup Writing

Working == {"started", "locked"} \cup Compared

\* The only server process works on one request at a time.
AloneInv == \A r, s \in Requests : pc[r] \in Working /\ pc[s] \in Working => r = s

\* What a request carries: the version its client has seen, or no usable one, and no object before
\* the handler has started.
ClientInv ==
  \A r \in Requests :
    /\ pc[r] # "idle" => seen[r] >= 1
    /\ pc[r] \notin {"idle", "editing"} => sent[r] \in {seen[r], NoVersion}
    /\ pc[r] \in {"idle", "editing", "sent"} => obj[r] = Unread

\* What a handler that works alone has read is still in the row, and once it has accepted the
\* version, no save of its fields is newer than what the client has seen.
Fresh(r) ==
  /\ obj[r] \in {Unread, row.val}
  /\ pc[r] \in Compared => current[r] = row.version
  /\ pc[r] \in Writing =>
       draft.val = [f \in Fields |-> IF f \in fields[r] THEN r ELSE row.val[f]]
  /\ pc[r] \in {"valid"} \cup Writing =>
       /\ sent[r] = seen[r]
       /\ \A s \in Done : fields[s] \cap fields[r] # {} => saved[s] <= seen[r]

FreshInv == \A r \in Requests : pc[r] \in Working => Fresh(r)

\* The row holds what accepted saves have written.
WrittenInv == \A f \in Fields : row.val[f] \in Done \cup {Initial}

\* The visible entries after i.
Newer(i) == {j \in VisibleEntries : j > i}

\* Why it is enough to compare with as many entries as versions were missed: an accepted save has a
\* visible entry with all of its fields, and at most one entry per later version comes after it.
LogInv ==
  \A r \in Done :
    /\ saved[r] >= 1
    /\ fields[r] # {} =>
         \E i \in VisibleEntries : /\ fields[r] \subseteq DOMAIN history[i].new
                                   /\ Cardinality(Newer(i)) <= row.version - saved[r]

SoleInv == HistoryInv /\ AloneInv /\ ClientInv /\ FreshInv /\ WrittenInv /\ LogInv

\* A process is free only when no handler is at work.
LEMMA ProcessFreeMeansNobodyWorks ==
  ASSUME Workers = 1, Attachments = {}, ProcessFree
  PROVE  \A r \in Requests : pc[r] \notin Working
<1>1. Busy \subseteq Requests
  BY DEF Busy
<1>2. IsFiniteSet(Busy)
  BY <1>1, RequestsAssumption, FS_Subset
<1>3. Cardinality(Busy) = 0
  BY <1>2, FS_CardinalityType DEF ProcessFree
<1>4. Busy = {}
  BY <1>2, <1>3, FS_EmptySet
<1> QED BY <1>4 DEF Busy, Working, Compared, Writing, Answered

LEMMA NewerIsFinite ==
  ASSUME TypeOK
  PROVE  \A i : IsFiniteSet(Newer(i)) /\ Cardinality(Newer(i)) \in Nat
<1>1. history \in Seq(Entries)
  BY DEF TypeOK
<1>2. DOMAIN history = 1 .. Len(history) /\ Len(history) \in Nat
  BY <1>1
<1>3. IsFiniteSet(1 .. Len(history))
  BY <1>2, FS_Interval
<1>4. \A i : Newer(i) \subseteq 1 .. Len(history)
  BY <1>2 DEF Newer, VisibleEntries
<1> QED BY <1>3, <1>4, FS_Subset, FS_CardinalityType

\* The log stays as it is when nobody commits: a new entry cannot be seen yet.
LEMMA LogKept ==
  ASSUME TypeOK, TypeOK', LogInv, UNCHANGED <<row, saved>>,
         Done' = Done, \A s \in Done : fields'[s] = fields[s],
         VisibleEntries' = VisibleEntries,
         \A i \in VisibleEntries : history'[i] = history[i]
  PROVE  LogInv'
<1>1. \A i : Newer(i)' = Newer(i)
  BY DEF Newer
<1> QED BY <1>1 DEF LogInv

\* Steps of a client, and of a handler that neither writes nor ends: they leave the row, the
\* history and the accepted requests alone.
LEMMA SoleKept ==
  ASSUME SoleInv, HistoryInv', UNCHANGED <<row, saved, history>>, Done' = Done,
         \A s \in Done : fields'[s] = fields[s],
         AloneInv', ClientInv', FreshInv'
  PROVE  SoleInv'
<1>1. \A r \in Requests : pc'[r] = "accepted" <=> pc[r] = "accepted"
  BY DEF Done
<1>2. VisibleEntries' = VisibleEntries
  BY <1>1 DEF VisibleEntries, Visible
<1>3. TypeOK /\ TypeOK'
  BY DEF SoleInv, HistoryInv, VersionInv, TypeInv
<1>4. LogInv'
  BY <1>2, <1>3, LogKept DEF SoleInv
<1> QED BY <1>4 DEF SoleInv, WrittenInv

\* What a client does before its request is taken.
LEMMA SoleOfClient ==
  ASSUME SoleInv, HistoryInv', NEW r \in Requests, Open(r) \/ Send(r)
  PROVE  SoleInv'
<1>0. TypeOK /\ TypeOK'
  BY DEF SoleInv, HistoryInv, VersionInv, TypeInv
<1>1. /\ pc[r] \in {"idle", "editing"} /\ pc'[r] \in {"editing", "sent"}
      /\ \A s \in Requests \ {r} : pc'[s] = pc[s]
      /\ UNCHANGED <<row, draft, saved, history, obj, current>>
  BY <1>0 DEF Open, Send, Goto, TypeOK
<1>2. \A s \in Requests \ {r} : /\ fields'[s] = fields[s] /\ sent'[s] = sent[s]
                                /\ seen'[s] = seen[s]
  BY <1>0 DEF Open, Send, TypeOK
<1>3. Done' = Done /\ Done \subseteq Requests \ {r}
  BY <1>1 DEF Done
<1>4. AloneInv'
  BY <1>1 DEF SoleInv, AloneInv, Working, Compared, Writing
<1>5. row.version \in Nat /\ row.version >= 1
  <2>1. Cardinality(Done) \in Nat
    BY DoneIsFinite, FS_CardinalityType
  <2> QED BY <2>1 DEF SoleInv, HistoryInv, VersionInv, VersionCountsSaves
<1>6. ClientInv'
  <2>1. /\ pc'[r] # "idle" => seen'[r] >= 1
        /\ pc'[r] \notin {"idle", "editing"} => sent'[r] \in {seen'[r], NoVersion}
        /\ obj'[r] = Unread
    <3>1. CASE Open(r)
      BY <1>0, <1>1, <1>5, <3>1 DEF Open, Goto, SoleInv, ClientInv, TypeOK
    <3>2. CASE Send(r)
      BY <1>0, <1>1, <3>2 DEF Send, Goto, SoleInv, ClientInv, TypeOK
    <3> QED BY <3>1, <3>2
  <2> QED BY <1>1, <1>2, <2>1 DEF SoleInv, ClientInv
<1>7. FreshInv'
  <2> SUFFICES ASSUME NEW s \in Requests, pc'[s] \in Working
               PROVE  Fresh(s)'
    BY DEF FreshInv
  <2>1. s # r
    BY <1>1 DEF Working, Compared, Writing
  <2>2. /\ pc'[s] = pc[s] /\ fields'[s] = fields[s] /\ sent'[s] = sent[s] /\ seen'[s] = seen[s]
        /\ UNCHANGED <<row, draft, saved, obj, current>>
        /\ \A t \in Done : fields'[t] = fields[t]
    BY <1>1, <1>2, <1>3, <2>1
  <2>3. Fresh(s)
    BY <2>2 DEF SoleInv, FreshInv
  <2> QED BY <1>3, <2>2, <2>3 DEF Fresh
<1> QED BY <1>1, <1>2, <1>3, <1>4, <1>6, <1>7, SoleKept

\* What Validate lets through: a newer save of one of the fields would have an entry among those
\* the handler compares with.
LEMMA AcceptedIsFresh ==
  ASSUME SoleInv, NEW r \in Requests, pc[r] = "versioned", Accepts(r)
  PROVE  /\ sent[r] = seen[r]
         /\ \A s \in Done : fields[s] \cap fields[r] # {} => saved[s] <= seen[r]
<1>0. TypeOK
  BY DEF SoleInv, HistoryInv, VersionInv, TypeInv
<1>1. sent[r] \in Nat /\ row.version \in Nat /\ seen[r] = sent[r] /\ current[r] = row.version
  <2>1. sent[r] \in {seen[r], NoVersion} /\ Fresh(r)
    BY DEF SoleInv, ClientInv, FreshInv, Working, Compared
  <2>2. sent[r] >= 0
    BY DEF Accepts, ValidVersion
  <2>3. seen[r] \in Nat /\ row.version \in Nat
    BY <1>0 DEF TypeOK
  <2> QED BY <2>1, <2>2, <2>3 DEF NoVersion, Fresh, Compared
<1>2. ASSUME NEW s \in Done, NEW f \in fields[s] \cap fields[r], ~ (saved[s] <= sent[r])
      PROVE  FALSE
  <2>1. saved[s] \in Nat /\ saved[s] <= row.version
    BY <1>0 DEF SoleInv, HistoryInv, VersionInv, SavedInv, TypeOK, Done
  <2>2. fields[r] \cap ModifiedFields(row.version - sent[r]) = {}
    BY <1>1, <1>2, <2>1 DEF Accepts, BothModified
  <2>3. PICK i \in VisibleEntries : /\ fields[s] \subseteq DOMAIN history[i].new
                                    /\ Cardinality(Newer(i)) <= row.version - saved[s]
    BY DEF SoleInv, LogInv
  <2>4. Cardinality(Newer(i)) < row.version - sent[r]
    BY <1>0, <1>1, <1>2, <2>1, <2>3, NewerIsFinite
  <2>5. i \in LastEntries(row.version - sent[r])
    BY <2>4 DEF LastEntries, Newer
  <2>6. f \in ModifiedFields(row.version - sent[r])
    BY <2>3, <2>5 DEF ModifiedFields
  <2> QED BY <2>2, <2>6
<1> QED BY <1>1, <1>2

\* A handler up to its commit.
LEMMA SoleOfHandler ==
  ASSUME Workers = 1, Attachments = {}, SoleInv, HistoryInv', NEW r \in Requests,
         \/ Start(r) \/ Load(r) \/ Lock(r) \/ ReadVersion(r) \/ Validate(r) \/ Save(r)
         \/ TakeSnapshot(r) \/ Unlock(r)
  PROVE  SoleInv'
<1> USE DEF Working, Compared, Writing
<1>0. TypeOK /\ TypeOK' /\ LoadedInv
  BY DEF SoleInv, HistoryInv, VersionInv, TypeInv
<1>1. /\ pc[r] = "sent" \/ pc[r] \in Working
      /\ pc'[r] \in Working \cup {"refused"}
      /\ \A s \in Requests \ {r} : pc'[s] = pc[s]
      /\ UNCHANGED <<row, saved, seen, sent, fields>>
  BY <1>0 DEF Start, Load, Lock, ReadVersion, Validate, Save, TakeSnapshot, Unlock, Goto,
     handlerVars, TypeOK
<1>2. \A s \in Requests \ {r} : pc'[s] \notin Working
  <2>1. CASE Start(r)
    BY <1>1, <2>1, ProcessFreeMeansNobodyWorks DEF Start
  <2>2. CASE pc[r] \in Working
    BY <1>1, <2>2 DEF SoleInv, AloneInv
  <2> QED BY <2>1, <2>2
          DEF Load, Lock, ReadVersion, Validate, Save, TakeSnapshot, Unlock
<1>3. Done' = Done
  BY <1>1 DEF Done
<1>4. AloneInv'
  BY <1>2 DEF AloneInv
<1>5. \A s \in Requests \ {r} : obj'[s] = obj[s]
  BY <1>0 DEF Start, Load, Lock, ReadVersion, Validate, Save, TakeSnapshot, Unlock, TypeOK
<1>6. ClientInv'
  BY <1>1, <1>5 DEF SoleInv, ClientInv
<1>7. ASSUME pc'[r] \in Working PROVE Fresh(r)'
  <2>1. CASE Start(r)
    BY <1>0, <1>1, <2>1 DEF Start, Goto, TypeOK, SoleInv, ClientInv, Fresh
  <2>2. pc[r] \in Working => Fresh(r)
    BY DEF SoleInv, FreshInv
  <2>3. CASE Load(r)
    BY <1>0, <1>1, <1>3, <2>2, <2>3 DEF Load, TypeOK, Fresh
  <2>4. CASE Lock(r)
    BY <1>0, <1>1, <1>3, <2>2, <2>4 DEF Lock, Goto, TypeOK, Fresh
  <2>5. CASE ReadVersion(r)
    BY <1>0, <1>1, <1>3, <2>2, <2>5 DEF ReadVersion, Goto, TypeOK, Fresh
  <2>6. CASE Validate(r)
    <3>1. /\ pc[r] = "versioned" /\ pc'[r] = "valid" /\ Accepts(r)
          /\ UNCHANGED <<draft, obj, current>>
      BY <1>0, <1>7, <2>6 DEF Validate, Goto, TypeOK
    <3> QED BY <1>1, <1>3, <2>2, <3>1, AcceptedIsFresh DEF Fresh
  <2>7. CASE Save(r)
    <3>1. /\ pc[r] = "valid" /\ pc'[r] = "saved" /\ UNCHANGED <<obj, current>>
          /\ draft'.val = Merged(r)
      BY <1>0, <2>7 DEF Save, Goto, TypeOK
    <3>2. obj[r] = row.val
      BY <1>0, <2>2, <3>1 DEF LoadedInv, Fresh
    <3> QED BY <1>1, <1>3, <2>2, <3>1, <3>2 DEF Merged, Fresh
  <2>8. CASE TakeSnapshot(r) \/ Unlock(r)
    BY <1>0, <1>1, <1>3, <2>2, <2>8 DEF TakeSnapshot, Unlock, Goto, TypeOK, Fresh
  <2> QED BY <2>1, <2>3, <2>4, <2>5, <2>6, <2>7, <2>8
<1>8. FreshInv'
  BY <1>2, <1>7 DEF FreshInv
<1>9. CASE ~ TakeSnapshot(r)
  <2>1. history' = history
    BY <1>9 DEF Start, Load, Lock, ReadVersion, Validate, Save, Unlock
  <2> QED BY <1>1, <1>3, <1>4, <1>6, <1>8, <2>1, SoleKept
<1>10. CASE TakeSnapshot(r)
  <2> DEFINE D == Diff(draft.val)
             e == [by |-> r, new |-> [f \in D |-> draft.val[f]]]
  <2>1. history \in Seq(Entries) /\ history' \in {history, Append(history, e)}
    BY <1>0, <1>10 DEF TakeSnapshot, TypeOK
  <2>2. e \in Entries /\ e.by = r
    <3>1. D \subseteq Fields /\ [f \in D |-> draft.val[f]] \in [D -> Contents]
      BY <1>0 DEF Diff, TypeOK, Values
    <3> QED BY <3>1, EntryType
  <2>3. \A s \in Requests : pc'[s] = "accepted" <=> pc[s] = "accepted"
    BY <1>3 DEF Done
  <2> HIDE DEF e
  <2>4. VisibleEntries' = VisibleEntries /\ \A i \in VisibleEntries : history'[i] = history[i]
    <3>1. CASE history' = history
      BY <2>3, <3>1 DEF VisibleEntries, Visible
    <3>2. CASE history' = Append(history, e)
      BY <1>1, <2>1, <2>2, <2>3, <3>2, VisibleWithHidden
    <3> QED BY <2>1, <3>1, <3>2
  <2>5. LogInv'
    BY <1>0, <1>1, <1>3, <2>4, LogKept DEF SoleInv
  <2> QED BY <1>1, <1>3, <1>4, <1>6, <1>8, <2>5 DEF SoleInv, WrittenInv
<1> QED BY <1>9, <1>10

\* The commit of r shows at most one more entry: the last, which has all of its fields.
LEMMA EntryOfCommit ==
  ASSUME Attachments = {}, SoleInv, NEW r \in Requests, Commit(r)
  PROVE  /\ VisibleEntries \subseteq VisibleEntries'
         /\ VisibleEntries' \subseteq VisibleEntries \cup {Len(history)}
         /\ fields[r] # {} => /\ Len(history) \in VisibleEntries'
                              /\ fields[r] \subseteq DOMAIN history[Len(history)].new
<1>0. TypeOK /\ history \in Seq(Entries)
  BY DEF SoleInv, HistoryInv, VersionInv, TypeInv, TypeOK
<1>1. /\ pc[r] = "unlocked" /\ pc'[r] = "accepted" /\ history' = history
      /\ \A s \in Requests \ {r} : pc'[s] = pc[s]
  BY <1>0 DEF Commit, Goto, TypeOK
<1>2. OnlySaves
  BY DEF OnlySaves
<1>3. Pending(r)
  BY <1>1, <1>2 DEF SoleInv, HistoryInv, PendingInv
<1>4. \A i \in DOMAIN history : IF history[i].by = r THEN Visible(i)'
                                ELSE Visible(i)' <=> Visible(i)
  BY <1>1 DEF Visible
<1>5. \A i \in DOMAIN history : history[i].by = r => i = Len(history)
  BY <1>3 DEF Pending
<1>6. ASSUME NEW f \in fields[r]
      PROVE  history # <<>> /\ history[Len(history)].by = r /\ f \in DOMAIN history[Len(history)].new
  <2>1. f \in Fields
    BY <1>0 DEF TypeOK
  <2>2. draft.val[f] = r
    BY <1>1, <2>1 DEF SoleInv, FreshInv, Fresh, Working, Compared, Writing
  <2>3. row.val[f] # r
    BY <1>1, <2>1, RequestsAssumption DEF SoleInv, WrittenInv, Done
  <2> QED BY <1>3, <2>1, <2>2, <2>3 DEF Pending
<1>7. history # <<>> => Len(history) \in DOMAIN history
  BY <1>0
<1>8. fields[r] # {} => /\ Len(history) \in VisibleEntries'
                        /\ fields[r] \subseteq DOMAIN history[Len(history)].new
  BY <1>1, <1>4, <1>6, <1>7 DEF VisibleEntries
<1>9. VisibleEntries \subseteq VisibleEntries'
  BY <1>1, <1>4 DEF VisibleEntries
<1>10. VisibleEntries' \subseteq VisibleEntries \cup {Len(history)}
  BY <1>1, <1>4, <1>5 DEF VisibleEntries
<1> QED BY <1>8, <1>9, <1>10

LEMMA AtMostOneMore ==
  ASSUME NEW S, IsFiniteSet(S), NEW x, NEW T \in SUBSET (S \cup {x})
  PROVE  Cardinality(T) \in Nat /\ Cardinality(T) <= Cardinality(S) + 1
<1>1. PICK U : U = S \cup {x}
  OBVIOUS
<1>2. /\ IsFiniteSet(U)
      /\ Cardinality(U) = IF x \in S THEN Cardinality(S) ELSE Cardinality(S) + 1
  BY <1>1, FS_AddElement
<1>3. IsFiniteSet(T) /\ Cardinality(T) <= Cardinality(U)
  BY <1>1, <1>2, FS_Subset
<1>4. Cardinality(S) \in Nat /\ Cardinality(T) \in Nat /\ Cardinality(U) \in Nat
  BY <1>2, <1>3, FS_CardinalityType
<1> QED BY <1>2, <1>3, <1>4

LEMMA LogOfCommit ==
  ASSUME Attachments = {}, SoleInv, HistoryInv', NEW r \in Requests, Commit(r)
  PROVE  LogInv'
<1>0. TypeOK /\ TypeOK'
  BY DEF SoleInv, HistoryInv, VersionInv, TypeInv
<1>1. /\ history' = history /\ fields' = fields /\ Done' = Done \cup {r} /\ r \notin Done
      /\ \A s \in Done : saved'[s] = saved[s]
  BY <1>0 DEF Commit, Goto, handlerVars, TypeOK, Done
<1>2. row.version \in Nat /\ row'.version = row.version + 1 /\ saved'[r] = row.version + 1
  <2>1. draft.version = row.version + 1
    BY RequestsAssumption DEF Commit, SoleInv, HistoryInv, VersionInv, RowLockInv, Writing
  <2> QED BY <1>0, <2>1 DEF Commit, TypeOK
<1>n. PICK n : n = Len(history)
  OBVIOUS
<1>3. /\ VisibleEntries \subseteq VisibleEntries' /\ VisibleEntries' \subseteq VisibleEntries \cup {n}
      /\ fields[r] # {} => n \in VisibleEntries' /\ fields[r] \subseteq DOMAIN history[n].new
  BY <1>n, EntryOfCommit
<1>4. ASSUME NEW s \in Done, fields[s] # {}
      PROVE  \E i \in VisibleEntries' : /\ fields'[s] \subseteq DOMAIN history'[i].new
                                        /\ Cardinality(Newer(i)') <= row'.version - saved'[s]
  <2>1. PICK i \in VisibleEntries : /\ fields[s] \subseteq DOMAIN history[i].new
                                    /\ Cardinality(Newer(i)) <= row.version - saved[s]
    BY <1>4 DEF SoleInv, LogInv
  <2>2. Newer(i)' \subseteq Newer(i) \cup {n}
    BY <1>3 DEF Newer
  <2>3. IsFiniteSet(Newer(i)) /\ Cardinality(Newer(i)) \in Nat
    BY <1>0, NewerIsFinite
  <2>4. Cardinality(Newer(i)') \in Nat /\ Cardinality(Newer(i)') <= Cardinality(Newer(i)) + 1
    BY <2>2, <2>3, AtMostOneMore
  <2>6. saved[s] \in Nat
    BY <1>0 DEF TypeOK, Done
  <2>7. Cardinality(Newer(i)') <= row'.version - saved'[s]
    BY <1>1, <1>2, <2>1, <2>3, <2>4, <2>6
  <2> QED BY <1>1, <1>3, <2>1, <2>7
<1>5. ASSUME fields[r] # {}
      PROVE  /\ n \in VisibleEntries' /\ fields'[r] \subseteq DOMAIN history'[n].new
             /\ Cardinality(Newer(n)') <= row'.version - saved'[r]
  <2>1. n \in VisibleEntries' /\ fields[r] \subseteq DOMAIN history[n].new
    BY <1>3, <1>5
  <2>2. \A j \in DOMAIN history : ~ (j > n)
    BY <1>0, <1>n DEF TypeOK
  <2>3. Newer(n)' = {}
    BY <1>1, <2>2 DEF Newer, VisibleEntries
  <2>4. Cardinality(Newer(n)') = 0
    BY <2>3, FS_EmptySet
  <2> QED BY <1>1, <1>2, <2>1, <2>4
<1>6. saved'[r] >= 1
  BY <1>2
<1>7. \A s \in Done : saved'[s] >= 1
  BY <1>1 DEF SoleInv, LogInv
<1> QED BY <1>1, <1>4, <1>5, <1>6, <1>7 DEF LogInv

LEMMA SoleOfCommit ==
  ASSUME Attachments = {}, SoleInv, HistoryInv', NEW r \in Requests, Commit(r)
  PROVE  SoleInv'
<1> USE DEF Working, Compared, Writing
<1>0. TypeOK /\ TypeOK'
  BY DEF SoleInv, HistoryInv, VersionInv, TypeInv
<1>1. /\ pc[r] = "unlocked" /\ pc'[r] = "accepted"
      /\ \A s \in Requests \ {r} : pc'[s] = pc[s]
      /\ UNCHANGED <<seen, sent, obj, fields>> /\ row' = draft
  BY <1>0 DEF Commit, Goto, handlerVars, TypeOK
<1>2. \A s \in Requests : pc'[s] \notin Working
  BY <1>1 DEF SoleInv, AloneInv
<1>3. AloneInv' /\ FreshInv'
  BY <1>2 DEF AloneInv, FreshInv
<1>4. ClientInv'
  BY <1>1 DEF SoleInv, ClientInv
<1>5. WrittenInv'
  <2>1. Done' = Done \cup {r}
    BY <1>1 DEF Done
  <2>2. \A f \in Fields : draft.val[f] \in {r, row.val[f]}
    BY <1>1 DEF SoleInv, FreshInv, Fresh
  <2> QED BY <1>1, <2>1, <2>2 DEF SoleInv, WrittenInv
<1>6. LogInv'
  BY LogOfCommit
<1> QED BY <1>3, <1>4, <1>5, <1>6 DEF SoleInv

LEMMA SoleStep ==
  ASSUME Workers = 1, Attachments = {}
  PROVE  SoleInv /\ [Next]_vars => SoleInv'
<1> SUFFICES ASSUME SoleInv, [Next]_vars PROVE SoleInv'
  OBVIOUS
<1>1. HistoryInv'
  BY HistoryStep DEF SoleInv
<1>2. CASE UNCHANGED vars
  <2>1. UNCHANGED <<row, saved, history, fields, pc, seen, sent, obj, current, draft>>
    BY <1>2 DEF vars, handlerVars
  <2>2. Done' = Done
    BY <2>1 DEF Done
  <2>3. AloneInv' /\ ClientInv'
    BY <2>1 DEF SoleInv, AloneInv, ClientInv
  <2>4. FreshInv'
    BY <2>1, <2>2 DEF SoleInv, FreshInv, Fresh
  <2> QED BY <1>1, <2>1, <2>2, <2>3, <2>4, SoleKept
<1> QED BY <1>1, <1>2, SoleOfClient, SoleOfHandler, SoleOfCommit DEF Next, Handle, Finished

LEMMA SoleInit == Init => SoleInv
<1> SUFFICES ASSUME Init PROVE SoleInv
  OBVIOUS
<1>1. HistoryInv
  <2>1. /\ history = <<>> /\ row.val = [f \in Fields |-> Initial]
        /\ \A r \in Requests : pc[r] = "idle"
    BY DEF Init
  <2>2. DOMAIN history = {}
    BY <2>1
  <2>3. Rebuilt = row.val
    BY <2>1, <2>2 DEF Rebuilt, EntriesOf, VisibleEntries
  <2> QED BY <2>1, <2>2, <2>3, VersionInit DEF HistoryInv, EntriesInv, PendingInv
<1>2. \A r \in Requests : pc[r] = "idle" /\ obj[r] = Unread
  BY DEF Init
<1>3. AloneInv /\ ClientInv /\ FreshInv /\ LogInv
  BY <1>2 DEF AloneInv, ClientInv, FreshInv, LogInv, Done, Working, Compared, Writing
<1>4. WrittenInv
  BY DEF Init, WrittenInv
<1> QED BY <1>1, <1>3, <1>4 DEF SoleInv

-----------------------------------------------------------------------------
\* What MergedObject calls changed.
Changed == [f \in Fields |-> IF EditorsOf(f) = {} THEN 1 ELSE saved[LastEditor(f)]]

\* Among finitely many numbered elements one has the greatest number.
LEMMA GreatestChosen ==
  ASSUME NEW E, NEW num, NEW n \in Nat, \A e \in E : num[e] \in 1 .. n, E # {}
  PROVE  LET last == CHOOSE e \in E : \A d \in E : num[d] <= num[e]
         IN  last \in E /\ \A d \in E : num[d] <= num[last]
<1> DEFINE I == {num[e] : e \in E}
<1>1. I \in SUBSET (1 .. n) /\ I # {}
  OBVIOUS
<1> HIDE DEF I
<1>2. PICK i \in I : \A j \in I : j <= i
  BY <1>1, NewestExists
<1>3. \E e \in E : \A d \in E : num[d] <= num[e]
  BY <1>2 DEF I
<1> QED BY <1>3

\* The saves are numbered by their versions.
LEMMA SavedRange ==
  ASSUME SoleInv
  PROVE  row.version \in Nat /\ \A s \in Done : saved[s] \in 1 .. row.version
<1>1. TypeOK
  BY DEF SoleInv, HistoryInv, VersionInv, TypeInv
<1> QED BY <1>1 DEF TypeOK, SoleInv, LogInv, HistoryInv, VersionInv, SavedInv, Done

\* Nothing changes for the abstract object until a commit.
LEMMA ChangedKept ==
  ASSUME Done' = Done, \A s \in Done : fields'[s] = fields[s], saved' = saved
  PROVE  Changed' = Changed
<1>1. \A f : EditorsOf(f)' = EditorsOf(f)
  BY DEF EditorsOf
<1>2. \A f : LastEditor(f)' = LastEditor(f)
  BY <1>1 DEF LastEditor
<1> QED BY <1>1, <1>2 DEF Changed

\* A commit is an edit of the fields the client sent.
LEMMA CommitIsEdit ==
  ASSUME Attachments = {}, SoleInv, SoleInv', NEW r \in Requests, Commit(r)
  PROVE  Merging!Edit(r, fields[r])
<1>0. TypeOK /\ TypeOK'
  BY DEF SoleInv, HistoryInv, VersionInv, TypeInv
<1>1. /\ pc[r] = "unlocked" /\ pc'[r] = "accepted"
      /\ \A s \in Requests \ {r} : pc'[s] = pc[s]
      /\ fields' = fields /\ seen' = seen /\ row' = draft
      /\ \A s \in Requests \ {r} : saved'[s] = saved[s]
  BY <1>0 DEF Commit, Goto, handlerVars, TypeOK
<1>2. row.version \in Nat /\ row'.version = row.version + 1 /\ saved'[r] = row.version + 1
  <2>1. draft.version = row.version + 1
    BY RequestsAssumption DEF Commit, SoleInv, HistoryInv, VersionInv, RowLockInv, Writing
  <2> QED BY <1>0, <2>1 DEF Commit, TypeOK
<1>3. Fresh(r) /\ seen[r] >= 1 /\ seen[r] \in Nat
  BY <1>0, <1>1 DEF SoleInv, FreshInv, ClientInv, Working, Compared, Writing, TypeOK
<1>4. row'.val = [f \in Fields |-> IF f \in fields[r] THEN r ELSE row.val[f]]
  BY <1>1, <1>3 DEF Fresh, Writing
<1>5. Done' = Done \cup {r} /\ r \notin Done /\ Done \subseteq Requests
  BY <1>1 DEF Done
<1>6. ASSUME NEW f \in Fields, EditorsOf(f) # {}
      PROVE  LastEditor(f) \in EditorsOf(f) /\ \A s \in EditorsOf(f) : saved[s] <= saved[LastEditor(f)]
  <2>1. \A s \in EditorsOf(f) : saved[s] \in 1 .. row.version
    BY SavedRange DEF EditorsOf
  <2> QED BY <1>2, <1>6, <2>1, GreatestChosen DEF LastEditor
<1>7. ASSUME NEW f \in Fields, EditorsOf(f)' # {}
      PROVE  LastEditor(f)' \in EditorsOf(f)'
             /\ \A s \in EditorsOf(f)' : saved'[s] <= saved'[LastEditor(f)']
  <2>1. \A s \in EditorsOf(f)' : saved'[s] \in 1 .. row.version + 1
    <3>1. \A s \in Done : saved'[s] \in 1 .. row.version + 1
      BY <1>1, <1>2, <1>5, SavedRange
    <3> QED BY <1>2, <1>5, <3>1 DEF EditorsOf
  <2> QED BY <1>2, <1>7, <2>1, GreatestChosen DEF LastEditor
<1>8. \A f \in Fields : EditorsOf(f)' = IF f \in fields[r] THEN EditorsOf(f) \cup {r}
                                        ELSE EditorsOf(f)
  BY <1>1, <1>5 DEF EditorsOf
<1>9. \A f : EditorsOf(f) \subseteq Done
  BY DEF EditorsOf
<1>10. \A s \in Done : saved[s] \in 1 .. row.version /\ saved'[s] = saved[s]
  BY <1>1, <1>5, SavedRange
<1>11. ASSUME NEW f \in fields[r] PROVE Changed[f] <= seen[r] /\ Changed'[f] = row.version + 1
  <2>1. f \in Fields
    BY <1>0 DEF TypeOK
  <2>2. \A s \in EditorsOf(f) : saved[s] <= seen[r]
    BY <1>1, <1>3, <1>11 DEF Fresh, Writing, EditorsOf
  <2>3. Changed[f] <= seen[r]
    BY <1>3, <1>6, <2>1, <2>2 DEF Changed
  <2>4. r \in EditorsOf(f)'
    BY <1>8, <1>11, <2>1
  <2>5. LastEditor(f)' \in Done \cup {r} /\ saved'[r] <= saved'[LastEditor(f)']
    BY <1>7, <1>8, <1>9, <2>1, <2>4
  <2>6. saved'[LastEditor(f)'] = row.version + 1
    BY <1>2, <1>10, <2>5
  <2> QED BY <2>1, <2>3, <2>4, <2>6 DEF Changed
<1>12. ASSUME NEW f \in Fields \ fields[r] PROVE Changed'[f] = Changed[f]
  <2>1. EditorsOf(f)' = EditorsOf(f)
    BY <1>8
  <2>2. CASE EditorsOf(f) = {}
    BY <2>1, <2>2 DEF Changed
  <2>3. CASE EditorsOf(f) # {}
    <3>1. LastEditor(f) \in EditorsOf(f) /\ LastEditor(f)' \in EditorsOf(f)
      BY <1>6, <1>7, <2>1, <2>3
    <3>2. /\ saved'[LastEditor(f)'] = saved[LastEditor(f)']
          /\ saved'[LastEditor(f)] = saved[LastEditor(f)]
      BY <1>9, <1>10, <3>1
    <3>3. saved[LastEditor(f)'] <= saved[LastEditor(f)] /\ saved[LastEditor(f)] <= saved[LastEditor(f)']
      BY <1>6, <1>7, <2>1, <2>3, <3>1, <3>2
    <3>4. saved[LastEditor(f)] \in Int /\ saved[LastEditor(f)'] \in Int
      BY <1>9, <1>10, <3>1
    <3> QED BY <2>1, <2>3, <3>2, <3>3, <3>4 DEF Changed
  <2> QED BY <2>2, <2>3
<1>13. Changed' = [f \in Fields |-> IF f \in fields[r] THEN row.version + 1 ELSE Changed[f]]
  <2>1. Changed' = [f \in Fields |-> Changed'[f]]
    BY DEF Changed
  <2> QED BY <1>11, <1>12, <2>1
<1>14. seen[r] > 0 /\ \A f \in fields[r] : Changed[f] <= seen[r]
  BY <1>3, <1>11
<1> QED BY <1>1, <1>2, <1>4, <1>13, <1>14 DEF Merging!Edit, Changed

LEMMA MergingStep ==
  ASSUME Workers = 1, Attachments = {}
  PROVE  SoleInv /\ SoleInv' /\ [Next]_vars => [Merging!Next]_(Merging!mergedVars)
<1> SUFFICES ASSUME SoleInv, SoleInv', [Next]_vars PROVE [Merging!Next]_(Merging!mergedVars)
  OBVIOUS
<1>0. TypeOK
  BY DEF SoleInv, HistoryInv, VersionInv, TypeInv
<1>1. ASSUME NEW r \in Requests, Commit(r) PROVE Merging!Next
  <2>1. fields[r] \in SUBSET Fields
    BY <1>0 DEF TypeOK
  <2> QED BY <1>1, <2>1, CommitIsEdit DEF Merging!Next
<1>2. ASSUME NEW r \in Requests, Open(r) PROVE Merging!Next
  <2>1. Done' = Done /\ UNCHANGED <<fields, saved, row>>
    BY <1>0, <1>2 DEF Open, Goto, TypeOK, Done
  <2>2. Changed' = Changed
    BY <2>1, ChangedKept
  <2>3. Merging!Show(r)
    BY <1>2, <2>1, <2>2 DEF Open, Merging!Show, Changed
  <2> QED BY <2>3 DEF Merging!Next
<1>3. ASSUME NEW r \in Requests,
             \/ Send(r) \/ Start(r) \/ Load(r) \/ Lock(r) \/ ReadVersion(r) \/ Validate(r)
             \/ Save(r) \/ TakeSnapshot(r) \/ Unlock(r)
      PROVE  UNCHANGED Merging!mergedVars
  <2>1. UNCHANGED <<row, saved, seen>>
    BY <1>3 DEF Send, Start, Load, Lock, ReadVersion, Validate, Save, TakeSnapshot, Unlock,
       handlerVars
  <2>2. Done' = Done
    BY <1>0, <1>3 DEF Send, Start, Load, Lock, ReadVersion, Validate, Save, TakeSnapshot, Unlock,
       Goto, TypeOK, Done
  <2>3. \A s \in Done : fields'[s] = fields[s]
    BY <1>0, <1>3 DEF Send, Start, Load, Lock, ReadVersion, Validate, Save, TakeSnapshot, Unlock,
       handlerVars, TypeOK, Done
  <2>4. Changed' = Changed
    BY <2>1, <2>2, <2>3, ChangedKept
  <2> QED BY <2>1, <2>4 DEF Merging!mergedVars, Changed
<1>4. CASE UNCHANGED vars
  <2>1. UNCHANGED <<row, saved, seen, fields>> /\ Done' = Done
    BY <1>4 DEF vars, handlerVars, Done
  <2>2. Changed' = Changed
    BY <2>1, ChangedKept
  <2> QED BY <2>1, <2>2 DEF Merging!mergedVars, Changed
<1> QED BY <1>1, <1>2, <1>3, <1>4 DEF Next, Handle, Finished

\* With one server process and no related changes the handlers implement the object merged field by
\* field, loading early or late, for any requests and fields: what OCCResourceMixin promises.
THEOREM MergesFieldByField ==
  ASSUME Workers = 1, Attachments = {}
  PROVE  Spec => ImplementsMergedObject
<1>1. Init => Merging!Init
  <2> SUFFICES ASSUME Init PROVE Merging!Init
    OBVIOUS
  <2>1. \A f : EditorsOf(f) = {}
    BY DEF Init, EditorsOf, Done
  <2> QED BY <2>1 DEF Init, Merging!Init
<1>2. SoleInv /\ [Next]_vars => SoleInv'
  BY SoleStep
<1>3. SoleInv /\ SoleInv' /\ [Next]_vars => [Merging!Next]_(Merging!mergedVars)
  BY MergingStep
<1> QED BY <1>1, <1>2, <1>3, SoleInit, PTL DEF Spec, ImplementsMergedObject, Merging!Spec
=============================================================================

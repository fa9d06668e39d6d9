--------------------------- MODULE OptimisticLocking ---------------------------
(***************************************************************************)
(* Concurrent edition of one versioned object (a wiki page, user story,    *)
(* task, issue or epic) through the REST API: the update handler of        *)
(* UpdateModelMixin with the OCCResourceMixin and HistoryResourceMixin     *)
(* hooks, run by several server processes over one PostgreSQL row.         *)
(*                                                                         *)
(* A handler runs one statement at a time and sees, as PostgreSQL's READ   *)
(* COMMITTED level gives it, the last committed row and history at each    *)
(* statement.  Its advisory lock (model_pk_lock) lies INSIDE tx.atomic, so *)
(* it is released before the transaction commits; the row lock taken by    *)
(* the UPDATE is kept until the commit.                                    *)
(***************************************************************************)
EXTENDS Integers, FiniteSets, Sequences

CONSTANTS
  Requests,     \* edits; each is opened, sent and answered once
  Attachments,  \* changes of related objects (attachments, custom values)
  Fields,       \* the editable fields of the object
  Related,      \* the history key under which a related change is recorded
  Initial,      \* the content every field has when the object is created
  NoOne,        \* "nobody": no lock holder, no writer
  Unread,       \* the object has not been loaded yet
  Workers,      \* server processes (gunicorn --workers)
  EarlyLoad     \* TRUE: update() loads the object before lock and transaction

ASSUME RequestsAssumption ==
  /\ IsFiniteSet(Requests) /\ IsFiniteSet(Attachments)
  /\ Requests \cap Attachments = {}
  /\ NoOne \notin Requests \cup Attachments
  /\ Initial \notin Requests

ASSUME FieldsAssumption == Related \notin Fields

ASSUME WorkersAssumption == Workers \in Nat \ {0}

ASSUME EarlyLoadAssumption == EarlyLoad \in BOOLEAN

Contents == Requests \cup {Initial}   \* a field's content: who wrote it last

Values == [Fields -> Contents]

ASSUME UnreadAssumption == Unread \notin Values

NoVersion == -1   \* stands for a missing or negative version parameter

VARIABLES
  row,      \* the committed row: version and field contents
  draft,    \* the uncommitted row of the transaction holding the row lock
  writer,   \* the request holding the row lock
  lock,     \* the request holding the advisory lock of the object
  history,  \* history entries ordered by created_at
  pc,       \* where each request is
  seen,     \* the version the client had on screen
  sent,     \* the version parameter the client sent
  fields,   \* the fields the client sent
  obj,      \* the object the handler loaded
  current,  \* the version the handler read
  saved,    \* the version an accepted request produced
  frozen    \* the object a related change froze for its history entry

handlerVars == <<seen, sent, fields>>
vars == <<row, draft, writer, lock, history, pc, handlerVars, obj, current,
          saved, frozen>>

-----------------------------------------------------------------------------
(* History.                                                                *)

Done == {r \in Requests : pc[r] = "accepted"}

\* An entry is visible to the others once its transaction has committed.
Visible(i) == history[i].by \in Requests => pc[history[i].by] = "accepted"

VisibleEntries == {i \in DOMAIN history : Visible(i)}

\* The newest n visible entries.
LastEntries(n) ==
  {i \in VisibleEntries : Cardinality({j \in VisibleEntries : j > i}) < n}

ModifiedFields(n) == UNION {DOMAIN history[i].new : i \in LastEntries(n)}

\* What the visible history says the object looks like: the newest value
\* recorded for each field.
EntriesOf(f) == {i \in VisibleEntries : f \in DOMAIN history[i].new}

Newest(I) == CHOOSE i \in I : \A j \in I : j <= i

Rebuilt ==
  [f \in Fields |-> IF EntriesOf(f) = {} THEN Initial
                    ELSE history[Newest(EntriesOf(f))].new[f]]

\* The fields in which v differs from the snapshot the history gives.
Diff(v) == {f \in Fields : v[f] # Rebuilt[f]}

-----------------------------------------------------------------------------
(* The checks of the version parameter.                                    *)

ValidVersion(v, cur) == v >= 0 /\ v <= cur

BothModified(r) ==
  IF sent[r] = current[r] THEN {}
  ELSE fields[r] \cap ModifiedFields(current[r] - sent[r])

Accepts_NoFieldCheck(r) == ValidVersion(sent[r], current[r])

Accepts(r) == ValidVersion(sent[r], current[r]) /\ BothModified(r) = {}

\* validator.save on the object loaded earlier: the fields sent replace the
\* loaded ones and every column is written.
Merged(r) == [f \in Fields |-> IF f \in fields[r] THEN r ELSE obj[r][f]]

-----------------------------------------------------------------------------
Init ==
  /\ row = [version |-> 1, val |-> [f \in Fields |-> Initial]]
  /\ draft = row
  /\ writer = NoOne
  /\ lock = NoOne
  /\ history = <<>>
  /\ pc = [r \in Requests |-> "idle"]
  /\ seen = [r \in Requests |-> 0]
  /\ sent = [r \in Requests |-> 0]
  /\ fields = [r \in Requests |-> {}]
  /\ obj = [r \in Requests |-> Unread]
  /\ current = [r \in Requests |-> 0]
  /\ saved = [r \in Requests |-> 0]
  /\ frozen = [a \in Attachments |-> Unread]

Goto(r, l) == pc' = [pc EXCEPT ![r] = l]

(* The definitions named <Definition>_<Mistake> are mutants: what the next    *)
(* definition would be with a plausible mistake.  Nothing else uses them.    *)

\* The client shows the object: GET.
Open(r) ==
  /\ pc[r] = "idle"
  /\ seen' = [seen EXCEPT ![r] = row.version]
  /\ Goto(r, "editing")
  /\ UNCHANGED <<row, draft, writer, lock, history, sent, fields, obj, current,
                 saved, frozen>>

\* The client sends the changed fields with the version it has seen, or
\* without a usable version.
Send(r) ==
  /\ pc[r] = "editing"
  /\ \E F \in SUBSET Fields, v \in {seen[r], NoVersion} :
       /\ fields' = [fields EXCEPT ![r] = F]
       /\ sent' = [sent EXCEPT ![r] = v]
  /\ Goto(r, "sent")
  /\ UNCHANGED <<row, draft, writer, lock, history, seen, obj, current, saved,
                 frozen>>

Answered == {"accepted", "refused"}

Recorded(a) == \E i \in DOMAIN history : history[i].by = a

\* What the server processes are working on.
Busy == {r \in Requests : pc[r] \notin {"idle", "editing", "sent"} \cup Answered}
        \cup {a \in Attachments : frozen[a] # Unread /\ ~ Recorded(a)}

ProcessFree == Cardinality(Busy) < Workers

\* A free server process takes the request.
Start(r) ==
  /\ pc[r] = "sent"
  /\ ProcessFree
  /\ Goto(r, "started")
  /\ UNCHANGED <<row, draft, writer, lock, history, handlerVars, obj, current,
                 saved, frozen>>

\* get_object_or_none: before the lock in the overridden update() of stories,
\* tasks, issues and epics, after it in UpdateModelMixin.update (wiki).
Load(r) ==
  /\ pc[r] = (IF EarlyLoad THEN "started" ELSE "locked")
  /\ obj[r] = Unread
  /\ obj' = [obj EXCEPT ![r] = row.val]
  /\ UNCHANGED <<row, draft, writer, lock, history, pc, handlerVars, current,
                 saved, frozen>>

\* model_pk_lock takes the advisory lock of the object.
Lock(r) ==
  /\ pc[r] = "started"
  /\ EarlyLoad => obj[r] # Unread
  /\ lock = NoOne
  /\ lock' = r
  /\ Goto(r, "locked")
  /\ UNCHANGED <<row, draft, writer, history, handlerVars, obj, current, saved,
                 frozen>>

ReadVersion_Skipped(r) ==
  /\ pc[r] = "locked"
  /\ obj[r] # Unread
  /\ current' = [current EXCEPT ![r] = NoVersion]
  /\ Goto(r, "versioned")
  /\ UNCHANGED <<row, draft, writer, lock, history, handlerVars, obj, saved,
                 frozen>>

\* pre_save: reads the current version with a query of its own.
ReadVersion(r) ==
  /\ pc[r] = "locked"
  /\ obj[r] # Unread
  /\ current' = [current EXCEPT ![r] = row.version]
  /\ Goto(r, "versioned")
  /\ UNCHANGED <<row, draft, writer, lock, history, handlerVars, obj, saved,
                 frozen>>

Validate_KeepLock(r) ==
  /\ pc[r] = "versioned"
  /\ Goto(r, IF Accepts(r) THEN "valid" ELSE "refused")
  /\ UNCHANGED <<row, draft, writer, lock, history, handlerVars, obj, current,
                 saved, frozen>>

\* pre_save: compares with the history of the versions the client missed.
Validate(r) ==
  /\ pc[r] = "versioned"
  /\ \/ /\ Accepts(r)
        /\ Goto(r, "valid")
        /\ UNCHANGED lock
     \/ /\ ~ Accepts(r)
        /\ Goto(r, "refused")
        /\ lock' = NoOne
  /\ UNCHANGED <<row, draft, writer, history, handlerVars, obj, current, saved,
                 frozen>>

Save_IncrementInPython(r) ==
  /\ pc[r] = "valid"
  /\ writer = NoOne
  /\ writer' = r
  /\ draft' = [version |-> current[r] + 1, val |-> Merged(r)]
  /\ Goto(r, "saved")
  /\ UNCHANGED <<row, lock, history, handlerVars, obj, current, saved, frozen>>

\* validator.save: UPDATE of every column, version = version + 1 computed by
\* the database; waits for the row lock of an uncommitted UPDATE.
Save(r) ==
  /\ pc[r] = "valid"
  /\ writer = NoOne
  /\ writer' = r
  /\ draft' = [version |-> row.version + 1, val |-> Merged(r)]
  /\ Goto(r, "saved")
  /\ UNCHANGED <<row, lock, history, handlerVars, obj, current, saved, frozen>>

TakeSnapshot_OnlySentFields(r) ==
  /\ pc[r] = "saved"
  /\ LET D == Diff(draft.val) \cap fields[r]
     IN history' = IF D = {} THEN history
                   ELSE Append(history, [by |-> r, new |-> [f \in D |-> draft.val[f]]])
  /\ Goto(r, "snapshotted")
  /\ UNCHANGED <<row, draft, writer, lock, handlerVars, obj, current, saved,
                 frozen>>

\* post_save: take_snapshot records what differs from the last snapshot, and
\* nothing when there is no difference.
TakeSnapshot(r) ==
  /\ pc[r] = "saved"
  /\ LET D == Diff(draft.val)
     IN history' = IF D = {} THEN history
                   ELSE Append(history, [by |-> r, new |-> [f \in D |-> draft.val[f]]])
  /\ Goto(r, "snapshotted")
  /\ UNCHANGED <<row, draft, writer, lock, handlerVars, obj, current, saved,
                 frozen>>

\* The advisory lock is released when the decorated method returns ...
Unlock(r) ==
  /\ pc[r] = "snapshotted"
  /\ lock' = NoOne
  /\ Goto(r, "unlocked")
  /\ UNCHANGED <<row, draft, writer, history, handlerVars, obj, current, saved,
                 frozen>>

\* ... and only then does tx.atomic commit.
Commit(r) ==
  /\ pc[r] = "unlocked"
  /\ row' = draft
  /\ writer' = NoOne
  /\ saved' = [saved EXCEPT ![r] = draft.version]
  /\ Goto(r, "accepted")
  /\ UNCHANGED <<draft, lock, history, handlerVars, obj, current, frozen>>

-----------------------------------------------------------------------------
(* Changes of related objects: they are recorded in the history of the     *)
(* object, without a new version of it.                                    *)

\* A free server process takes the change and loads its content_object ...
LoadContentObject(a) ==
  /\ frozen[a] = Unread
  /\ ProcessFree
  /\ frozen' = [frozen EXCEPT ![a] = row.val]
  /\ UNCHANGED <<row, draft, writer, lock, history, pc, handlerVars, obj,
                 current, saved>>

\* ... and records it, with whatever differs from the last snapshot.
RecordRelated(a) ==
  /\ frozen[a] # Unread
  /\ ~ Recorded(a)
  /\ LET D == Diff(frozen[a]) \cup {Related}
     IN history' = Append(history,
          [by |-> a,
           new |-> [f \in D |-> IF f = Related THEN Initial ELSE frozen[a][f]]])
  /\ UNCHANGED <<row, draft, writer, lock, pc, handlerVars, obj, current, saved,
                 frozen>>

-----------------------------------------------------------------------------
Handle(r) ==
  \/ Start(r) \/ Load(r) \/ Lock(r) \/ ReadVersion(r) \/ Validate(r)
  \/ Save(r) \/ TakeSnapshot(r) \/ Unlock(r) \/ Commit(r)

Finished ==
  /\ \A r \in Requests : pc[r] \in Answered
  /\ \A a \in Attachments : Recorded(a)
  /\ UNCHANGED vars

Next ==
  \/ \E r \in Requests : Open(r) \/ Send(r) \/ Handle(r)
  \/ \E a \in Attachments : LoadContentObject(a) \/ RecordRelated(a)
  \/ Finished

Spec == Init /\ [][Next]_vars

\* A server process that has taken a request goes on with it, and PostgreSQL
\* grants a lock that stays free: every step of a handler is weakly fair.
FairSpec ==
  /\ Spec
  /\ \A r \in Requests : WF_vars(Handle(r))
  /\ \A a \in Attachments : WF_vars(RecordRelated(a))

-----------------------------------------------------------------------------
(* Properties.                                                             *)

Entries == [by : Requests \cup Attachments,
            new : UNION {[D -> Contents] : D \in SUBSET (Fields \cup {Related})}]

Locations == {"idle", "editing", "sent", "started", "locked", "versioned", "valid",
              "saved", "snapshotted", "unlocked"} \cup Answered

\* Every variable has the type the code gives it.
TypeOK ==
  /\ row \in [version : Nat, val : Values]
  /\ draft \in [version : Nat, val : Values]
  /\ writer \in Requests \cup {NoOne}
  /\ lock \in Requests \cup {NoOne}
  /\ history \in Seq(Entries)
  /\ pc \in [Requests -> Locations]
  /\ seen \in [Requests -> Nat]
  /\ sent \in [Requests -> Nat \cup {NoVersion}]
  /\ fields \in [Requests -> SUBSET Fields]
  /\ obj \in [Requests -> Values \cup {Unread}]
  /\ current \in [Requests -> Nat]
  /\ saved \in [Requests -> Nat]
  /\ frozen \in [Attachments -> Values \cup {Unread}]

\* The version counts the accepted saves: no interleaving of handlers loses an
\* increment or gives two of them the same version (version = F('version') + 1).
VersionCountsSaves ==
  /\ row.version = 1 + Cardinality(Done)
  /\ \A r, s \in Done : saved[r] = saved[s] => r = s

\* The history tells the truth: the snapshot rebuilt from its visible entries is
\* the committed row, also after a save that put stale fields back, until the entry of a related
\* object brings in what that object's request had loaded.
HistoryMatchesRow == (\A a \in Attachments : ~ Recorded(a)) => Rebuilt = row.val

\* A save is refused when somebody else saved one of its fields after the
\* version on which it is based.
ConflictRefused ==
  \A r, s \in Done :
    sent[r] < saved[s] /\ saved[s] < saved[r] => fields[r] \cap fields[s] = {}

EditorsOf(f) == {r \in Done : f \in fields[r]}

LastEditor(f) ==
  CHOOSE r \in EditorsOf(f) : \A s \in EditorsOf(f) : saved[s] <= saved[r]

\* Every save the client sends is answered: the advisory lock, the row lock and
\* the server processes are always given back.
SavesAnswered == \A r \in Requests : pc[r] = "sent" ~> pc[r] \in Answered

\* The object with its handlers implements the object merged field by field.
Merging == INSTANCE MergedObject WITH
  Editors <- Requests,
  version <- row.version,
  val <- row.val,
  changed <- [f \in Fields |-> IF EditorsOf(f) = {} THEN 1 ELSE saved[LastEditor(f)]],
  shown <- seen

\* With one server process and no related changes, the handlers implement
\* MergedObject: conflicting saves are refused and the others merge.
ImplementsMergedObject == Merging!Spec
=============================================================================

----------------------------- MODULE Notifications -----------------------------
(***************************************************************************)
(* The mails about the changes of one object.  A change leaves its history *)
(* entry in the pending notification of its author; a periodic batch sums  *)
(* up and mails the notifications that have rested for an interval, and    *)
(* deletes them.  Changes and batches are transactions that lock the rows  *)
(* of the notifications.                                                   *)
(*                                                                         *)
(* The object has one field.  Its row is locked from the save of a change  *)
(* to the commit, so that one change is under way at a time.  One of its   *)
(* watchers is followed: the others get mails of their own.                *)
(***************************************************************************)
EXTENDS Integers, FiniteSets, SequencesExt

CONSTANTS
  Authors,
  Values,           \* of the field
  Missed,           \* no value: the mail that gave it failed
  Day, Interval,    \* length of a day and of CHANGE_NOTIFICATIONS_MIN_INTERVAL
  PageSize,         \* rows the batch reads at a time (100)
  MaxChanges,       \* bound: changes
  MaxInterruptions  \* bound: batches that end in a crash or an error

VARIABLES
  value,         \* of the field, committed
  pending,       \* author -> the committed notification: row number, entries and the time since
                 \* the last of them as timedelta.seconds gives it, without the days
  change,        \* the change under way
  changes,       \* changes so far
  batch,         \* the batch that holds the advisory lock: number of pages, current page, rows
                 \* of it still to do, author of the row locked, lines of its mail once sent
  told,          \* the value of the field after the lines the watcher has got, in order, or Missed
  mailed,        \* entry with a comment -> mails it was in
  lost,          \* entries with a comment that were in a mail that failed
  interruptions,
  mixed          \* history: two authors' notifications, or a comment with a change after a
                 \* change without one in a notification, were pending at a time

vars == <<value, pending, change, changes, batch, told, mailed, lost, interruptions, mixed>>

Entries == [id : 1 .. MaxChanges, from : Values, to : Values, comment : BOOLEAN]
NoRow == [row |-> 0, entries |-> <<>>, age |-> 0]
NoChange == [step |-> "none"]
NoBatch == [step |-> "none"]

TypeOK ==
  /\ value \in Values /\ told \in Values \cup {Missed}
  /\ \A a \in Authors :
       /\ pending[a].row \in 0 .. MaxChanges /\ pending[a].age \in 0 .. Day - 1
       /\ pending[a].entries \in Seq(Entries)
       /\ pending[a].row = 0 <=> pending[a] = NoRow
  /\ change = NoChange \/ change \in [step : {"saved", "noted"}, author : Authors, entry : Entries,
                                      row : 0 .. MaxChanges, age : 0 .. Day - 1]
  /\ batch # NoBatch => batch.step \in {"listed", "locked", "sent"}
  /\ DOMAIN mailed \subseteq 1 .. MaxChanges /\ lost \subseteq DOMAIN mailed

Init ==
  /\ value \in Values
  /\ pending = [a \in Authors |-> NoRow]
  /\ change = NoChange
  /\ changes = 0
  /\ batch = NoBatch
  /\ told = value
  /\ mailed = [i \in {} |-> 0] /\ lost = {}
  /\ interruptions = 0
  /\ mixed = FALSE

-----------------------------------------------------------------------------
Locked(a) == batch.step \in {"locked", "sent"} /\ batch.author = a

\* A field change without a comment.
Plain(entry) == ~ entry.comment /\ entry.from # entry.to

\* squash_history_entries yields the entries with a comment as they are...
Comments(entries) == {entries[i].id : i \in {j \in DOMAIN entries : entries[j].comment}}

\* ... then one line for all the other changes of the field, unless they lead back: the last thing
\* the lines say about the field to a reader who has been told `before`.
Squash(entries, before) ==
  LET plain == {i \in DOMAIN entries : Plain(entries[i])}
      commented == {i \in DOMAIN entries : entries[i].comment /\ entries[i].from # entries[i].to}
  IN IF plain # {} /\ entries[Min(plain)].from # entries[Max(plain)].to THEN entries[Max(plain)].to
     ELSE IF commented # {} THEN entries[Max(commented)].to ELSE before

\* Time passes.
Tick ==
  /\ pending' = [a \in Authors |-> IF pending[a] = NoRow THEN NoRow
                                   ELSE [pending[a] EXCEPT !.age = (@ + 1) % Day]]
  /\ change' = IF change.step = "noted" THEN [change EXCEPT !.age = (@ + 1) % Day] ELSE change
  /\ UNCHANGED <<value, changes, batch, told, mailed, lost, interruptions, mixed>>

\* A change is saved, with a comment, a new value of the field or both.
Save(a, to, comment) ==
  /\ change = NoChange
  /\ changes < MaxChanges
  /\ comment \/ to # value
  /\ changes' = changes + 1
  /\ change' = [step |-> "saved", author |-> a, row |-> 0, age |-> 0,
                entry |-> [id |-> changes', from |-> value, to |-> to, comment |-> comment]]
  /\ UNCHANGED <<value, pending, batch, told, mailed, lost, interruptions, mixed>>

\* send_notifications: the author's notification, made or locked, which waits for a batch that
\* has locked it and finds it deleted then; its time is the present.
Note_NoLock(a) ==
  /\ change.step = "saved" /\ change.author = a
  /\ change' = [change EXCEPT !.step = "noted", !.age = 0,
                  !.row = IF pending[a] = NoRow THEN change.entry.id ELSE pending[a].row]
  /\ UNCHANGED <<value, pending, changes, batch, told, mailed, lost, interruptions, mixed>>

Note(a) ==
  /\ change.step = "saved" /\ change.author = a
  /\ ~ Locked(a)
  /\ change' = [change EXCEPT !.step = "noted", !.age = 0,
                  !.row = IF pending[a] = NoRow THEN change.entry.id ELSE pending[a].row]
  /\ UNCHANGED <<value, pending, changes, batch, told, mailed, lost, interruptions, mixed>>

Commit(a) ==
  LET entry == change.entry
      entries == Append(pending[a].entries, entry)
  IN
  /\ change.step = "noted" /\ change.author = a
  /\ change' = NoChange
  /\ value' = entry.to
  /\ pending' = [pending EXCEPT ![a] = [row |-> change.row, entries |-> entries, age |-> change.age]]
  /\ mailed' = IF entry.comment THEN [i \in DOMAIN mailed \cup {entry.id} |->
                                        IF i = entry.id THEN 0 ELSE mailed[i]]
               ELSE mailed
  /\ mixed' = (\/ mixed \/ \E b \in Authors \ {a} : pending[b] # NoRow
               \/ entry.comment /\ entry.from # entry.to /\ \E i \in DOMAIN entries : Plain(entries[i]))
  /\ UNCHANGED <<changes, batch, told, lost, interruptions>>

-----------------------------------------------------------------------------
(* The batch.                                                              *)

Rows == {pending[a].row : a \in {b \in Authors : pending[b] # NoRow}}

\* A page of the rows there are now, the newest first.
Page(n) ==
  LET rows == SetToSortSeq(Rows, >)
      first == (n - 1) * PageSize + 1
  IN SubSeq(rows, first, IF first + PageSize > Len(rows) + 1 THEN Len(rows) ELSE first + PageSize - 1)

\* The advisory lock is free; the pages are counted once.
StartBatch ==
  /\ batch = NoBatch
  /\ Rows # {}
  /\ batch' = [step |-> "listed", pages |-> (Cardinality(Rows) + PageSize - 1) \div PageSize,
               page |-> 1, todo |-> Page(1)]
  /\ UNCHANGED <<value, pending, change, changes, told, mailed, lost, interruptions, mixed>>

Listed(b, todo) == [step |-> "listed", pages |-> b.pages, page |-> b.page, todo |-> todo]

NextPage ==
  /\ batch.step = "listed" /\ batch.todo = <<>>
  /\ batch' = IF batch.page >= batch.pages THEN NoBatch
              ELSE [batch EXCEPT !.page = @ + 1, !.todo = Page(batch.page + 1)]
  /\ UNCHANGED <<value, pending, change, changes, told, mailed, lost, interruptions, mixed>>

\* send_sync_notifications locks the row, which waits for a change that has.  It may be gone.
LockRow ==
  LET owners == {a \in Authors : pending[a] # NoRow /\ pending[a].row = Head(batch.todo)} IN
  /\ batch.step = "listed" /\ batch.todo # <<>>
  /\ \A a \in owners : ~ (change.step = "noted" /\ change.author = a)
  /\ batch' = IF owners = {} THEN [batch EXCEPT !.todo = Tail(@)]
              ELSE [step |-> "locked", pages |-> batch.pages, page |-> batch.page,
                    todo |-> Tail(batch.todo), author |-> CHOOSE a \in owners : TRUE]
  /\ UNCHANGED <<value, pending, change, changes, told, mailed, lost, interruptions, mixed>>

\* Changed too recently.
PutOff ==
  /\ batch.step = "locked"
  /\ pending[batch.author].age < Interval
  /\ batch' = Listed(batch, batch.todo)
  /\ UNCHANGED <<value, pending, change, changes, told, mailed, lost, interruptions, mixed>>

\* The mail to the watcher with the lines, if there are any...
Send ==
  LET entries == pending[batch.author].entries IN
  /\ batch.step = "locked"
  /\ pending[batch.author].age >= Interval
  /\ told' = Squash(entries, told)
  /\ mailed' = [i \in DOMAIN mailed |-> IF i \in Comments(entries) THEN mailed[i] + 1 ELSE mailed[i]]
  /\ batch' = [batch EXCEPT !.step = "sent"]
  /\ UNCHANGED <<value, pending, change, changes, lost, interruptions, mixed>>

\* ... whose failure is logged, and the notification deleted all the same.
SendFails ==
  LET entries == pending[batch.author].entries IN
  /\ batch.step = "locked"
  /\ pending[batch.author].age >= Interval
  /\ told' = IF Squash(entries, Missed) = Missed THEN told ELSE Missed
  /\ lost' = lost \cup Comments(entries)
  /\ batch' = [batch EXCEPT !.step = "sent"]
  /\ UNCHANGED <<value, pending, change, changes, mailed, interruptions, mixed>>

\* The notification is deleted and the transaction commits.
Finish_KeepsRow ==
  /\ batch.step = "sent"
  /\ batch' = Listed(batch, batch.todo)
  /\ UNCHANGED <<value, pending, change, changes, told, mailed, lost, interruptions, mixed>>

Finish ==
  /\ batch.step = "sent"
  /\ pending' = [pending EXCEPT ![batch.author] = NoRow]
  /\ batch' = Listed(batch, batch.todo)
  /\ UNCHANGED <<value, change, changes, told, mailed, lost, interruptions, mixed>>

\* The process dies, or the lines of one notification raise an exception: what was done to that
\* notification is rolled back and the batch is over.
Interrupt ==
  /\ batch # NoBatch
  /\ interruptions < MaxInterruptions
  /\ interruptions' = interruptions + 1
  /\ batch' = NoBatch
  /\ UNCHANGED <<value, pending, change, changes, told, mailed, lost, mixed>>

Next ==
  \/ Tick
  \/ \E a \in Authors : Note(a) \/ Commit(a) \/ \E to \in Values, comment \in BOOLEAN : Save(a, to, comment)
  \/ StartBatch \/ NextPage \/ LockRow \/ PutOff \/ Send \/ SendFails \/ Finish \/ Interrupt

Spec == Init /\ [][Next]_vars

-----------------------------------------------------------------------------
\* When nothing is pending the last line the watcher has got about the field gives its value, or
\* the mail with that line failed: changes that lead back are not mailed and changes come in while
\* a notification is being mailed, and the next mail that arrives makes up for one that failed.
\* Unless two authors' notifications were pending together, which are mailed in another order
\* than the changes; a notification lists a change with a comment before an earlier one; or a
\* batch was interrupted, and the change mailed before is summed up again.
WatchersKnow ==
  (/\ \A a \in Authors : pending[a] = NoRow
   /\ change = NoChange /\ ~ mixed /\ interruptions = 0) => told \in {value, Missed}

\* Every comment is waiting for its mail, was mailed or was in a mail that failed, which is not
\* tried again; it is mailed again only after an interruption.
CommentsAreMailed ==
  \A i \in DOMAIN mailed :
    /\ \/ mailed[i] > 0 \/ i \in lost
       \/ \E a \in Authors : \E e \in ToSet(pending[a].entries) : e.id = i
    /\ mailed[i] <= 1 + interruptions

=============================================================================

--------------------------------- MODULE Votes ---------------------------------
(***************************************************************************)
(* The votes of one object and their counter, upvoted and downvoted by     *)
(* requests on several server processes.  Each request is a transaction    *)
(* (READ COMMITTED) and takes an advisory lock, which it gives back before *)
(* the transaction commits and, to remove a vote, before it has changed    *)
(* anything.  A vote is named by the request that inserted it.             *)
(***************************************************************************)
EXTENDS Integers, FiniteSets

CONSTANTS Users, Requests, NoVote

ASSUME VotesAssumption == IsFiniteSet(Users) /\ NoVote \notin Requests

VARIABLES
  votes,      \* user -> the committed vote
  count,      \* Votes.count, committed
  requests,   \* kind, user and progress of each request; row is the vote it inserted or deletes
  lock,       \* the request that holds the advisory lock, NoVote when free
  counter,    \* the request whose transaction has locked the row of the counter
  missed,     \* history: removals committed that found nothing to delete
  twice       \* history: two removals of one user ran at a time

vars == <<votes, count, requests, lock, counter, missed, twice>>

Steps == {"idle", "started", "locked", "voted", "counted", "found", "unlocked", "selected",
          "deleted", "finished", "done", "failed"}

RequestRecords == [kind : {"add", "remove"}, user : Users, step : Steps,
                   row : Requests \cup {NoVote}]

TypeOK ==
  /\ votes \in [Users -> Requests \cup {NoVote}]
  /\ count \in Nat
  /\ requests \in [Requests -> RequestRecords]
  /\ lock \in Requests \cup {NoVote}
  /\ counter \in Requests \cup {NoVote}
  /\ missed \in Nat
  /\ twice \in BOOLEAN

\* What a request will do is settled when it comes in.
Init ==
  /\ votes = [u \in Users |-> NoVote]
  /\ count = 0
  /\ requests \in [Requests -> [kind : {"add", "remove"}, user : Users, step : {"idle"},
                                row : {NoVote}]]
  /\ lock = NoVote
  /\ counter = NoVote
  /\ missed = 0
  /\ twice = FALSE

-----------------------------------------------------------------------------
Voters == {u \in Users : votes[u] # NoVote}

At(r, step) == requests[r].step = step

To(r, step) == requests' = [requests EXCEPT ![r].step = step]

Adds(r) == requests[r].kind = "add"

\* Transactions with a vote inserted, or deleted, that the others do not see yet.
Inserting == {r \in Requests : Adds(r) /\ requests[r].step \in {"voted", "counted", "finished"}
                               /\ requests[r].row = r}
Deleting == {r \in Requests : ~ Adds(r) /\ requests[r].step \in {"deleted", "finished"}
                              /\ requests[r].row # NoVote}

Running(r) == requests[r].step \notin {"idle", "done", "failed"}

-----------------------------------------------------------------------------
Start(r) ==
  /\ At(r, "idle")
  /\ To(r, "started")
  /\ twice' = (twice \/ (~ Adds(r) /\ \E q \in Requests :
                           Running(q) /\ ~ Adds(q) /\ requests[q].user = requests[r].user))
  /\ UNCHANGED <<votes, count, lock, counter, missed>>

Lock(r) ==
  /\ At(r, "started")
  /\ lock = NoVote
  /\ lock' = r
  /\ To(r, "locked")
  /\ UNCHANGED <<votes, count, counter, missed, twice>>

\* Vote.get_or_create of add_vote: the insert waits for another of the same user to commit,
\* and finds its vote then.
GetOrCreate_NoWait(r) ==
  LET user == requests[r].user IN
  /\ At(r, "locked") /\ Adds(r)
  /\ IF votes[user] = NoVote
     THEN requests' = [requests EXCEPT ![r].step = "voted", ![r].row = r]
     ELSE To(r, "found")
  /\ UNCHANGED <<votes, count, lock, counter, missed, twice>>

GetOrCreate(r) ==
  LET user == requests[r].user IN
  /\ At(r, "locked") /\ Adds(r)
  /\ votes[user] = NoVote => \A q \in Inserting : requests[q].user # user
  /\ IF votes[user] = NoVote
     THEN requests' = [requests EXCEPT ![r].step = "voted", ![r].row = r]
     ELSE To(r, "found")
  /\ UNCHANGED <<votes, count, lock, counter, missed, twice>>

\* The row of the counter, created or not, belongs to one transaction until it commits.
Increment(r) ==
  /\ At(r, "voted")
  /\ counter = NoVote
  /\ counter' = r
  /\ To(r, "counted")
  /\ UNCHANGED <<votes, count, lock, missed, twice>>

\* qs.exists() of remove_vote.
Exists_Skipped(r) ==
  /\ At(r, "locked") /\ ~ Adds(r)
  /\ To(r, "unlocked") /\ lock' = NoVote
  /\ UNCHANGED <<votes, count, counter, missed, twice>>

Exists(r) ==
  /\ At(r, "locked") /\ ~ Adds(r)
  /\ IF votes[requests[r].user] = NoVote
     THEN To(r, "found") /\ UNCHANGED lock
     ELSE To(r, "unlocked") /\ lock' = NoVote
  /\ UNCHANGED <<votes, count, counter, missed, twice>>

\* The end of the with block, also on an early return.
Unlock_OnlyAtTheEnd(r) ==
  /\ At(r, "counted") /\ Adds(r)
  /\ lock' = NoVote
  /\ To(r, "finished")
  /\ UNCHANGED <<votes, count, counter, missed, twice>>

Unlock(r) ==
  /\ (At(r, "counted") /\ Adds(r)) \/ At(r, "found")
  /\ lock' = NoVote
  /\ To(r, IF At(r, "found") THEN "done" ELSE "finished")
  /\ UNCHANGED <<votes, count, counter, missed, twice>>

\* qs.delete(): the votes are selected to signal their deletion, and deleted by their ids.
Select(r) ==
  /\ At(r, "unlocked")
  /\ requests' = [requests EXCEPT ![r].step = "selected", ![r].row = votes[requests[r].user]]
  /\ UNCHANGED <<votes, count, lock, counter, missed, twice>>

\* Another transaction that deletes the row is waited for, and has deleted it then.
Delete(r) ==
  LET user == requests[r].user IN
  /\ At(r, "selected")
  /\ \A q \in Deleting : requests[q].row # requests[r].row
  /\ requests' = [requests EXCEPT ![r].step = "deleted",
       ![r].row = IF votes[user] = @ THEN @ ELSE NoVote]
  /\ UNCHANGED <<votes, count, lock, counter, missed, twice>>

\* The decrement, whether a vote was deleted or not.  The column is positive: at zero the
\* statement fails and the transaction is rolled back.
Decrement_Unchecked(r) ==
  /\ At(r, "deleted")
  /\ counter = NoVote
  /\ To(r, "finished") /\ counter' = r
  /\ UNCHANGED <<votes, count, lock, missed, twice>>

Decrement(r) ==
  /\ At(r, "deleted")
  /\ counter = NoVote
  /\ IF count = 0 THEN To(r, "failed") /\ UNCHANGED counter
     ELSE To(r, "finished") /\ counter' = r
  /\ UNCHANGED <<votes, count, lock, missed, twice>>

Commit(r) ==
  LET user == requests[r].user
      row == requests[r].row
  IN
  /\ At(r, "finished")
  /\ To(r, "done")
  /\ counter' = NoVote
  /\ \/ Adds(r) /\ votes' = [votes EXCEPT ![user] = row] /\ count' = count + 1
        /\ UNCHANGED missed
     \/ ~ Adds(r) /\ row # NoVote /\ votes' = [votes EXCEPT ![user] = NoVote]
        /\ count' = count - 1 /\ UNCHANGED missed
     \/ ~ Adds(r) /\ row = NoVote /\ missed' = missed + 1 /\ count' = count - 1
        /\ UNCHANGED votes
  /\ UNCHANGED <<lock, twice>>

Step(r) ==
  \/ Lock(r) \/ GetOrCreate(r) \/ Increment(r) \/ Exists(r) \/ Unlock(r)
  \/ Select(r) \/ Delete(r) \/ Decrement(r) \/ Commit(r)

Next == \E r \in Requests : Start(r) \/ Step(r)

Spec == Init /\ [][Next]_vars

\* PostgreSQL serves the waiters of a lock in turn.
FairSpec == Spec /\ \A r \in Requests : WF_vars(Step(r))

-----------------------------------------------------------------------------
\* The counter is short of the votes by the downvotes that removed nothing, and by nothing
\* else: whatever overlaps, no upvote is counted twice or not at all.
CountIsVotesLessMissed == count + missed = Cardinality(Voters)

\* The counter goes wrong, and a downvote fails on it, only when two downvotes of one user
\* ran at a time: those of different users, and any number of upvotes, never disturb it.
DriftOnlyFromDoubleDownvote ==
  (missed > 0 \/ \E r \in Requests : At(r, "failed")) => twice

\* The advisory lock, the rows of the votes and the counter are taken in an order that lets
\* every request end.
EveryVoteAnswered ==
  \A r \in Requests : At(r, "started") ~> requests[r].step \in {"done", "failed"}

=============================================================================

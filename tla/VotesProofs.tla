------------------------------ MODULE VotesProofs ------------------------------
(* Theorems about Votes.                                                       *)
EXTENDS Votes, TLAPS, FiniteSetTheorems

(***************************************************************************)
(* The strengthening.                                                      *)
(***************************************************************************)
\* Where a request of each kind can be, and whose vote it has in hand.
ProgressInv ==
  \A r \in Requests :
    /\ Adds(r) => requests[r].step \notin {"unlocked", "selected", "deleted", "failed"}
    /\ ~ Adds(r) => requests[r].step \notin {"voted", "counted"}
    /\ Adds(r) /\ requests[r].step \in {"voted", "counted", "finished"} => requests[r].row = r

\* The vote that is being inserted is the user's only one.
InsertInv ==
  \A r \in Inserting :
    /\ votes[requests[r].user] = NoVote
    /\ \A q \in Inserting : requests[q].user = requests[r].user => q = r

\* The vote that is being deleted is the user's, and by one transaction.
DeleteInv ==
  \A r \in Deleting :
    /\ votes[requests[r].user] = requests[r].row
    /\ \A q \in Deleting : requests[q].user = requests[r].user => q = r

\* The row of the counter is locked until the commit; there is something to take off.
CounterInv ==
  \A r \in Requests :
    /\ requests[r].step \in {"counted", "finished"} => counter = r
    /\ ~ Adds(r) /\ At(r, "finished") => count > 0

CountInv == TypeOK /\ ProgressInv /\ InsertInv /\ DeleteInv /\ CounterInv /\ CountIsVotesLessMissed

\* As long as no two removals of one user ran at a time, a removal that has found a vote keeps it.
AloneInv ==
  ~ twice => \A r \in Requests : Running(r) /\ ~ Adds(r) =>
    /\ \A q \in Requests : Running(q) /\ ~ Adds(q) /\ requests[q].user = requests[r].user => q = r
    /\ At(r, "unlocked") => votes[requests[r].user] # NoVote
    /\ At(r, "selected") => requests[r].row # NoVote /\ votes[requests[r].user] = requests[r].row
    /\ requests[r].step \in {"deleted", "finished"} => requests[r].row # NoVote

DriftInv == CountInv /\ AloneInv /\ DriftOnlyFromDoubleDownvote

(***************************************************************************)
(* Types.                                                                  *)
(***************************************************************************)
USE VotesAssumption

LEMMA VotersFinite ==
  ASSUME TypeOK
  PROVE  IsFiniteSet(Voters) /\ Cardinality(Voters) \in Nat
<1>1. Voters \in SUBSET Users
  BY DEF Voters
<1> QED BY <1>1, FS_Subset, FS_CardinalityType

\* Every step but the commit keeps the types: only the commit needs what the counter holds.
LEMMA StepType ==
  ASSUME TypeOK, NEW r \in Requests, Start(r) \/ (Step(r) /\ ~ Commit(r))
  PROVE  TypeOK'
<1>1. CASE Start(r)
  BY <1>1 DEF Start, TypeOK, RequestRecords, Steps, At, To
<1>2. CASE Lock(r)
  BY <1>2 DEF Lock, TypeOK, RequestRecords, Steps, At, To
<1>3. CASE GetOrCreate(r)
  BY <1>3 DEF GetOrCreate, TypeOK, RequestRecords, Steps, At, To
<1>4. CASE Increment(r)
  BY <1>4 DEF Increment, TypeOK, RequestRecords, Steps, At, To
<1>5. CASE Exists(r)
  BY <1>5 DEF Exists, TypeOK, RequestRecords, Steps, At, To
<1>6. CASE Unlock(r)
  BY <1>6 DEF Unlock, TypeOK, RequestRecords, Steps, At, To
<1>7. CASE Select(r)
  BY <1>7 DEF Select, TypeOK, RequestRecords, Steps, At, To
<1>8. CASE Delete(r)
  <2>1. requests[r].row \in Requests \cup {NoVote}
    BY DEF TypeOK, RequestRecords
  <2> DEFINE row == IF votes[requests[r].user] = requests[r].row THEN requests[r].row ELSE NoVote
  <2>2. row \in Requests \cup {NoVote}
    BY <2>1
  <2>3. requests' = [requests EXCEPT ![r].step = "deleted", ![r].row = row]
    BY <1>8 DEF Delete
  <2>4. UNCHANGED <<votes, count, lock, counter, missed, twice>>
    BY <1>8 DEF Delete
  <2> HIDE DEF row
  <2> QED BY <2>2, <2>3, <2>4 DEF TypeOK, RequestRecords, Steps
<1>9. CASE Decrement(r)
  BY <1>9 DEF Decrement, TypeOK, RequestRecords, Steps, At, To
<1> QED BY <1>1, <1>2, <1>3, <1>4, <1>5, <1>6, <1>7, <1>8, <1>9 DEF Step

\* What the statements of a request do to the other requests, and to itself.
LEMMA StepFacts ==
  ASSUME TypeOK, NEW r \in Requests, Start(r) \/ Step(r)
  PROVE  /\ \A q \in Requests \ {r} : requests'[q] = requests[q]
         /\ requests'[r].kind = requests[r].kind /\ requests'[r].user = requests[r].user
<1>1. CASE Start(r) BY <1>1 DEF Start, TypeOK, RequestRecords, To
<1>2. CASE Lock(r) BY <1>2 DEF Lock, TypeOK, RequestRecords, To
<1>3. CASE GetOrCreate(r) BY <1>3 DEF GetOrCreate, TypeOK, RequestRecords, To
<1>4. CASE Increment(r) BY <1>4 DEF Increment, TypeOK, RequestRecords, To
<1>5. CASE Exists(r) BY <1>5 DEF Exists, TypeOK, RequestRecords, To
<1>6. CASE Unlock(r) BY <1>6 DEF Unlock, TypeOK, RequestRecords, To
<1>7. CASE Select(r) BY <1>7 DEF Select, TypeOK, RequestRecords, To
<1>8. CASE Delete(r) BY <1>8 DEF Delete, TypeOK, RequestRecords, To
<1>9. CASE Decrement(r) BY <1>9 DEF Decrement, TypeOK, RequestRecords, To
<1>10. CASE Commit(r) BY <1>10 DEF Commit, TypeOK, RequestRecords, To
<1> QED BY <1>1, <1>2, <1>3, <1>4, <1>5, <1>6, <1>7, <1>8, <1>9, <1>10 DEF Step

(***************************************************************************)
(* Every statement but the commit.                                         *)
(***************************************************************************)
LEMMA StepCount ==
  ASSUME CountInv, NEW r \in Requests, Start(r) \/ (Step(r) /\ ~ Commit(r))
  PROVE  CountInv'
<1> USE DEF CountInv
<1>t. TypeOK'
  BY StepType
<1>f. /\ \A q \in Requests \ {r} : requests'[q] = requests[q]
      /\ requests'[r].kind = requests[r].kind /\ requests'[r].user = requests[r].user
  BY StepFacts DEF Step
<1>1. CASE Start(r)
  <2> USE <1>1, <1>f DEF Start, At, To
  <2>1. ProgressInv'
    BY DEF ProgressInv, Adds, TypeOK, RequestRecords, Steps
  <2>2. InsertInv'
    BY DEF InsertInv, Inserting, Adds, ProgressInv, TypeOK, RequestRecords, Steps
  <2>3. DeleteInv'
    BY DEF DeleteInv, Deleting, Adds, ProgressInv, TypeOK, RequestRecords, Steps
  <2>4. CounterInv'
    BY DEF CounterInv, Adds, ProgressInv, TypeOK, RequestRecords, Steps
  <2>5. CountIsVotesLessMissed'
    BY DEF CountIsVotesLessMissed, Voters
  <2> QED BY <1>t, <2>1, <2>2, <2>3, <2>4, <2>5
<1>2. CASE Lock(r)
  <2> USE <1>2, <1>f DEF Lock, At, To
  <2>1. ProgressInv'
    BY DEF ProgressInv, Adds, TypeOK, RequestRecords, Steps
  <2>2. InsertInv'
    BY DEF InsertInv, Inserting, Adds, ProgressInv, TypeOK, RequestRecords, Steps
  <2>3. DeleteInv'
    BY DEF DeleteInv, Deleting, Adds, ProgressInv, TypeOK, RequestRecords, Steps
  <2>4. CounterInv'
    BY DEF CounterInv, Adds, ProgressInv, TypeOK, RequestRecords, Steps
  <2>5. CountIsVotesLessMissed'
    BY DEF CountIsVotesLessMissed, Voters
  <2> QED BY <1>t, <2>1, <2>2, <2>3, <2>4, <2>5
<1>3. CASE GetOrCreate(r)
  <2> USE <1>3, <1>f DEF GetOrCreate, At, To
  <2>1. ProgressInv'
    BY DEF ProgressInv, Adds, TypeOK, RequestRecords, Steps
  <2>2. InsertInv'
    BY DEF InsertInv, Inserting, Adds, ProgressInv, TypeOK, RequestRecords, Steps
  <2>3. DeleteInv'
    BY DEF DeleteInv, Deleting, Adds, ProgressInv, TypeOK, RequestRecords, Steps
  <2>4. CounterInv'
    BY DEF CounterInv, Adds, ProgressInv, TypeOK, RequestRecords, Steps
  <2>5. CountIsVotesLessMissed'
    BY DEF CountIsVotesLessMissed, Voters
  <2> QED BY <1>t, <2>1, <2>2, <2>3, <2>4, <2>5
<1>4. CASE Increment(r)
  <2> USE <1>4, <1>f DEF Increment, At, To
  <2>1. ProgressInv'
    BY DEF ProgressInv, Adds, TypeOK, RequestRecords, Steps
  <2>2. InsertInv'
    BY DEF InsertInv, Inserting, Adds, ProgressInv, TypeOK, RequestRecords, Steps
  <2>3. DeleteInv'
    BY DEF DeleteInv, Deleting, Adds, ProgressInv, TypeOK, RequestRecords, Steps
  <2>4. CounterInv'
    BY DEF CounterInv, Adds, ProgressInv, TypeOK, RequestRecords, Steps
  <2>5. CountIsVotesLessMissed'
    BY DEF CountIsVotesLessMissed, Voters
  <2> QED BY <1>t, <2>1, <2>2, <2>3, <2>4, <2>5
<1>5. CASE Exists(r)
  <2> USE <1>5, <1>f DEF Exists, At, To
  <2>1. ProgressInv'
    BY DEF ProgressInv, Adds, TypeOK, RequestRecords, Steps
  <2>2. InsertInv'
    BY DEF InsertInv, Inserting, Adds, ProgressInv, TypeOK, RequestRecords, Steps
  <2>3. DeleteInv'
    BY DEF DeleteInv, Deleting, Adds, ProgressInv, TypeOK, RequestRecords, Steps
  <2>4. CounterInv'
    BY DEF CounterInv, Adds, ProgressInv, TypeOK, RequestRecords, Steps
  <2>5. CountIsVotesLessMissed'
    BY DEF CountIsVotesLessMissed, Voters
  <2> QED BY <1>t, <2>1, <2>2, <2>3, <2>4, <2>5
<1>6. CASE Unlock(r)
  <2> USE <1>6, <1>f DEF Unlock, At, To
  <2>1. ProgressInv'
    BY DEF ProgressInv, Adds, TypeOK, RequestRecords, Steps
  <2>2. InsertInv'
    BY DEF InsertInv, Inserting, Adds, ProgressInv, TypeOK, RequestRecords, Steps
  <2>3. DeleteInv'
    BY DEF DeleteInv, Deleting, Adds, ProgressInv, TypeOK, RequestRecords, Steps
  <2>4. CounterInv'
    BY DEF CounterInv, Adds, ProgressInv, TypeOK, RequestRecords, Steps
  <2>5. CountIsVotesLessMissed'
    BY DEF CountIsVotesLessMissed, Voters
  <2> QED BY <1>t, <2>1, <2>2, <2>3, <2>4, <2>5
<1>7. CASE Select(r)
  <2> USE <1>7, <1>f DEF Select, At, To
  <2>1. ProgressInv'
    BY DEF ProgressInv, Adds, TypeOK, RequestRecords, Steps
  <2>2. InsertInv'
    BY DEF InsertInv, Inserting, Adds, ProgressInv, TypeOK, RequestRecords, Steps
  <2>3. DeleteInv'
    BY DEF DeleteInv, Deleting, Adds, ProgressInv, TypeOK, RequestRecords, Steps
  <2>4. CounterInv'
    BY DEF CounterInv, Adds, ProgressInv, TypeOK, RequestRecords, Steps
  <2>5. CountIsVotesLessMissed'
    BY DEF CountIsVotesLessMissed, Voters
  <2> QED BY <1>t, <2>1, <2>2, <2>3, <2>4, <2>5
<1>8. CASE Delete(r)
  <2> USE <1>8, <1>f DEF Delete, At, To
  <2>1. ProgressInv'
    BY DEF ProgressInv, Adds, TypeOK, RequestRecords, Steps
  <2>2. InsertInv'
    BY DEF InsertInv, Inserting, Adds, ProgressInv, TypeOK, RequestRecords, Steps
  <2>3. DeleteInv'
    BY DEF DeleteInv, Deleting, Adds, ProgressInv, TypeOK, RequestRecords, Steps
  <2>4. CounterInv'
    BY DEF CounterInv, Adds, ProgressInv, TypeOK, RequestRecords, Steps
  <2>5. CountIsVotesLessMissed'
    BY DEF CountIsVotesLessMissed, Voters
  <2> QED BY <1>t, <2>1, <2>2, <2>3, <2>4, <2>5
<1>9. CASE Decrement(r)
  <2> USE <1>9, <1>f DEF Decrement, At, To
  <2>1. ProgressInv'
    BY DEF ProgressInv, Adds, TypeOK, RequestRecords, Steps
  <2>2. InsertInv'
    BY DEF InsertInv, Inserting, Adds, ProgressInv, TypeOK, RequestRecords, Steps
  <2>3. DeleteInv'
    BY DEF DeleteInv, Deleting, Adds, ProgressInv, TypeOK, RequestRecords, Steps
  <2>4. CounterInv'
    BY DEF CounterInv, Adds, ProgressInv, TypeOK, RequestRecords, Steps
  <2>5. CountIsVotesLessMissed'
    BY DEF CountIsVotesLessMissed, Voters
  <2> QED BY <1>t, <2>1, <2>2, <2>3, <2>4, <2>5
<1> QED BY <1>1, <1>2, <1>3, <1>4, <1>5, <1>6, <1>7, <1>8, <1>9 DEF Step

(***************************************************************************)
(* The commit.                                                             *)
(***************************************************************************)
\* A vote added: the user had none.
LEMMA CommitAdds ==
  ASSUME CountInv, NEW r \in Requests, Commit(r), Adds(r)
  PROVE  /\ votes[requests[r].user] = NoVote
         /\ votes' = [votes EXCEPT ![requests[r].user] = r]
         /\ count' = count + 1 /\ missed' = missed
<1>1. r \in Inserting
  BY DEF CountInv, ProgressInv, Inserting, Commit, At
<1>2. requests[r].row = r
  BY <1>1 DEF Inserting
<1> QED BY <1>1, <1>2 DEF CountInv, InsertInv, Commit

\* A vote removed, or none.
LEMMA CommitRemoves ==
  ASSUME CountInv, NEW r \in Requests, Commit(r), ~ Adds(r)
  PROVE  /\ count > 0 /\ count' = count - 1
         /\ \/ /\ votes[requests[r].user] = requests[r].row
               /\ requests[r].row # NoVote
               /\ votes' = [votes EXCEPT ![requests[r].user] = NoVote]
               /\ missed' = missed
            \/ votes' = votes /\ missed' = missed + 1 /\ requests[r].row = NoVote
<1>1. requests[r].row # NoVote => r \in Deleting
  BY DEF Deleting, Commit, At
<1>2. count > 0
  BY DEF CountInv, CounterInv, Commit
<1> QED BY <1>1, <1>2 DEF CountInv, DeleteInv, Commit

LEMMA CommitCount ==
  ASSUME CountInv, NEW r \in Requests, Commit(r)
  PROVE  CountInv'
<1>t. TypeOK /\ count \in Nat /\ missed \in Nat
  BY DEF CountInv, TypeOK
<1>u. requests[r].user \in Users /\ requests[r].kind \in {"add", "remove"}
  BY <1>t DEF TypeOK, RequestRecords
<1>f. /\ \A q \in Requests \ {r} : requests'[q] = requests[q]
      /\ requests'[r].kind = requests[r].kind /\ requests'[r].user = requests[r].user
      /\ requests'[r].step = "done" /\ requests[r].step = "finished"
      /\ requests' \in [Requests -> RequestRecords]
      /\ UNCHANGED <<lock, twice>> /\ counter' = NoVote
  BY <1>t, StepFacts DEF Step, Commit, To, At, TypeOK, RequestRecords, Steps
<1>1. TypeOK'
  <2>1. CASE Adds(r)
    BY <1>t, <1>u, <1>f, <2>1, CommitAdds DEF TypeOK
  <2>2. CASE ~ Adds(r)
    BY <1>t, <1>u, <1>f, <2>2, CommitRemoves DEF TypeOK
  <2> QED BY <2>1, <2>2
<1>2. ProgressInv'
  BY <1>f DEF CountInv, ProgressInv, Adds
<1>3. \A q \in Inserting' : q \in Inserting /\ q # r /\ requests'[q] = requests[q]
  BY <1>f DEF Inserting, Adds
<1>4. \A q \in Deleting' : q \in Deleting /\ q # r /\ requests'[q] = requests[q]
  BY <1>f DEF Deleting, Adds
<1>5. InsertInv'
  <2>1. SUFFICES ASSUME NEW q \in Inserting'
                 PROVE  votes'[requests[q].user] = NoVote
    BY <1>3 DEF InsertInv, CountInv
  <2>2. q \in Inserting /\ q # r /\ requests[q].user \in Users /\ votes[requests[q].user] = NoVote
    BY <1>3, <1>t DEF CountInv, InsertInv, TypeOK, RequestRecords, Inserting
  <2>3. CASE Adds(r)
    <3>1. r \in Inserting
      BY <1>f, <2>3 DEF CountInv, ProgressInv, Inserting
    <3>2. requests[q].user # requests[r].user
      BY <2>2, <3>1 DEF CountInv, InsertInv
    <3> QED BY <2>2, <2>3, <3>2, <1>t, CommitAdds DEF TypeOK
  <2>4. CASE ~ Adds(r)
    BY <2>2, <2>4, <1>t, CommitRemoves DEF TypeOK
  <2> QED BY <2>3, <2>4
<1>6. DeleteInv'
  <2>1. SUFFICES ASSUME NEW q \in Deleting'
                 PROVE  votes'[requests[q].user] = requests[q].row
    BY <1>4 DEF DeleteInv, CountInv
  <2>2. /\ q \in Deleting /\ q # r /\ requests[q].user \in Users
        /\ votes[requests[q].user] = requests[q].row /\ requests[q].row # NoVote
    BY <1>4, <1>t DEF CountInv, DeleteInv, TypeOK, RequestRecords, Deleting
  <2>3. CASE Adds(r)
    BY <2>2, <2>3, <1>t, CommitAdds DEF TypeOK
  <2>4. CASE ~ Adds(r) /\ requests[r].row # NoVote
    <3>1. r \in Deleting
      BY <1>f, <2>4 DEF Deleting
    <3>2. requests[q].user # requests[r].user
      BY <2>2, <3>1 DEF CountInv, DeleteInv
    <3> QED BY <2>2, <2>4, <3>2, <1>t, CommitRemoves DEF TypeOK
  <2>5. CASE ~ Adds(r) /\ requests[r].row = NoVote
    BY <2>2, <2>5, CommitRemoves
  <2> QED BY <2>3, <2>4, <2>5
<1>7. CounterInv'
  \* r has the row of the counter, so that no other request has finished with it.
  BY <1>f DEF CountInv, CounterInv, Adds, At
<1>8. CountIsVotesLessMissed'
  <2>1. IsFiniteSet(Voters) /\ Cardinality(Voters) \in Nat
        /\ count + missed = Cardinality(Voters)
    BY <1>t, VotersFinite DEF CountInv, CountIsVotesLessMissed
  <2>2. CASE Adds(r)
    <3>1. r # NoVote
      OBVIOUS
    <3>2. Voters' = Voters \cup {requests[r].user} /\ requests[r].user \notin Voters
      BY <1>t, <1>u, <2>2, <3>1, CommitAdds DEF Voters, TypeOK
    <3>3. Cardinality(Voters') = Cardinality(Voters) + 1
      BY <2>1, <3>2, FS_AddElement
    <3> QED BY <1>t, <2>1, <2>2, <3>3, CommitAdds DEF CountIsVotesLessMissed
  <2>3. CASE ~ Adds(r) /\ requests[r].row # NoVote
    <3>1. Voters' = Voters \ {requests[r].user} /\ requests[r].user \in Voters
      BY <1>t, <1>u, <2>3, CommitRemoves DEF Voters, TypeOK
    <3>2. Cardinality(Voters') = Cardinality(Voters) - 1
      BY <2>1, <3>1, FS_RemoveElement
    <3> QED BY <1>t, <2>1, <2>3, <3>2, CommitRemoves DEF CountIsVotesLessMissed
  <2>4. CASE ~ Adds(r) /\ requests[r].row = NoVote
    BY <1>t, <2>1, <2>4, CommitRemoves DEF CountIsVotesLessMissed, Voters
  <2> QED BY <2>2, <2>3, <2>4
<1> QED BY <1>1, <1>2, <1>5, <1>6, <1>7, <1>8 DEF CountInv

(***************************************************************************)
(* The counter.                                                            *)
(***************************************************************************)
LEMMA InitCount == Init => CountInv
<1> SUFFICES ASSUME Init PROVE CountInv
  OBVIOUS
<1>1. TypeOK
  BY DEF Init, TypeOK, RequestRecords, Steps
<1>2. Voters = {}
  BY DEF Init, Voters
<1>3. ProgressInv /\ InsertInv /\ DeleteInv /\ CounterInv
  BY DEF Init, ProgressInv, InsertInv, DeleteInv, CounterInv, Inserting, Deleting, Adds, At
<1>4. CountIsVotesLessMissed
  BY <1>2, FS_EmptySet DEF Init, CountIsVotesLessMissed
<1> QED BY <1>1, <1>3, <1>4 DEF CountInv

LEMMA NextCount == CountInv /\ [Next]_vars => CountInv'
<1> SUFFICES ASSUME CountInv, [Next]_vars PROVE CountInv'
  OBVIOUS
<1>1. CASE Next
  <2>1. PICK r \in Requests : Start(r) \/ Step(r)
    BY <1>1 DEF Next
  <2> QED BY <2>1, StepCount, CommitCount DEF Step
<1>2. CASE UNCHANGED vars
  BY <1>2 DEF vars, CountInv, TypeOK, ProgressInv, InsertInv, DeleteInv, CounterInv,
              CountIsVotesLessMissed, Voters, Inserting, Deleting, Adds, At
<1> QED BY <1>1, <1>2

LEMMA CountInvariant == Spec => []CountInv
BY InitCount, NextCount, PTL DEF Spec

\* The variables keep their types: the counter, which the database declares positive, never
\* drops below zero, because Decrement checks it under the lock of its row.
THEOREM TypeCorrect == Spec => []TypeOK
<1>1. CountInv => TypeOK
  BY DEF CountInv
<1> QED BY <1>1, CountInvariant, PTL

\* The counter is the number of votes less the removals that found nothing to delete,
\* whatever overlaps in add_vote and remove_vote.
THEOREM CounterCorrect == Spec => []CountIsVotesLessMissed
<1>1. CountInv => CountIsVotesLessMissed
  BY DEF CountInv
<1> QED BY <1>1, CountInvariant, PTL

(***************************************************************************)
(* What makes the counter wrong.                                           *)
(***************************************************************************)
LEMMA TwiceStays ==
  ASSUME TypeOK, NEW r \in Requests, Start(r) \/ Step(r)
  PROVE  twice => twice'
<1>1. Start(r) => (twice => twice')
  BY Zenon DEF Start
<1>2. Step(r) => twice' = twice
  BY Zenon DEF Step, Lock, GetOrCreate, Increment, Exists, Unlock, Select, Delete, Decrement, Commit
<1> QED BY <1>1, <1>2

\* As long as no two removals of one user have run at a time, a removal keeps what it has found.
LEMMA StepAlone ==
  ASSUME CountInv, AloneInv, NEW r \in Requests, Start(r) \/ Step(r)
  PROVE  AloneInv'
<1>t. TypeOK /\ (twice => twice')
  BY TwiceStays DEF CountInv
<1>f. /\ \A q \in Requests \ {r} : requests'[q] = requests[q]
      /\ requests'[r].kind = requests[r].kind /\ requests'[r].user = requests[r].user
  BY <1>t, StepFacts
<1> SUFFICES ASSUME ~ twice'
             PROVE  \A q \in Requests : (Running(q) /\ ~ Adds(q))' =>
                      /\ \A p \in Requests : (Running(p) /\ ~ Adds(p))'
                           /\ requests'[p].user = requests'[q].user => p = q
                      /\ At(q, "unlocked")' => votes'[requests'[q].user] # NoVote
                      /\ At(q, "selected")' => /\ requests'[q].row # NoVote
                                              /\ votes'[requests'[q].user] = requests'[q].row
                      /\ requests'[q].step \in {"deleted", "finished"} => requests'[q].row # NoVote
  BY DEF AloneInv, At
<1>a. ~ twice
  BY <1>t
<1>1. CASE Start(r)
  <2>1. /\ requests'[r].step = "started"
        /\ ~ Adds(r) => \A q \in Requests : Running(q) /\ ~ Adds(q) =>
                         requests[q].user # requests[r].user
    BY <1>1, <1>t DEF Start, To, TypeOK, RequestRecords
  <2> QED BY <1>1, <1>a, <1>f, <2>1 DEF AloneInv, Start, Running, Adds, At
<1>2. CASE Lock(r)
  BY <1>2, <1>a, <1>f, <1>t DEF AloneInv, Lock, To, At, Running, Adds, TypeOK, RequestRecords
<1>3. CASE GetOrCreate(r)
  BY <1>3, <1>a, <1>f, <1>t DEF AloneInv, GetOrCreate, To, At, Running, Adds, TypeOK, RequestRecords
<1>4. CASE Increment(r)
  BY <1>4, <1>a, <1>f, <1>t DEF AloneInv, Increment, To, At, Running, Adds, TypeOK, RequestRecords
<1>5. CASE Exists(r)
  BY <1>5, <1>a, <1>f, <1>t DEF AloneInv, Exists, To, At, Running, Adds, TypeOK, RequestRecords
<1>6. CASE Unlock(r)
  BY <1>6, <1>a, <1>f, <1>t DEF AloneInv, Unlock, To, At, Running, Adds, TypeOK, RequestRecords,
                                CountInv, ProgressInv
<1>7. CASE Select(r)
  BY <1>7, <1>a, <1>f, <1>t DEF AloneInv, Select, To, At, Running, Adds, TypeOK, RequestRecords,
                                CountInv, ProgressInv
<1>8. CASE Delete(r)
  BY <1>8, <1>a, <1>f, <1>t DEF AloneInv, Delete, To, At, Running, Adds, TypeOK, RequestRecords,
                                CountInv, ProgressInv
<1>9. CASE Decrement(r)
  BY <1>9, <1>a, <1>f, <1>t DEF AloneInv, Decrement, To, At, Running, Adds, TypeOK, RequestRecords,
                                CountInv, ProgressInv
<1>10. CASE Commit(r)
  <2>1. requests[r].step = "finished" /\ requests'[r].step = "done"
    BY <1>10, <1>t DEF Commit, To, At, TypeOK, RequestRecords
  <2>2. ASSUME NEW q \in Requests, Running(q), ~ Adds(q), q # r,
               votes[requests[q].user] # NoVote
        PROVE  votes'[requests[q].user] = votes[requests[q].user]
    <3>1. requests[q].user \in Users /\ requests[r].user \in Users
      BY <1>t DEF TypeOK, RequestRecords
    <3>2. CASE Adds(r)
      BY <1>10, <1>t, <2>2, <3>1, <3>2, CommitAdds DEF TypeOK
    <3>3. CASE ~ Adds(r)
      <4>1. requests[q].user # requests[r].user
        BY <1>a, <2>1, <2>2, <3>3 DEF AloneInv, Running
      <4> QED BY <1>10, <1>t, <3>1, <3>3, <4>1, CommitRemoves DEF TypeOK
    <3> QED BY <3>2, <3>3
  <2> QED BY <1>a, <1>f, <2>1, <2>2 DEF AloneInv, Running, Adds, At
<1> QED BY <1>1, <1>2, <1>3, <1>4, <1>5, <1>6, <1>7, <1>8, <1>9, <1>10 DEF Step

LEMMA StepDrift ==
  ASSUME DriftInv, NEW r \in Requests, Start(r) \/ Step(r)
  PROVE  DriftOnlyFromDoubleDownvote'
<1> USE DEF DriftInv
<1>t. TypeOK /\ (twice => twice')
  BY TwiceStays DEF CountInv
<1>f. \A q \in Requests \ {r} : requests'[q] = requests[q]
  BY <1>t, StepFacts
<1>a. SUFFICES ASSUME ~ twice'
               PROVE  missed' = missed /\ requests'[r].step # "failed"
  BY <1>t, <1>f DEF DriftOnlyFromDoubleDownvote, At
<1>b. ~ twice /\ missed = 0
  BY <1>t, <1>a DEF DriftOnlyFromDoubleDownvote, CountInv, TypeOK
<1>1. CASE Decrement(r)
  <2>1. ~ Adds(r) /\ At(r, "deleted") /\ requests[r].row # NoVote
    BY <1>1, <1>b DEF Decrement, AloneInv, CountInv, ProgressInv, Running, At
  <2>2. votes[requests[r].user] # NoVote /\ requests[r].user \in Users
    BY <1>t, <2>1 DEF Deleting, CountInv, DeleteInv, At, TypeOK, RequestRecords
  <2>3. Voters # {}
    BY <2>2 DEF Voters
  <2>4. count # 0
    BY <1>b, <1>t, <2>3, VotersFinite, FS_EmptySet DEF CountInv, CountIsVotesLessMissed, TypeOK
  <2> QED BY <1>1, <1>t, <2>1, <2>4 DEF Decrement, To, At, TypeOK, RequestRecords
<1>2. CASE Commit(r)
  <2>1. ~ Adds(r) => requests[r].row # NoVote
    BY <1>2, <1>b DEF Commit, AloneInv, Running, At
  <2> QED BY <1>2, <1>t, <2>1, CommitAdds, CommitRemoves DEF Commit, To, At, TypeOK, RequestRecords
<1>3. CASE ~ Decrement(r) /\ ~ Commit(r)
  BY <1>3, <1>t DEF Start, Step, Lock, GetOrCreate, Increment, Exists, Unlock, Select, Delete, To,
                    At, TypeOK, RequestRecords
<1> QED BY <1>1, <1>2, <1>3

\* The counter goes wrong, and a removal fails on it, only after two removals of one user that ran
\* at a time: the gap between the advisory lock and the DELETE of remove_vote takes two of them.
THEOREM DriftExplained == Spec => []DriftOnlyFromDoubleDownvote
<1>1. Init => DriftInv
  <2> SUFFICES ASSUME Init PROVE DriftInv
    OBVIOUS
  <2>1. AloneInv /\ DriftOnlyFromDoubleDownvote
    BY DEF Init, AloneInv, DriftOnlyFromDoubleDownvote, Running, At
  <2> QED BY <2>1, InitCount DEF DriftInv
<1>2. DriftInv /\ [Next]_vars => DriftInv'
  <2> SUFFICES ASSUME DriftInv, [Next]_vars PROVE DriftInv'
    OBVIOUS
  <2>1. CountInv'
    BY NextCount DEF DriftInv
  <2>2. CASE Next
    <3>1. PICK r \in Requests : Start(r) \/ Step(r)
      BY <2>2 DEF Next
    <3> QED BY <2>1, <3>1, StepAlone, StepDrift DEF DriftInv
  <2>3. CASE UNCHANGED vars
    BY <2>1, <2>3 DEF DriftInv, vars, AloneInv, DriftOnlyFromDoubleDownvote, Running, Adds, At
  <2> QED BY <2>2, <2>3
<1>3. DriftInv => DriftOnlyFromDoubleDownvote
  BY DEF DriftInv
<1> QED BY <1>1, <1>2, <1>3, PTL DEF Spec

=============================================================================

------------------------------ MODULE ProjectRow ------------------------------
(***************************************************************************)
(* The row of a project, which many requests write: likes and the timeline *)
(* recount its totals, a transfer sets the token and the owner, and an     *)
(* edit of any setting saves every column as it was loaded.  Beside it the *)
(* memberships: the owner must stay an administrator.                      *)
(***************************************************************************)
EXTENDS Integers, FiniteSets

CONSTANTS Users, Requests, None

VARIABLES
  row,        \* the committed row: its owner, the pending transfer and total_fans
  members,    \* user -> "admin", "member" or "out"
  likes,      \* the users with a committed like
  requests,   \* the requests: kind, user and progress; what they have loaded and counted
  crossed,    \* history: the pairs of kinds of requests that ran at a time
  decisions,  \* history: how often the transfer that a request started was decided
  settled     \* history: the last to write total_fans ran alone, and nothing has run since

vars == <<row, members, likes, requests, crossed, decisions, settled>>

\* A transfer: the request that started it, None if it was before the first, and the user it is
\* offered to.  The token of the code signs that user and the time.
NoTransfer == [by |-> None, to |-> None]
Tokens == [by : Requests \cup {None}, to : Users \cup {None}]
ProjectRows == [owner : Users, token : Tokens, fans : Nat]

Kinds == {"like", "unlike", "recount", "edit", "start", "accept", "reject", "leave", "demote"}

\* old: the row as loaded; count: total_fans as counted; wrote: it has added or removed a like;
\* alone: no other request has run since it started.
RequestRecords ==
  [kind : Kinds \cup {"none"}, user : Users \cup {None}, old : ProjectRows \cup {None},
   count : Nat, wrote : BOOLEAN, alone : BOOLEAN,
   step : {"idle", "loaded", "promoted", "liked", "found", "held", "unliked", "counted", "done"}]

TypeOK ==
  /\ row \in ProjectRows
  /\ members \in [Users -> {"admin", "member", "out"}]
  /\ likes \subseteq Users
  /\ requests \in [Requests -> RequestRecords]
  /\ crossed \subseteq SUBSET Kinds
  /\ decisions \in [Requests \cup {None} -> Nat]
  /\ settled \in BOOLEAN

Init ==
  /\ \E o \in Users, u \in Users \cup {None} :
       /\ row = [owner |-> o, token |-> [by |-> None, to |-> u], fans |-> 0]
       /\ members \in [Users -> {"admin", "member", "out"}] /\ members[o] = "admin"
  /\ likes = {}
  /\ requests = [r \in Requests |-> [kind |-> "none", user |-> None, old |-> None, count |-> 0,
                                     wrote |-> FALSE, alone |-> FALSE, step |-> "idle"]]
  /\ crossed = {}
  /\ decisions = [r \in Requests \cup {None} |-> 0]
  /\ settled = TRUE

-----------------------------------------------------------------------------
At(r, kind, step) == requests[r].kind = kind /\ requests[r].step = step

Running == {r \in Requests : requests[r].step \notin {"idle", "done"}}

To(r, step) == requests' = [requests EXCEPT ![r].step = step]

\* A request is over: what it had read is of no interest any more.
Done(r) ==
  requests' = [requests EXCEPT ![r] = [kind |-> "none", user |-> None, old |-> None, count |-> 0,
                                       wrote |-> FALSE, alone |-> FALSE, step |-> "done"]]

Start(r, kind, user, step, old) ==
  /\ requests[r].step = "idle"
  /\ requests' = [q \in Requests |->
       IF q # r THEN [requests[q] EXCEPT !.alone = FALSE]
       ELSE [kind |-> kind, user |-> user, old |-> old, count |-> 0,
             wrote |-> kind = "like" /\ user \notin likes, alone |-> Running = {}, step |-> step]]
  /\ crossed' = crossed \cup {{kind, requests[q].kind} : q \in Running}
  /\ settled' = FALSE

\* project.save(): every column, as loaded or as changed since.
SaveAll(r, saved) == row' = saved /\ Done(r)

-----------------------------------------------------------------------------
(* Likes.                                                                  *)
\* get_or_create of add_like: an insert by another request of the user is waited for.
AddLike(r, user) ==
  /\ \A q \in Running : ~ (requests[q].kind = "like" /\ requests[q].user = user
                             /\ requests[q].wrote)
  /\ Start(r, "like", user, "liked", None)
  /\ UNCHANGED <<row, members, likes, decisions>>

RemoveLike(r, user) ==
  /\ user \in likes
  /\ Start(r, "unlike", user, "found", None)
  /\ UNCHANGED <<row, members, likes, decisions>>

\* qs.first(), which the next line takes for a like: when there is none any more it fails.
First(r) ==
  /\ At(r, "unlike", "found")
  /\ IF requests[r].user \in likes THEN To(r, "held") ELSE Done(r)
  /\ UNCHANGED <<row, members, likes, crossed, decisions, settled>>

\* Another transaction that deletes the row is waited for.
DeleteLike(r) ==
  /\ At(r, "unlike", "held")
  /\ \A q \in Running \ {r} : ~ (/\ requests[q].kind = "unlike"
                                 /\ requests[q].step \in {"unliked", "counted"}
                                 /\ requests[q].user = requests[r].user)
  /\ requests' = [requests EXCEPT ![r].step = "unliked", ![r].wrote = requests[r].user \in likes]
  /\ UNCHANGED <<row, members, likes, crossed, decisions, settled>>

\* push_to_timelines: any change of the project is followed by a recount.
LoadToRecount(r) ==
  /\ Start(r, "recount", None, "loaded", None)
  /\ UNCHANGED <<row, members, likes, decisions>>

\* The likes that the transaction sees: those committed, and what it has done itself.
LikesSeen(r) ==
  LET own == IF requests[r].wrote THEN {requests[r].user} ELSE {}
  IN IF requests[r].kind = "like" THEN likes \cup own ELSE likes \ own

Counting(r) == requests[r].step \in {"liked", "unliked"} \/ At(r, "recount", "loaded")

\* refresh_totals counts...
CountFans_Others(r) ==
  /\ Counting(r)
  /\ requests' = [requests EXCEPT ![r].count = Cardinality(likes), ![r].step = "counted"]
  /\ UNCHANGED <<row, members, likes, crossed, decisions, settled>>

CountFans_KeepsCounter(r) ==
  /\ Counting(r)
  /\ requests' = [requests EXCEPT ![r].step = "counted",
       ![r].count = CASE requests[r].step = "liked" -> row.fans + 1
                      [] requests[r].step = "unliked" -> row.fans - 1
                      [] OTHER -> row.fans]
  /\ UNCHANGED <<row, members, likes, crossed, decisions, settled>>

CountFans(r) ==
  /\ Counting(r)
  /\ requests' = [requests EXCEPT ![r].count = Cardinality(LikesSeen(r)), ![r].step = "counted"]
  /\ UNCHANGED <<row, members, likes, crossed, decisions, settled>>

\* ... and saves the columns of the totals; the transaction commits.
SaveTotals(r) ==
  /\ requests[r].step = "counted"
  /\ row' = [row EXCEPT !.fans = requests[r].count]
  /\ likes' = LikesSeen(r)
  /\ settled' = requests[r].alone
  /\ Done(r)
  /\ UNCHANGED <<members, crossed, decisions>>

-----------------------------------------------------------------------------
(* Settings and the transfer.                                              *)
\* Administrators edit settings.
Edit(r, user) ==
  /\ members[user] = "admin"
  /\ Start(r, "edit", user, "loaded", row)
  /\ UNCHANGED <<row, members, likes, decisions>>

SaveEdit(r) ==
  /\ At(r, "edit", "loaded")
  /\ SaveAll(r, requests[r].old)
  /\ UNCHANGED <<members, likes, crossed, decisions, settled>>

\* transfer_start: the owner offers the project to a member.
StartTransfer(r, user) ==
  /\ members[user] # "out"
  /\ Start(r, "start", user, "loaded", row)
  /\ UNCHANGED <<row, members, likes, decisions>>

SaveTransfer(r) ==
  /\ At(r, "start", "loaded")
  /\ SaveAll(r, [requests[r].old EXCEPT !.token = [by |-> r, to |-> requests[r].user]])
  /\ UNCHANGED <<members, likes, crossed, decisions, settled>>

\* validate_project_transfer_token: the pending transfer is the one that the user was mailed.
Valid(user) == row.token.to = user

Reject(r, user) ==
  /\ Valid(user)
  /\ Start(r, "reject", user, "loaded", row)
  /\ UNCHANGED <<row, members, likes, decisions>>

SaveReject(r) ==
  LET old == requests[r].old IN
  /\ At(r, "reject", "loaded")
  /\ SaveAll(r, [old EXCEPT !.token = NoTransfer])
  /\ decisions' = [decisions EXCEPT ![old.token.by] = @ + 1]
  /\ UNCHANGED <<members, likes, crossed, settled>>

\* transfer_accept loads the project and the membership of the user...
Accept(r, user) ==
  /\ Valid(user)
  /\ members[user] # "out"
  /\ Start(r, "accept", user, IF members[user] = "admin" THEN "promoted" ELSE "loaded", row)
  /\ UNCHANGED <<row, members, likes, decisions>>

\* ... makes an administrator of the user (the row of the membership, removed since, comes back)
Promote(r) ==
  /\ At(r, "accept", "loaded")
  /\ members' = [members EXCEPT ![requests[r].user] = "admin"]
  /\ To(r, "promoted")
  /\ UNCHANGED <<row, likes, crossed, decisions, settled>>

\* ... and saves the project.
SaveAccept_KeepsToken(r) ==
  LET old == requests[r].old IN
  /\ At(r, "accept", "promoted")
  /\ SaveAll(r, [old EXCEPT !.owner = requests[r].user])
  /\ decisions' = [decisions EXCEPT ![old.token.by] = @ + 1]
  /\ UNCHANGED <<members, likes, crossed, settled>>

SaveAccept(r) ==
  LET old == requests[r].old IN
  /\ At(r, "accept", "promoted")
  /\ SaveAll(r, [old EXCEPT !.token = NoTransfer, !.owner = requests[r].user])
  /\ decisions' = [decisions EXCEPT ![old.token.by] = @ + 1]
  /\ UNCHANGED <<members, likes, crossed, settled>>

-----------------------------------------------------------------------------
(* Memberships.                                                            *)
\* can_user_leave_project, and the check of an edit that takes the role of administrator.
CanLeave_OwnerToo(user) ==
  members[user] = "admin" => \E u \in Users \ {user} : members[u] = "admin"

CanLeave(user) ==
  members[user] = "admin" => /\ row.owner # user
                             /\ \E u \in Users \ {user} : members[u] = "admin"

Leave(r, kind, user) ==
  /\ kind \in {"leave", "demote"}
  /\ members[user] # "out"
  /\ CanLeave(user)
  /\ Start(r, kind, user, "loaded", None)
  /\ UNCHANGED <<row, members, likes, decisions>>

\* The membership is deleted, or its row is saved.
DeleteMembership(r) ==
  /\ requests[r].kind \in {"leave", "demote"} /\ requests[r].step = "loaded"
  /\ members' = [members EXCEPT ![requests[r].user] =
                   IF requests[r].kind = "leave" THEN "out" ELSE "member"]
  /\ Done(r)
  /\ UNCHANGED <<row, likes, crossed, decisions, settled>>

-----------------------------------------------------------------------------
Next == \E r \in Requests :
  \/ LoadToRecount(r)
  \/ \E user \in Users :
       \/ AddLike(r, user) \/ RemoveLike(r, user)
       \/ Edit(r, user) \/ StartTransfer(r, user) \/ Accept(r, user) \/ Reject(r, user)
       \/ \E kind \in {"leave", "demote"} : Leave(r, kind, user)
  \/ First(r) \/ DeleteLike(r) \/ CountFans(r) \/ SaveTotals(r)
  \/ SaveEdit(r) \/ SaveTransfer(r) \/ Promote(r) \/ SaveAccept(r) \/ SaveReject(r)
  \/ DeleteMembership(r)

Spec == Init /\ [][Next]_vars

-----------------------------------------------------------------------------
\* The owner is an administrator of the project, unless the transfer to a new owner was
\* accepted while a member left or lost the role, or while a request that saves the whole row
\* was at work.  Likes and recounts, which save their own columns only, never disturb it.
OwnerIsAdmin ==
  \/ members[row.owner] = "admin"
  \/ \E kind \in {"leave", "demote", "start", "edit", "reject"} : {"accept", kind} \in crossed

\* A transfer is accepted or rejected once, whatever mails and tabs ask for it again, unless
\* two answers ran at a time, or an edit that brought the token back with the rest of the row.
DecidedOnce ==
  \/ \A r \in Requests \cup {None} : decisions[r] <= 1
  \/ \E answers \in (SUBSET {"accept", "reject"}) \ {{}} : answers \in crossed
  \/ \E answer \in {"accept", "reject"} : {"edit", answer} \in crossed

\* Totals that went wrong when likes overlapped are right again after any like, unlike or
\* recount that no other request overlapped.
LoneRecountHeals == settled => row.fans = Cardinality(likes)

=============================================================================

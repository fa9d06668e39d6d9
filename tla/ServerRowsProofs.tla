---------------------------- MODULE ServerRowsProofs ----------------------------
(***************************************************************************)
(* The theorems about the project row, the signal handlers, the swimlanes, *)
(* the mails and the taskboard, for the composition whose runs check them. *)
(***************************************************************************)
EXTENDS ServerRows, TLAPS, FiniteSetTheorems, SequenceTheorems, WellFoundedInduction

serverVars == <<what, projectVars, handlerVars, laneVars, taskboardVars, mailVars>>

-----------------------------------------------------------------------------
(***************************************************************************)
(* The project row.                                                        *)
(***************************************************************************)
RequestFields == {"kind", "user", "old", "count", "wrote", "alone", "step"}

CountsLikes == {"like", "unlike", "recount"}
SavesRow == {"edit", "start", "accept", "reject"}

IsRow(x) ==
  /\ DOMAIN x = {"owner", "token", "fans"}
  /\ x.owner \in Users /\ x.token.by \in ProjectRequests \cup {None}

(***************************************************************************)
(* What all the theorems need of the state.                                *)
(***************************************************************************)
\* A request that counts likes does nothing else; one that saves the row has loaded it.
RequestOK(r) ==
  /\ DOMAIN writers[r] = RequestFields
  /\ writers[r].step \in {"liked", "found", "held", "unliked", "counted"} => writers[r].kind \in CountsLikes
  /\ r \in Project!Running => writers[r].kind \in Project!Kinds
  /\ r \in Project!Running /\ writers[r].kind \in SavesRow => IsRow(writers[r].old)
  /\ r \in Project!Running /\ writers[r].kind \in {"start", "accept", "reject", "leave", "demote"} =>
       writers[r].user \in Users

\* Two requests that are running have been noted as a pair.
CrossedInv ==
  \A q, r \in Project!Running : q # r => {writers[q].kind, writers[r].kind} \in pairs

BaseInv ==
  /\ IsRow(row)
  /\ DOMAIN members = Users
  /\ DOMAIN writers = ProjectRequests /\ \A r \in ProjectRequests : RequestOK(r)
  /\ decisions \in [ProjectRequests \cup {None} -> Nat]
  /\ CrossedInv

Kept(q) ==
  /\ writers'[q].kind = writers[q].kind /\ writers'[q].user = writers[q].user
  /\ writers'[q].old = writers[q].old /\ writers'[q].count = writers[q].count
  /\ writers'[q].wrote = writers[q].wrote /\ writers'[q].step = writers[q].step

(***************************************************************************)
(* What starting, going on with and ending a request do.                   *)
(***************************************************************************)
LEMMA Started ==
  ASSUME BaseInv, NEW r \in ProjectRequests, NEW kind, NEW user, NEW step, NEW old,
         Project!Start(r, kind, user, step, old), step \notin {"idle", "done"}
  PROVE  /\ DOMAIN writers' = ProjectRequests
         /\ writers[r].step = "idle" /\ writers'[r].step = step
         /\ writers'[r].kind = kind /\ writers'[r].user = user /\ writers'[r].old = old
         /\ writers'[r].alone = (Project!Running = {})
         /\ DOMAIN writers'[r] = RequestFields
         /\ \A q \in ProjectRequests \ {r} : /\ Kept(q) /\ writers'[q].alone = FALSE
                                      /\ DOMAIN writers'[q] = RequestFields
         /\ r \notin Project!Running /\ Project!Running' = Project!Running \cup {r}
         /\ pairs \subseteq pairs'
         /\ \A q \in Project!Running : {kind, writers[q].kind} \in pairs'
         /\ settled' = FALSE
<1>1. /\ writers[r].step = "idle" /\ settled' = FALSE
      /\ writers' = [q \in ProjectRequests |->
            IF q # r THEN [writers[q] EXCEPT !.alone = FALSE]
            ELSE [kind |-> kind, user |-> user, old |-> old, count |-> 0,
                  wrote |-> kind = "like" /\ user \notin likes, alone |-> Project!Running = {}, step |-> step]]
      /\ pairs' = pairs \cup {{kind, writers[q].kind} : q \in Project!Running}
  BY DEF Project!Start
<1>2. \A q \in ProjectRequests \ {r} : writers'[q] = [writers[q] EXCEPT !.alone = FALSE]
  BY <1>1
<1>3. writers'[r] = [kind |-> kind, user |-> user, old |-> old, count |-> 0,
                      wrote |-> kind = "like" /\ user \notin likes, alone |-> Project!Running = {}, step |-> step]
  BY <1>1
<1>4. \A q \in ProjectRequests \ {r} : Kept(q) /\ writers'[q].alone = FALSE /\ DOMAIN writers'[q] = RequestFields
  BY <1>2 DEF BaseInv, RequestOK, RequestFields, Kept
<1>5. /\ writers'[r].step = step /\ writers'[r].kind = kind /\ writers'[r].user = user
      /\ writers'[r].old = old /\ writers'[r].alone = (Project!Running = {})
      /\ DOMAIN writers'[r] = RequestFields
  BY <1>3 DEF RequestFields
<1>6. r \notin Project!Running /\ Project!Running' = Project!Running \cup {r}
  BY <1>1, <1>4, <1>5 DEF Project!Running, Kept
<1>7. pairs \subseteq pairs' /\ \A q \in Project!Running : {kind, writers[q].kind} \in pairs'
  BY <1>1
<1> QED BY <1>1, <1>4, <1>5, <1>6, <1>7

LEMMA Ended ==
  ASSUME BaseInv, NEW r \in ProjectRequests, Project!Done(r)
  PROVE  /\ DOMAIN writers' = ProjectRequests
         /\ writers'[r].kind = "none" /\ writers'[r].step = "done"
         /\ DOMAIN writers'[r] = RequestFields
         /\ \A q \in ProjectRequests \ {r} : writers'[q] = writers[q]
         /\ Project!Running' = Project!Running \ {r}
<1>1. /\ DOMAIN writers' = ProjectRequests
      /\ writers'[r] = [kind |-> "none", user |-> None, old |-> None, count |-> 0,
                         wrote |-> FALSE, alone |-> FALSE, step |-> "done"]
      /\ \A q \in ProjectRequests \ {r} : writers'[q] = writers[q]
  BY DEF Project!Done, BaseInv
<1>2. writers'[r].kind = "none" /\ writers'[r].step = "done" /\ DOMAIN writers'[r] = RequestFields
  BY <1>1 DEF RequestFields
<1>3. Project!Running' = Project!Running \ {r}
  BY <1>1, <1>2 DEF Project!Running
<1> QED BY <1>1, <1>2, <1>3

\* A request that counts likes goes on: it changes neither owner, transfer nor members.
LEMMA LikesCounted ==
  ASSUME BaseInv, NEW r \in ProjectRequests,
         Project!First(r) \/ Project!DeleteLike(r) \/ Project!CountFans(r) \/ Project!SaveTotals(r)
  PROVE  /\ UNCHANGED <<members, pairs, decisions>>
         /\ row'.owner = row.owner /\ row'.token = row.token /\ IsRow(row')
         /\ DOMAIN writers' = ProjectRequests
         /\ \A q \in ProjectRequests \ {r} : writers'[q] = writers[q]
         /\ DOMAIN writers'[r] = RequestFields
         /\ r \in Project!Running /\ writers[r].kind \in CountsLikes
         /\ \/ /\ writers'[r].step \in {"held", "unliked", "counted"}
               /\ writers'[r].kind = writers[r].kind /\ Project!Running' = Project!Running
            \/ writers'[r].step = "done" /\ Project!Running' = Project!Running \ {r}
<1>1. r \in Project!Running /\ writers[r].kind \in CountsLikes
  BY DEF Project!First, Project!DeleteLike, Project!CountFans, Project!SaveTotals,
         Project!Counting, Project!At, BaseInv, RequestOK, Project!Running, CountsLikes
<1>2. /\ UNCHANGED <<members, pairs, decisions>>
      /\ row'.owner = row.owner /\ row'.token = row.token /\ IsRow(row')
  <2>1. CASE Project!SaveTotals(r)
    BY <2>1 DEF Project!SaveTotals, BaseInv, IsRow
  <2>2. CASE Project!First(r) \/ Project!DeleteLike(r) \/ Project!CountFans(r)
    BY <2>2 DEF Project!First, Project!DeleteLike, Project!CountFans, BaseInv
  <2> QED BY <2>1, <2>2
<1>3. ASSUME DOMAIN writers' = ProjectRequests,
             \A q \in ProjectRequests \ {r} : writers'[q] = writers[q],
             writers'[r].step \in {"held", "unliked", "counted"}
      PROVE  Project!Running' = Project!Running
  BY <1>1, <1>3 DEF Project!Running
<1>4. CASE Project!Done(r)
  BY <1>1, <1>2, <1>4, Ended
<1>5. CASE Project!First(r) /\ Project!To(r, "held")
  <2>1. /\ DOMAIN writers' = ProjectRequests /\ \A q \in ProjectRequests \ {r} : writers'[q] = writers[q]
        /\ writers'[r].step = "held" /\ writers'[r].kind = writers[r].kind
        /\ DOMAIN writers'[r] = RequestFields
    BY <1>5 DEF Project!To, BaseInv, RequestOK, RequestFields
  <2> QED BY <1>1, <1>2, <1>3, <2>1
<1>6. CASE Project!DeleteLike(r)
  <2>1. /\ DOMAIN writers' = ProjectRequests /\ \A q \in ProjectRequests \ {r} : writers'[q] = writers[q]
        /\ writers'[r].step = "unliked" /\ writers'[r].kind = writers[r].kind
        /\ DOMAIN writers'[r] = RequestFields
    BY <1>6 DEF Project!DeleteLike, BaseInv, RequestOK, RequestFields
  <2> QED BY <1>1, <1>2, <1>3, <2>1
<1>7. CASE Project!CountFans(r)
  <2>1. /\ DOMAIN writers' = ProjectRequests /\ \A q \in ProjectRequests \ {r} : writers'[q] = writers[q]
        /\ writers'[r].step = "counted" /\ writers'[r].kind = writers[r].kind
        /\ DOMAIN writers'[r] = RequestFields
    BY <1>7 DEF Project!CountFans, BaseInv, RequestOK, RequestFields
  <2> QED BY <1>1, <1>2, <1>3, <2>1
<1> QED BY <1>4, <1>5, <1>6, <1>7 DEF Project!First, Project!SaveTotals

(***************************************************************************)
(* The steps, sorted by what they do to rows.                              *)
(***************************************************************************)
Begins(r, kind, user, step, old) ==
  /\ Project!Start(r, kind, user, step, old)
  /\ UNCHANGED <<row, members, likes, decisions>>
  /\ \/ kind \in CountsLikes /\ step \in {"liked", "found", "loaded"}
     \/ kind = "edit" /\ step = "loaded" /\ old = row
     \/ kind = "start" /\ step = "loaded" /\ old = row /\ user \in Users
     \/ /\ kind \in {"accept", "reject"} /\ old = row /\ user \in Users /\ Project!Valid(user)
        /\ step = "loaded" \/ (kind = "accept" /\ step = "promoted" /\ members[user] = "admin")
     \/ /\ kind \in {"leave", "demote"} /\ step = "loaded" /\ user \in Users /\ Project!CanLeave(user)

Counts(r) == Project!First(r) \/ Project!DeleteLike(r) \/ Project!CountFans(r) \/ Project!SaveTotals(r)

LEMMA NextSorted ==
  ASSUME Project!Next
  PROVE  \E r \in ProjectRequests :
           \/ \E kind, user, step, old : Begins(r, kind, user, step, old)
           \/ Counts(r)
           \/ Project!SaveEdit(r) \/ Project!SaveTransfer(r) \/ Project!Promote(r)
           \/ Project!SaveAccept(r) \/ Project!SaveReject(r)
           \/ Project!DeleteMembership(r)
<1>1. PICK r \in ProjectRequests :
        \/ Project!LoadToRecount(r)
        \/ \E user \in Users :
             \/ Project!AddLike(r, user) \/ Project!RemoveLike(r, user)
             \/ Project!Edit(r, user) \/ Project!StartTransfer(r, user)
             \/ Project!Accept(r, user) \/ Project!Reject(r, user)
             \/ \E kind \in {"leave", "demote"} : Project!Leave(r, kind, user)
        \/ Project!First(r) \/ Project!DeleteLike(r) \/ Project!CountFans(r)
        \/ Project!SaveTotals(r)
        \/ Project!SaveEdit(r) \/ Project!SaveTransfer(r) \/ Project!Promote(r)
        \/ Project!SaveAccept(r) \/ Project!SaveReject(r)
        \/ Project!DeleteMembership(r)
  BY DEF Project!Next
<1>2. ASSUME Project!LoadToRecount(r) PROVE Begins(r, "recount", None, "loaded", None)
  BY <1>2 DEF Project!LoadToRecount, Begins, CountsLikes
<1>3. ASSUME NEW user \in Users, Project!AddLike(r, user)
      PROVE  Begins(r, "like", user, "liked", None)
  BY <1>3 DEF Project!AddLike, Begins, CountsLikes
<1>4. ASSUME NEW user \in Users, Project!RemoveLike(r, user)
      PROVE  Begins(r, "unlike", user, "found", None)
  BY <1>4 DEF Project!RemoveLike, Begins, CountsLikes
<1>5. ASSUME NEW user \in Users, Project!Edit(r, user) PROVE Begins(r, "edit", user, "loaded", row)
  BY <1>5 DEF Project!Edit, Begins
<1>6. ASSUME NEW user \in Users, Project!StartTransfer(r, user)
      PROVE  Begins(r, "start", user, "loaded", row)
  BY <1>6 DEF Project!StartTransfer, Begins
<1>7. ASSUME NEW user \in Users, Project!Accept(r, user)
      PROVE  Begins(r, "accept", user, "loaded", row) \/ Begins(r, "accept", user, "promoted", row)
  <2>1. CASE members[user] = "admin"
    BY <1>7, <2>1 DEF Project!Accept, Begins
  <2>2. CASE members[user] # "admin"
    BY <1>7, <2>2 DEF Project!Accept, Begins
  <2> QED BY <2>1, <2>2
<1>8. ASSUME NEW user \in Users, Project!Reject(r, user)
      PROVE  Begins(r, "reject", user, "loaded", row)
  BY <1>8 DEF Project!Reject, Begins
<1>9. ASSUME NEW user \in Users, NEW kind \in {"leave", "demote"}, Project!Leave(r, kind, user)
      PROVE  Begins(r, kind, user, "loaded", None)
  BY <1>9 DEF Project!Leave, Begins
<1>10. \/ \E kind, user, step, old : Begins(r, kind, user, step, old)
       \/ Counts(r)
       \/ Project!SaveEdit(r) \/ Project!SaveTransfer(r) \/ Project!Promote(r)
       \/ Project!SaveAccept(r) \/ Project!SaveReject(r)
       \/ Project!DeleteMembership(r)
  BY <1>1, <1>2, <1>3, <1>4, <1>5, <1>6, <1>7, <1>8, <1>9, Zenon DEF Counts
<1> QED BY <1>10

\* The requests that end by saving the row, or a membership.
LEMMA Saved ==
  ASSUME BaseInv, NEW r \in ProjectRequests,
         Project!SaveEdit(r) \/ Project!SaveTransfer(r) \/ Project!SaveAccept(r) \/ Project!SaveReject(r)
  PROVE  /\ r \in Project!Running /\ writers[r].kind \in SavesRow /\ IsRow(writers[r].old)
         /\ Project!Done(r) /\ IsRow(row') /\ UNCHANGED <<members, likes, pairs, settled>>
         /\ row'.fans = writers[r].old.fans
<1> DEFINE old == writers[r].old
<1>1. r \in Project!Running /\ writers[r].kind \in SavesRow
  BY DEF Project!SaveEdit, Project!SaveTransfer, Project!SaveAccept, Project!SaveReject,
         Project!At, Project!Running, SavesRow
<1>2. IsRow(old) /\ (writers[r].kind # "edit" => writers[r].user \in Users)
  BY <1>1 DEF BaseInv, RequestOK, SavesRow
<1>3. \/ row' = old
      \/ row' = [old EXCEPT !.token = [by |-> r, to |-> writers[r].user]]
      \/ row' = [old EXCEPT !.token = Project!NoTransfer, !.owner = writers[r].user] /\ writers[r].user \in Users
      \/ row' = [old EXCEPT !.token = Project!NoTransfer]
  BY <1>2 DEF Project!SaveEdit, Project!SaveTransfer, Project!SaveAccept, Project!SaveReject,
              Project!SaveAll, Project!At
<1>4. IsRow(row') /\ row'.fans = old.fans
  <2> HIDE DEF old
  <2>1. ASSUME NEW token, token.by \in ProjectRequests \cup {None},
               row' = [old EXCEPT !.token = token]
        PROVE  IsRow(row') /\ row'.fans = old.fans
    BY <1>2, <2>1 DEF IsRow
  <2>2. ASSUME writers[r].user \in Users,
               row' = [old EXCEPT !.token = Project!NoTransfer, !.owner = writers[r].user]
        PROVE  IsRow(row') /\ row'.fans = old.fans
    BY <1>2, <2>2 DEF IsRow, Project!NoTransfer
  <2>3. [by |-> r, to |-> writers[r].user].by = r /\ Project!NoTransfer.by = None
    BY DEF Project!NoTransfer
  <2> QED BY <1>2, <1>3, <2>1, <2>2, <2>3
<1>5. Project!Done(r) /\ UNCHANGED <<members, likes, pairs, settled>>
  BY DEF Project!SaveEdit, Project!SaveTransfer, Project!SaveAccept, Project!SaveReject,
         Project!SaveAll
<1> QED BY <1>1, <1>2, <1>4, <1>5

LEMMA Promoted ==
  ASSUME BaseInv, NEW r \in ProjectRequests, Project!Promote(r)
  PROVE  /\ r \in Project!Running /\ writers[r].kind = "accept" /\ writers[r].user \in Users
         /\ DOMAIN writers' = ProjectRequests /\ \A q \in ProjectRequests \ {r} : writers'[q] = writers[q]
         /\ DOMAIN writers'[r] = RequestFields /\ writers'[r].step = "promoted"
         /\ writers'[r].kind = "accept" /\ writers'[r].user = writers[r].user
         /\ writers'[r].old = writers[r].old /\ writers'[r].alone = writers[r].alone
         /\ Project!Running' = Project!Running
<1>1. r \in Project!Running /\ writers[r].kind = "accept"
  BY DEF Project!Promote, Project!At, Project!Running
<1>2. writers[r].user \in Users
  BY <1>1 DEF BaseInv, RequestOK
<1>3. /\ DOMAIN writers' = ProjectRequests /\ \A q \in ProjectRequests \ {r} : writers'[q] = writers[q]
      /\ DOMAIN writers'[r] = RequestFields /\ writers'[r].step = "promoted"
      /\ writers'[r].kind = "accept" /\ writers'[r].user = writers[r].user
      /\ writers'[r].old = writers[r].old /\ writers'[r].alone = writers[r].alone
  BY DEF Project!Promote, Project!At, Project!To, BaseInv, RequestOK, RequestFields
<1>4. Project!Running' = Project!Running
  BY <1>1, <1>3 DEF Project!Running
<1> QED BY <1>1, <1>2, <1>3, <1>4

LEMMA MembershipDeleted ==
  ASSUME BaseInv, NEW r \in ProjectRequests, Project!DeleteMembership(r)
  PROVE  /\ r \in Project!Running /\ writers[r].kind \in {"leave", "demote"} /\ writers[r].user \in Users
         /\ Project!Done(r) /\ DOMAIN members' = Users
         /\ \A u \in Users \ {writers[r].user} : members'[u] = members[u]
         /\ UNCHANGED <<row, likes, pairs, decisions, settled>>
<1>1. r \in Project!Running /\ writers[r].kind \in {"leave", "demote"}
  BY DEF Project!DeleteMembership, Project!Running
<1>2. writers[r].user \in Users
  BY <1>1 DEF BaseInv, RequestOK
<1>3. \E role : members' = [members EXCEPT ![writers[r].user] = role]
  BY DEF Project!DeleteMembership
<1>4. DOMAIN members' = Users /\ \A u \in Users \ {writers[r].user} : members'[u] = members[u]
  BY <1>3 DEF BaseInv
<1>5. Project!Done(r) /\ UNCHANGED <<row, likes, pairs, decisions, settled>>
  BY DEF Project!DeleteMembership
<1> QED BY <1>1, <1>2, <1>4, <1>5

(***************************************************************************)
(* BaseInv is inductive.                                                   *)
(***************************************************************************)
LEMMA InitBase == None \notin ProjectRequests /\ Project!Init => BaseInv
<1> SUFFICES ASSUME Project!Init PROVE BaseInv
  OBVIOUS
<1>1. IsRow(row) /\ DOMAIN members = Users
  BY DEF Project!Init, IsRow
<1>2. /\ DOMAIN writers = ProjectRequests
      /\ \A r \in ProjectRequests : DOMAIN writers[r] = RequestFields /\ writers[r].step = "idle"
  BY DEF Project!Init, RequestFields
<1>3. decisions \in [ProjectRequests \cup {None} -> Nat]
  BY DEF Project!Init
<1> QED BY <1>1, <1>2, <1>3 DEF BaseInv, RequestOK, CrossedInv, Project!Running

\* One request ends; the others and their pairs are as they were.
LEMMA EndBase ==
  ASSUME BaseInv, NEW r \in ProjectRequests, Project!Done(r), IsRow(row'), DOMAIN members' = Users,
         decisions' \in [ProjectRequests \cup {None} -> Nat], pairs' = pairs
  PROVE  BaseInv'
<1>1. \A q \in ProjectRequests : RequestOK(q)'
  BY Ended DEF BaseInv, RequestOK, Project!Running
<1>2. CrossedInv'
  BY Ended DEF BaseInv, CrossedInv, Project!Running
<1> QED BY <1>1, <1>2, Ended DEF BaseInv

LEMMA AnswerCounted ==
  ASSUME BaseInv, NEW x \in ProjectRequests \cup {None},
         decisions' = [decisions EXCEPT ![x] = @ + 1]
  PROVE  decisions' \in [ProjectRequests \cup {None} -> Nat]
BY DEF BaseInv

LEMMA Begun ==
  ASSUME BaseInv, NEW r \in ProjectRequests, NEW kind, NEW user, NEW step, NEW old,
         Begins(r, kind, user, step, old)
  PROVE  /\ DOMAIN writers' = ProjectRequests
         /\ writers[r].step = "idle" /\ writers'[r].step = step
         /\ writers'[r].kind = kind /\ writers'[r].user = user /\ writers'[r].old = old
         /\ writers'[r].alone = (Project!Running = {}) /\ DOMAIN writers'[r] = RequestFields
         /\ \A q \in ProjectRequests \ {r} : /\ Kept(q) /\ writers'[q].alone = FALSE
                                      /\ DOMAIN writers'[q] = RequestFields
         /\ r \notin Project!Running /\ Project!Running' = Project!Running \cup {r}
         /\ \A q \in Project!Running : q \in ProjectRequests \ {r}
         /\ pairs \subseteq pairs'
         /\ \A q \in Project!Running : {kind, writers[q].kind} \in pairs'
         /\ settled' = FALSE /\ UNCHANGED <<row, members, likes, decisions>>
         /\ kind \in Project!Kinds /\ step \in {"liked", "found", "loaded", "promoted"}
         /\ step \in {"liked", "found"} => kind \in CountsLikes
         /\ kind \in SavesRow => old = row
         /\ kind \in {"start", "accept", "reject", "leave", "demote"} => user \in Users
<1>1. /\ Project!Start(r, kind, user, step, old) /\ UNCHANGED <<row, members, likes, decisions>>
      /\ kind \in Project!Kinds /\ step \in {"liked", "found", "loaded", "promoted"}
      /\ step \in {"liked", "found"} => kind \in CountsLikes
      /\ kind \in SavesRow => old = row
      /\ kind \in {"start", "accept", "reject", "leave", "demote"} => user \in Users
  BY DEF Begins, CountsLikes, SavesRow, Project!Kinds
<1>2. step \notin {"idle", "done"}
  BY <1>1
<1>3. \A q \in Project!Running : q \in ProjectRequests
  BY DEF Project!Running
<1> QED BY <1>1, <1>2, <1>3, Started

LEMMA NextBase == BaseInv /\ [Project!Next]_(Project!vars) => BaseInv'
<1> SUFFICES ASSUME BaseInv, [Project!Next]_(Project!vars) PROVE BaseInv'
  OBVIOUS
<1>1. ASSUME NEW r \in ProjectRequests, NEW kind, NEW user, NEW step, NEW old,
             Begins(r, kind, user, step, old)
      PROVE  BaseInv'
  <2>1. /\ writers'[r].step = step /\ writers'[r].kind = kind /\ writers'[r].user = user
        /\ writers'[r].old = old /\ DOMAIN writers'[r] = RequestFields
    BY <1>1, Begun
  <2>2. RequestOK(r)'
    <3>1. /\ kind \in Project!Kinds /\ step \in {"liked", "found", "loaded", "promoted"}
          /\ step \in {"liked", "found"} => kind \in CountsLikes
          /\ kind \in SavesRow => old = row
          /\ kind \in {"start", "accept", "reject", "leave", "demote"} => user \in Users
      BY <1>1 DEF Begins, CountsLikes, SavesRow, Project!Kinds
    <3>2. kind \in SavesRow => IsRow(old)
      BY <3>1 DEF BaseInv, IsRow
    <3> QED BY <2>1, <3>1, <3>2 DEF RequestOK
  <2>3. \A q \in ProjectRequests \ {r} : Kept(q) /\ DOMAIN writers'[q] = RequestFields
    BY <1>1, Begun
  <2>4. \A q \in ProjectRequests \ {r} : RequestOK(q)'
    BY <2>3 DEF RequestOK, BaseInv, Kept, Project!Running
  <2>5. /\ \A q \in Project!Running : q \in ProjectRequests \ {r} /\ writers'[q].kind = writers[q].kind
        /\ \A q \in Project!Running : {kind, writers[q].kind} \in pairs'
        /\ Project!Running' = Project!Running \cup {r} /\ pairs \subseteq pairs'
    BY <1>1, <2>3, Begun DEF Kept
  <2>6. \A x : {kind, x} = {x, kind}
    OBVIOUS
  <2>7. CrossedInv'
    <3>1. \A p, q \in Project!Running : p # q => {writers'[p].kind, writers'[q].kind} \in pairs'
      BY <2>5 DEF BaseInv, CrossedInv
    <3>2. \A q \in Project!Running : {writers'[r].kind, writers'[q].kind} \in pairs'
                            /\ {writers'[q].kind, writers'[r].kind} \in pairs'
      BY <2>1, <2>5, <2>6
    <3> QED BY <2>5, <3>1, <3>2 DEF CrossedInv
  <2> QED BY <1>1, <2>2, <2>4, <2>7, Begun DEF BaseInv
<1>2. ASSUME NEW r \in ProjectRequests, Counts(r)
      PROVE  BaseInv'
  <2>1. \A q \in ProjectRequests \ {r} : RequestOK(q)'
    BY <1>2, LikesCounted DEF Counts, BaseInv, RequestOK, Project!Running
  <2>2. RequestOK(r)'
    BY <1>2, LikesCounted DEF Counts, BaseInv, RequestOK, Project!Running, CountsLikes, SavesRow,
                              Project!Kinds
  <2>3. CrossedInv'
    BY <1>2, LikesCounted DEF Counts, BaseInv, CrossedInv, Project!Running
  <2> QED BY <1>2, <2>1, <2>2, <2>3, LikesCounted DEF Counts, BaseInv
<1>3. ASSUME NEW r \in ProjectRequests,
             Project!SaveEdit(r) \/ Project!SaveTransfer(r) \/ Project!SaveAccept(r) \/ Project!SaveReject(r)
      PROVE  BaseInv'
  <2>1. decisions' \in [ProjectRequests \cup {None} -> Nat]
    <3>1. writers[r].old.token.by \in ProjectRequests \cup {None}
      BY <1>3, Saved DEF IsRow
    <3> QED BY <1>3, <3>1, AnswerCounted DEF Project!SaveEdit, Project!SaveTransfer,
                                             Project!SaveAccept, Project!SaveReject, BaseInv
  <2> QED BY <1>3, <2>1, Saved, EndBase DEF BaseInv
<1>4. ASSUME NEW r \in ProjectRequests, Project!Promote(r)
      PROVE  BaseInv'
  <2>1. DOMAIN members' = Users /\ UNCHANGED <<row, pairs, decisions>>
    BY <1>4 DEF Project!Promote, BaseInv
  <2>2. \A q \in ProjectRequests : RequestOK(q)'
    BY <1>4, Promoted DEF BaseInv, RequestOK, Project!Running
  <2>3. CrossedInv'
    BY <1>4, <2>1, Promoted DEF BaseInv, CrossedInv, Project!Running
  <2> QED BY <1>4, <2>1, <2>2, <2>3, Promoted DEF BaseInv
<1>5. ASSUME NEW r \in ProjectRequests, Project!DeleteMembership(r)
      PROVE  BaseInv'
  BY <1>5, MembershipDeleted, EndBase DEF BaseInv
<1>6. CASE UNCHANGED Project!vars
  BY <1>6 DEF Project!vars, BaseInv, RequestOK, CrossedInv, Project!Running
<1> QED BY <1>1, <1>2, <1>3, <1>4, <1>5, <1>6, NextSorted

(***************************************************************************)
(* The owner is an administrator.                                          *)
(***************************************************************************)
\* The overlaps that OwnerIsAdmin excepts.
OwnerCrossed == \E kind \in {"leave", "demote", "start", "edit", "reject"} : {"accept", kind} \in pairs

\* The requests that will save the row have the owner it has; the owner does not leave; who
\* accepts is an administrator by now.
OwnerOK ==
  /\ members[row.owner] = "admin"
  /\ \A r \in Project!Running :
       /\ writers[r].kind \in {"edit", "start", "reject"} => writers[r].old.owner = row.owner
       /\ writers[r].kind \in {"leave", "demote"} => writers[r].user # row.owner
       /\ writers[r].kind = "accept" /\ writers[r].step = "promoted" =>
            members[writers[r].user] = "admin"

OwnerInv == OwnerCrossed \/ OwnerOK

LEMMA AcceptAlone ==
  ASSUME BaseInv, ~ OwnerCrossed, NEW r \in Project!Running, writers[r].kind = "accept",
         NEW q \in Project!Running, q # r
  PROVE  writers[q].kind \notin {"leave", "demote", "start", "edit", "reject"}
BY DEF BaseInv, CrossedInv, OwnerCrossed

LEMMA PairsStay == BaseInv /\ [Project!Next]_(Project!vars) => pairs \subseteq pairs'
<1> SUFFICES ASSUME BaseInv, [Project!Next]_(Project!vars) PROVE pairs \subseteq pairs'
  OBVIOUS
<1>1. ASSUME NEW r \in ProjectRequests, NEW kind, NEW user, NEW step, NEW old,
             Begins(r, kind, user, step, old)
      PROVE  pairs \subseteq pairs'
  BY <1>1 DEF Begins, Project!Start
<1>2. ASSUME NEW r \in ProjectRequests,
             \/ Counts(r) \/ Project!SaveEdit(r) \/ Project!SaveTransfer(r) \/ Project!Promote(r)
             \/ Project!SaveAccept(r) \/ Project!SaveReject(r)
               \/ Project!DeleteMembership(r)
      PROVE  pairs' = pairs
  BY <1>2 DEF Counts, Project!First, Project!DeleteLike, Project!CountFans, Project!SaveTotals,
              Project!SaveEdit, Project!SaveTransfer, Project!Promote,
    Project!SaveAccept, Project!SaveReject, Project!DeleteMembership
<1>3. CASE UNCHANGED Project!vars
  BY <1>3 DEF Project!vars
<1> QED BY <1>1, <1>2, <1>3, NextSorted

LEMMA NextOwner == BaseInv /\ OwnerInv /\ [Project!Next]_(Project!vars) => OwnerInv'
<1> SUFFICES ASSUME BaseInv, OwnerOK, ~ OwnerCrossed, ~ OwnerCrossed', [Project!Next]_(Project!vars)
             PROVE  OwnerOK'
  <2>1. BaseInv /\ OwnerCrossed /\ [Project!Next]_(Project!vars) => OwnerCrossed'
    BY PairsStay DEF OwnerCrossed
  <2> QED BY <2>1 DEF OwnerInv
<1>1. ASSUME NEW r \in ProjectRequests, NEW kind, NEW user, NEW step, NEW old,
             Begins(r, kind, user, step, old)
      PROVE  OwnerOK'
  <2>1. /\ \A q \in ProjectRequests \ {r} : Kept(q)
        /\ \A q \in Project!Running : q \in ProjectRequests \ {r}
        /\ writers'[r].step = step /\ writers'[r].kind = kind /\ writers'[r].user = user
        /\ writers'[r].old = old
        /\ Project!Running' = Project!Running \cup {r} /\ UNCHANGED <<row, members>>
    BY <1>1, Begun
  <2>2. /\ kind \in {"edit", "start", "reject"} => old = row
        /\ kind \in {"leave", "demote"} => user \in Users /\ Project!CanLeave(user)
        /\ kind = "accept" /\ step = "promoted" => members[user] = "admin"
    BY <1>1 DEF Begins, CountsLikes
  <2>3. kind \in {"leave", "demote"} => user # row.owner
    BY <2>2 DEF Project!CanLeave, OwnerOK
  <2> QED BY <2>1, <2>2, <2>3 DEF OwnerOK, Kept
<1>2. ASSUME NEW r \in ProjectRequests, Counts(r)
      PROVE  OwnerOK'
  <2>1. /\ \A q \in ProjectRequests \ {r} : writers'[q] = writers[q]
        /\ writers'[r].kind \in CountsLikes \/ r \notin Project!Running'
        /\ Project!Running' \subseteq Project!Running /\ members' = members
        /\ row'.owner = row.owner
    BY <1>2, LikesCounted DEF Counts
  <2> QED BY <2>1 DEF OwnerOK, CountsLikes, Project!Running
<1>3. ASSUME NEW r \in ProjectRequests,
             Project!SaveEdit(r) \/ Project!SaveTransfer(r) \/ Project!SaveReject(r)
      PROVE  OwnerOK'
  <2>1. /\ \A q \in ProjectRequests \ {r} : writers'[q] = writers[q]
        /\ Project!Running' = Project!Running \ {r} /\ members' = members
        /\ r \in Project!Running /\ IsRow(writers[r].old)
    BY <1>3, Saved, Ended
  <2>2. writers[r].kind \in {"edit", "start", "reject"}
    BY <1>3 DEF Project!SaveEdit, Project!SaveTransfer, Project!SaveReject, Project!At
  <2>3. row'.owner = writers[r].old.owner
    BY <1>3, <2>1 DEF Project!SaveEdit, Project!SaveTransfer, Project!SaveReject, Project!SaveAll,
                      IsRow
  <2> QED BY <2>1, <2>2, <2>3 DEF OwnerOK, Project!Running
<1>4. ASSUME NEW r \in ProjectRequests, Project!SaveAccept(r)
      PROVE  OwnerOK'
  <2>1. /\ \A q \in ProjectRequests \ {r} : writers'[q] = writers[q]
        /\ Project!Running' = Project!Running \ {r} /\ members' = members
        /\ r \in Project!Running /\ IsRow(writers[r].old)
    BY <1>4, Saved, Ended
  <2>2. writers[r].kind = "accept" /\ writers[r].step = "promoted"
    BY <1>4 DEF Project!SaveAccept, Project!At
  <2>3. row'.owner = writers[r].user
    BY <1>4, <2>1 DEF Project!SaveAccept, Project!SaveAll, IsRow
  <2>4. \A q \in Project!Running' : writers'[q].kind \notin {"leave", "demote", "start", "edit", "reject"}
    BY <2>1, <2>2, AcceptAlone DEF Project!Running
  <2> QED BY <2>1, <2>2, <2>3, <2>4 DEF OwnerOK, Project!Running
<1>5. ASSUME NEW r \in ProjectRequests, Project!Promote(r)
      PROVE  OwnerOK'
  <2>1. row' = row /\ members' = [members EXCEPT ![writers[r].user] = "admin"]
    BY <1>5 DEF Project!Promote
  <2>2. \A u : members[u] = "admin" /\ u \in Users => members'[u] = "admin"
    BY <2>1 DEF BaseInv
  <2>3. members'[writers[r].user] = "admin"
    BY <1>5, <2>1, Promoted DEF BaseInv
  <2>4. \A q \in Project!Running : writers[q].kind = "accept" => writers[q].user \in Users
    BY DEF BaseInv, RequestOK, Project!Running
  <2> QED BY <1>5, <2>1, <2>2, <2>3, <2>4, Promoted DEF OwnerOK, Project!Running, BaseInv, IsRow
<1>6. ASSUME NEW r \in ProjectRequests, Project!DeleteMembership(r)
      PROVE  OwnerOK'
  <2>1. /\ \A q \in ProjectRequests \ {r} : writers'[q] = writers[q]
        /\ Project!Running' = Project!Running \ {r} /\ row' = row /\ r \in Project!Running
        /\ \A u \in Users \ {writers[r].user} : members'[u] = members[u]
        /\ writers[r].kind \in {"leave", "demote"}
    BY <1>6, MembershipDeleted, Ended
  <2>2. members'[row.owner] = "admin"
    BY <2>1 DEF OwnerOK, BaseInv, IsRow
  <2>3. \A q \in Project!Running' : writers'[q].kind # "accept"
    BY <2>1, AcceptAlone DEF Project!Running
  <2> QED BY <2>1, <2>2, <2>3 DEF OwnerOK, Project!Running
<1>7. CASE UNCHANGED Project!vars
  BY <1>7 DEF Project!vars, OwnerOK, Project!Running
<1> QED BY <1>1, <1>2, <1>3, <1>4, <1>5, <1>6, <1>7, NextSorted

LEMMA InitOwner == None \notin ProjectRequests /\ Project!Init => BaseInv /\ OwnerInv
<1>1. Project!Init => OwnerInv
  BY DEF Project!Init, OwnerInv, OwnerOK, Project!Running
<1> QED BY <1>1, InitBase

LEMMA OwnerExplained == OwnerInv => Project!OwnerIsAdmin
BY DEF OwnerInv, OwnerOK, OwnerCrossed, Project!OwnerIsAdmin

(***************************************************************************)
(* A transfer is decided once.                                             *)
(***************************************************************************)
\* The overlaps that DecidedOnce excepts.
AnswerCrossed ==
  \/ \E answers \in (SUBSET {"accept", "reject"}) \ {{}} : answers \in pairs
  \/ \E answer \in {"accept", "reject"} : {"edit", answer} \in pairs

Pending(x) == x.token.to # None

\* No pending transfer that is in the row, or that an edit or an answer has loaded, has been
\* decided; a request that is not over has started none.
DecidedOK ==
  /\ \A x \in ProjectRequests \cup {None} : decisions[x] <= 1
  /\ Pending(row) => decisions[row.token.by] = 0
  /\ \A r \in Project!Running :
       /\ writers[r].kind = "edit" /\ Pending(writers[r].old) => decisions[writers[r].old.token.by] = 0
       /\ writers[r].kind \in {"accept", "reject"} => decisions[writers[r].old.token.by] = 0
  /\ \A r \in ProjectRequests : writers[r].step # "done" =>
       /\ decisions[r] = 0 /\ row.token.by # r
       /\ \A q \in Project!Running : writers[q].kind \in SavesRow => writers[q].old.token.by # r

DecidedInv == AnswerCrossed \/ DecidedOK

LEMMA AnswerAlone ==
  ASSUME BaseInv, ~ AnswerCrossed, NEW r \in Project!Running,
         writers[r].kind \in {"accept", "reject"},
         NEW q \in Project!Running, q # r
  PROVE  writers[q].kind \notin {"accept", "reject", "edit"}
<1>1. {writers[r].kind, writers[q].kind} \in pairs
  BY DEF BaseInv, CrossedInv
<1>2. ASSUME writers[q].kind \in {"accept", "reject"} PROVE FALSE
  <2>1. {writers[r].kind, writers[q].kind} \in (SUBSET {"accept", "reject"}) \ {{}}
    BY <1>2
  <2> QED BY <1>1, <2>1 DEF AnswerCrossed
<1>3. ASSUME writers[q].kind = "edit" PROVE FALSE
  <2>1. {writers[r].kind, writers[q].kind} = {"edit", writers[r].kind}
    BY <1>3
  <2> QED BY <1>1, <2>1 DEF AnswerCrossed
<1> QED BY <1>2, <1>3

LEMMA NextDecided ==
  ASSUME None \notin Users \cup ProjectRequests
  PROVE  BaseInv /\ DecidedInv /\ [Project!Next]_(Project!vars) => DecidedInv'
<1> SUFFICES ASSUME BaseInv, DecidedOK, ~ AnswerCrossed, ~ AnswerCrossed',
                    [Project!Next]_(Project!vars) PROVE DecidedOK'
  <2>1. BaseInv /\ AnswerCrossed /\ [Project!Next]_(Project!vars) => AnswerCrossed'
    BY PairsStay DEF AnswerCrossed
  <2> QED BY <2>1 DEF DecidedInv
<1>1. ASSUME NEW r \in ProjectRequests, NEW kind, NEW user, NEW step, NEW old,
             Begins(r, kind, user, step, old)
      PROVE  DecidedOK'
  <2>1. /\ \A q \in ProjectRequests \ {r} : Kept(q)
        /\ \A q \in Project!Running : q \in ProjectRequests \ {r}
        /\ writers'[r].step = step /\ writers'[r].kind = kind
        /\ writers'[r].old = old /\ writers[r].step = "idle"
        /\ Project!Running' = Project!Running \cup {r} /\ UNCHANGED <<row, decisions>>
    BY <1>1, Begun
  <2>2. /\ kind \in SavesRow => old = row
        /\ kind \in {"accept", "reject"} => Pending(row)
    BY <1>1 DEF Begins, CountsLikes, SavesRow, Project!Valid, Pending
  <2>3. \A x \in ProjectRequests \cup {None} : decisions'[x] <= 1
    BY <2>1 DEF DecidedOK
  <2>4. Pending(row') => decisions'[row'.token.by] = 0
    BY <2>1 DEF DecidedOK, Pending
  <2>5. \A q \in Project!Running' :
          /\ writers'[q].kind = "edit" /\ Pending(writers'[q].old) => decisions'[writers'[q].old.token.by] = 0
          /\ writers'[q].kind \in {"accept", "reject"} => decisions'[writers'[q].old.token.by] = 0
    BY <2>1, <2>2 DEF DecidedOK, Pending, Kept, SavesRow
  <2>6. \A p \in ProjectRequests : writers'[p].step # "done" =>
          /\ decisions'[p] = 0 /\ row'.token.by # p
          /\ \A q \in Project!Running' : writers'[q].kind \in SavesRow => writers'[q].old.token.by # p
    <3>1. \A p \in ProjectRequests : writers'[p].step # "done" => writers[p].step # "done"
      BY <2>1 DEF Kept
    <3> QED BY <2>1, <2>2, <3>1 DEF DecidedOK, Kept
  <2> QED BY <2>3, <2>4, <2>5, <2>6 DEF DecidedOK, Pending
<1>2. ASSUME NEW r \in ProjectRequests, Counts(r)
      PROVE  DecidedOK'
  <2>1. /\ \A q \in ProjectRequests \ {r} : writers'[q] = writers[q]
        /\ writers'[r].kind \in CountsLikes \/ r \notin Project!Running'
        /\ writers[r].step # "done"
        /\ Project!Running' \subseteq Project!Running /\ decisions' = decisions
        /\ row'.token = row.token
    BY <1>2, LikesCounted DEF Counts, Project!Running
  <2> QED BY <2>1 DEF DecidedOK, CountsLikes, SavesRow, Project!Running, Pending
<1>3. ASSUME NEW r \in ProjectRequests, Project!SaveEdit(r)
      PROVE  DecidedOK'
  <2>1. /\ \A q \in ProjectRequests \ {r} : writers'[q] = writers[q]
        /\ Project!Running' = Project!Running \ {r} /\ r \in Project!Running
        /\ writers[r].kind = "edit"
        /\ writers'[r].step = "done"
        /\ row' = writers[r].old /\ decisions' = decisions
    BY <1>3, Saved, Ended DEF Project!SaveEdit, Project!SaveAll, Project!At
  <2> QED BY <2>1 DEF DecidedOK, SavesRow, Project!Running, Pending
<1>4. ASSUME NEW r \in ProjectRequests, Project!SaveTransfer(r)
      PROVE  DecidedOK'
  <2>1. /\ \A q \in ProjectRequests \ {r} : writers'[q] = writers[q]
        /\ Project!Running' = Project!Running \ {r} /\ r \in Project!Running
        /\ writers'[r].step = "done"
        /\ decisions' = decisions /\ IsRow(writers[r].old)
    BY <1>4, Saved, Ended DEF Project!SaveTransfer
  <2>2. row'.token.by = r
    BY <1>4, <2>1 DEF Project!SaveTransfer, Project!SaveAll, IsRow
  <2>3. decisions[r] = 0
    BY <2>1 DEF DecidedOK, Project!Running
  <2> QED BY <2>1, <2>2, <2>3 DEF DecidedOK, SavesRow, Project!Running, Pending
<1>5. ASSUME NEW r \in ProjectRequests, Project!SaveAccept(r) \/ Project!SaveReject(r)
      PROVE  DecidedOK'
  <2> DEFINE x == writers[r].old.token.by
  <2>1. /\ \A q \in ProjectRequests \ {r} : writers'[q] = writers[q]
        /\ Project!Running' = Project!Running \ {r} /\ r \in Project!Running
        /\ writers'[r].step = "done"
        /\ IsRow(writers[r].old)
    BY <1>5, Saved, Ended
  <2>2. writers[r].kind \in {"accept", "reject"} /\ decisions' = [decisions EXCEPT ![x] = @ + 1]
    BY <1>5 DEF Project!SaveAccept, Project!SaveReject, Project!At
  <2>3. row'.token = Project!NoTransfer
    BY <1>5, <2>1 DEF Project!SaveAccept, Project!SaveReject, Project!SaveAll, IsRow
  <2>4. x \in ProjectRequests \cup {None} /\ decisions[x] = 0
    BY <2>1, <2>2 DEF DecidedOK, IsRow
  <2>5. \A p \in ProjectRequests : writers[p].step # "done" => x # p
    BY <2>1, <2>2 DEF DecidedOK, SavesRow
  <2>6. /\ \A y \in ProjectRequests \cup {None} : decisions'[y] <= 1
        /\ \A y \in ProjectRequests \cup {None} : y # x => decisions'[y] = decisions[y]
    <3> HIDE DEF x
    <3> QED BY <2>2, <2>4 DEF DecidedOK, BaseInv
  <2>7. \A q \in Project!Running' : writers'[q].kind \notin {"accept", "reject", "edit"}
    BY <2>1, <2>2, AnswerAlone DEF Project!Running
  <2>8. ~ Pending(row') /\ row'.token.by = None
    BY <2>3 DEF Pending, Project!NoTransfer
  <2>9. \A p \in ProjectRequests : writers'[p].step # "done" =>
          /\ decisions'[p] = 0 /\ row'.token.by # p
          /\ \A q \in Project!Running' : writers'[q].kind \in SavesRow => writers'[q].old.token.by # p
    BY <2>1, <2>5, <2>6, <2>8 DEF DecidedOK, Project!Running
  <2> QED BY <2>6, <2>7, <2>8, <2>9 DEF DecidedOK, Pending
<1>6. ASSUME NEW r \in ProjectRequests, Project!Promote(r)
      PROVE  DecidedOK'
  <2>1. UNCHANGED <<row, decisions>>
    BY <1>6 DEF Project!Promote
  <2> QED BY <1>6, <2>1, Promoted DEF DecidedOK, Project!Running, Pending, SavesRow
<1>7. ASSUME NEW r \in ProjectRequests, Project!DeleteMembership(r)
      PROVE  DecidedOK'
  <2>1. /\ \A q \in ProjectRequests \ {r} : writers'[q] = writers[q]
        /\ Project!Running' = Project!Running \ {r} /\ UNCHANGED <<row, decisions>>
        /\ writers'[r].step = "done"
    BY <1>7, MembershipDeleted, Ended
  <2> QED BY <2>1 DEF DecidedOK, Project!Running, Pending
<1>8. CASE UNCHANGED Project!vars
  BY <1>8 DEF Project!vars, DecidedOK, Project!Running, Pending
<1> QED BY <1>1, <1>2, <1>3, <1>4, <1>5, <1>6, <1>7, <1>8, NextSorted

LEMMA InitDecided == None \notin Users \cup ProjectRequests /\ Project!Init => DecidedInv
<1> SUFFICES ASSUME None \notin Users \cup ProjectRequests, Project!Init PROVE DecidedInv
  OBVIOUS
<1>1. DecidedOK
  BY DEF Project!Init, DecidedOK, Project!Running, Pending, SavesRow
<1> QED BY <1>1 DEF DecidedInv

LEMMA DecidedExplained == DecidedInv => Project!DecidedOnce
BY Zenon DEF DecidedInv, DecidedOK, AnswerCrossed, Project!DecidedOnce

(***************************************************************************)
(* Totals.                                                                 *)
(***************************************************************************)
\* A request that has been alone so far is the only one, and has counted right; when the last
\* one was alone, the total is right.
FansInv ==
  /\ \A r \in Project!Running : writers[r].alone =>
       /\ Project!Running = {r}
       /\ writers[r].step = "counted" => writers[r].count = Project!Cardinality(Project!LikesSeen(r))
  /\ settled => Project!Running = {} /\ row.fans = Project!Cardinality(likes)

\* Where one request ends that has not counted, none is settled and none was alone but it.
LEMMA EndFans ==
  ASSUME BaseInv, FansInv, NEW r \in Project!Running, Project!Done(r), settled' = settled
  PROVE  FansInv'
<1>1. /\ \A q \in ProjectRequests \ {r} : writers'[q] = writers[q]
      /\ Project!Running' = Project!Running \ {r}
  BY Ended DEF Project!Running
<1>2. ~ settled /\ \A q \in Project!Running' : ~ writers'[q].alone
  BY <1>1 DEF FansInv, Project!Running
<1> QED BY <1>2 DEF FansInv

LEMMA NextFans == BaseInv /\ FansInv /\ [Project!Next]_(Project!vars) => FansInv'
<1> SUFFICES ASSUME BaseInv, FansInv, [Project!Next]_(Project!vars) PROVE FansInv'
  OBVIOUS
<1>1. ASSUME NEW r \in ProjectRequests, NEW kind, NEW user, NEW step, NEW old,
             Begins(r, kind, user, step, old)
      PROVE  FansInv'
  <2>1. /\ \A q \in ProjectRequests \ {r} : writers'[q].alone = FALSE
        /\ \A q \in Project!Running : q \in ProjectRequests \ {r}
        /\ writers'[r].step = step /\ step # "counted"
        /\ writers'[r].alone = (Project!Running = {})
        /\ Project!Running' = Project!Running \cup {r} /\ settled' = FALSE
    BY <1>1, Begun
  <2>2. \A q \in Project!Running' : writers'[q].alone => q = r /\ Project!Running = {}
    BY <2>1
  <2> QED BY <2>1, <2>2 DEF FansInv
<1>2. ASSUME NEW r \in Project!Running, r \in ProjectRequests, Project!Running' = Project!Running,
             UNCHANGED <<settled, likes, row>>,
             \A q \in ProjectRequests \ {r} : writers'[q] = writers[q],
             writers'[r].alone = writers[r].alone,
             writers'[r].step = "counted" => writers'[r].count = Project!Cardinality(Project!LikesSeen(r)')
      PROVE  FansInv'
  BY <1>2 DEF FansInv, Project!Running
<1>3. ASSUME NEW r \in ProjectRequests, Project!First(r)
      PROVE  FansInv'
  <2>1. r \in Project!Running /\ UNCHANGED <<settled, likes, row>>
    BY <1>3 DEF Project!First, Project!At, Project!Running
  <2>2. CASE Project!Done(r)
    BY <2>1, <2>2, EndFans
  <2>3. CASE Project!To(r, "held")
    <3>1. writers'[r].step = "held" /\ writers'[r].alone = writers[r].alone
      BY <2>3 DEF Project!To, BaseInv, RequestOK, RequestFields
    <3>2. Project!Running' = Project!Running /\ \A q \in ProjectRequests \ {r} : writers'[q] = writers[q]
      BY <1>3, <2>1, <3>1, LikesCounted DEF Project!Running
    <3> QED BY <1>2, <2>1, <3>1, <3>2
  <2> QED BY <1>3, <2>2, <2>3 DEF Project!First
<1>4. ASSUME NEW r \in ProjectRequests, Project!DeleteLike(r)
      PROVE  FansInv'
  <2>1. r \in Project!Running /\ UNCHANGED <<settled, likes, row>>
    BY <1>4 DEF Project!DeleteLike, Project!At, Project!Running
  <2>2. writers'[r].step = "unliked" /\ writers'[r].alone = writers[r].alone
    BY <1>4 DEF Project!DeleteLike, BaseInv, RequestOK, RequestFields
  <2>3. Project!Running' = Project!Running /\ \A q \in ProjectRequests \ {r} : writers'[q] = writers[q]
    BY <1>4, <2>1, <2>2, LikesCounted DEF Project!Running
  <2> QED BY <1>2, <2>1, <2>2, <2>3
<1>5. ASSUME NEW r \in ProjectRequests, Project!CountFans(r)
      PROVE  FansInv'
  <2>1. r \in Project!Running /\ UNCHANGED <<settled, likes, row>>
    BY <1>5, LikesCounted DEF Project!CountFans
  <2>2. /\ writers'[r].step = "counted" /\ writers'[r].alone = writers[r].alone
        /\ writers'[r].count = Project!Cardinality(Project!LikesSeen(r))
        /\ writers'[r].kind = writers[r].kind /\ writers'[r].user = writers[r].user
        /\ writers'[r].wrote = writers[r].wrote
    BY <1>5 DEF Project!CountFans, BaseInv, RequestOK, RequestFields
  <2>3. Project!Running' = Project!Running /\ \A q \in ProjectRequests \ {r} : writers'[q] = writers[q]
    BY <1>5, <2>1, <2>2, LikesCounted DEF Project!Running
  <2>4. Project!LikesSeen(r)' = Project!LikesSeen(r)
    BY <2>1, <2>2 DEF Project!LikesSeen
  <2> QED BY <1>2, <2>1, <2>2, <2>3, <2>4
<1>6. ASSUME NEW r \in ProjectRequests, Project!SaveTotals(r)
      PROVE  FansInv'
  <2>1. /\ r \in Project!Running /\ writers[r].step = "counted" /\ Project!Done(r)
        /\ likes' = Project!LikesSeen(r) /\ settled' = writers[r].alone
    BY <1>6 DEF Project!SaveTotals, Project!Running
  <2>2. row'.fans = writers[r].count
    BY <1>6 DEF Project!SaveTotals, BaseInv, IsRow
  <2>3. /\ \A q \in ProjectRequests \ {r} : writers'[q] = writers[q]
        /\ Project!Running' = Project!Running \ {r}
    BY <2>1, Ended
  <2>4. CASE writers[r].alone
    BY <2>1, <2>2, <2>3, <2>4 DEF FansInv
  <2>5. CASE ~ writers[r].alone
    <3>1. \A q \in Project!Running' : ~ writers'[q].alone
      BY <2>1, <2>3 DEF FansInv, Project!Running
    <3> QED BY <2>1, <2>5, <3>1 DEF FansInv
  <2> QED BY <2>4, <2>5
<1>7. ASSUME NEW r \in ProjectRequests,
             Project!SaveEdit(r) \/ Project!SaveTransfer(r) \/ Project!SaveAccept(r) \/ Project!SaveReject(r)
      PROVE  FansInv'
  BY <1>7, Saved, EndFans
<1>8. ASSUME NEW r \in ProjectRequests, Project!Promote(r)
      PROVE  FansInv'
  BY <1>2, <1>8, Promoted DEF Project!Promote
<1>9. ASSUME NEW r \in ProjectRequests, Project!DeleteMembership(r)
      PROVE  FansInv'
  BY <1>9, MembershipDeleted, EndFans
<1>10. CASE UNCHANGED Project!vars
  BY <1>10 DEF Project!vars, FansInv, Project!Running, Project!LikesSeen
<1> QED BY <1>1, <1>3, <1>4, <1>5, <1>6, <1>7, <1>8, <1>9, <1>10, NextSorted DEF Counts

LEMMA SameCount == \A S : Project!Cardinality(S) = Cardinality(S)
BY DEF Cardinality, Project!Cardinality

LEMMA InitFans == Project!Init => FansInv
<1> SUFFICES ASSUME Project!Init PROVE FansInv
  OBVIOUS
<1>1. Project!Running = {} /\ row.fans = 0 /\ likes = {}
  BY DEF Project!Init, Project!Running
<1> QED BY <1>1, FS_EmptySet, SameCount DEF FansInv

LEMMA FansExplained == FansInv => Project!LoneRecountHeals
BY DEF FansInv, Project!LoneRecountHeals

-----------------------------------------------------------------------------
\* A part that runs holds its invariant; what the others do does not concern it.
ProjectInv == what = "project" => /\ BaseInv /\ OwnerInv
                                  /\ DecidedInv /\ FansInv

\* The invariant of the project row: the first three theorems.
LEMMA ProjectInvariant == Spec => []ProjectInv
<1>1. Init => ProjectInv
  <2> SUFFICES ASSUME Project!Init
               PROVE  BaseInv /\ OwnerInv /\ DecidedInv /\ FansInv
    BY DEF Init, ProjectInv
  <2> QED BY NoneAssumption, InitOwner, InitDecided, InitFans
<1>2. ProjectInv /\ [Next]_serverVars => ProjectInv'
  <2> SUFFICES ASSUME ProjectInv, [Next]_serverVars, what' = "project" PROVE ProjectInv'
    BY DEF ProjectInv
  <2>1. what = "project" /\ [Project!Next]_(Project!vars)
    BY DEF Next, serverVars, projectVars, Project!vars
  <2> QED BY <2>1, NoneAssumption, NextBase, NextOwner, NextDecided,
             NextFans DEF ProjectInv
<1> QED BY <1>1, <1>2, PTL DEF Spec, serverVars

\* The owner of a project stays one of its administrators, for any number of members and requests,
\* but for the overlaps of an accepted transfer that the property names.
THEOREM OwnerStays == Spec => []OwnerIsAdmin
<1>1. ProjectInv => OwnerIsAdmin
  BY OwnerExplained DEF ProjectInv, OwnerIsAdmin
<1> QED BY <1>1, ProjectInvariant, PTL

\* A transfer is answered once, for any number of members and requests, but for the overlaps of
\* answers and edits that the property names.
THEOREM AnsweredOnce == Spec => []DecidedOnce
<1>1. ProjectInv => DecidedOnce
  BY DecidedExplained DEF ProjectInv, DecidedOnce
<1> QED BY <1>1, ProjectInvariant, PTL

\* Totals that overlapping likes left wrong are right after the next request that no other one
\* overlapped, for any number of users and requests.
THEOREM TotalsComeRight == Spec => []LoneRecountHeals
<1>1. ProjectInv => LoneRecountHeals
  BY FansExplained DEF ProjectInv, LoneRecountHeals
<1> QED BY <1>1, ProjectInvariant, PTL

-----------------------------------------------------------------------------
(* The signal handlers of the server processes.                             *)

Domains == DOMAIN on = Processes /\ DOMAIN work = Processes /\ DOMAIN causes = Processes
           /\ DOMAIN tasks = HandledTasks

\* What the request that a process is at has disconnected.
Missing(p) == IF Handlers!Free(p) THEN {} ELSE Handlers!Off(work[p].kind)

\* Handlers are missing because of the request at work, or of a cause; the work is of a kind.
Explained(p) ==
  /\ \A h \in Handlers!Handlers \ on[p] :
       h \in Missing(p) \/ \E cause \in causes[p] : h \in Handlers!Lost(cause)
  /\ Handlers!Free(p) \/ work[p].kind \in Handlers!Kinds
  /\ DOMAIN work[p] = {"kind", "step"}

ConnectedInv == Domains /\ \A p \in Processes : Explained(p)

(***************************************************************************)
(* The table of what each kind of request connects and disconnects.        *)
(***************************************************************************)
LEMMA KindsOfHandlers ==
  ASSUME NEW kind \in Handlers!Kinds
  PROVE  /\ Handlers!Off(kind) \subseteq Handlers!On(kind)
         /\ kind \notin Handlers!Guarded =>
              kind \in {"delete story", "duplicate"} /\ Handlers!Off(kind) = Handlers!Lost(kind)
BY DEF Handlers!Kinds, Handlers!Off, Handlers!On, Handlers!Handlers, Handlers!TaskHandlers,
       Handlers!StoryHandlers, Handlers!IssueHandlers, Handlers!Guarded, Handlers!Lost

LEMMA LostByImport ==
  /\ Handlers!Lost("import task") = {"finish task"}
  /\ Handlers!Lost("import issue") = {"finish issue"}
BY DEF Handlers!Lost

LEMMA AtWork ==
  ASSUME NEW p \in Processes, work[p].kind \in Handlers!Kinds
  PROVE  ~ Handlers!Free(p) /\ Missing(p) = Handlers!Off(work[p].kind)
<1>1. "none" \notin Handlers!Kinds
  BY DEF Handlers!Kinds
<1>2. Handlers!Idle.kind = "none"
  BY DEF Handlers!Idle
<1>3. ~ Handlers!Free(p)
  BY <1>1, <1>2 DEF Handlers!Free
<1> QED BY <1>3 DEF Missing

LEMMA AtWorkNext ==
  ASSUME NEW p \in Processes, work'[p].kind \in Handlers!Kinds
  PROVE  Missing(p)' = Handlers!Off(work'[p].kind)
<1>1. "none" \notin Handlers!Kinds
  BY DEF Handlers!Kinds
<1>2. Handlers!Idle.kind = "none"
  BY DEF Handlers!Idle
<1>3. ~ Handlers!Free(p)'
  BY <1>1, <1>2 DEF Handlers!Free
<1> QED BY <1>3 DEF Missing

LEMMA GoneIsGone == ~ Handlers!Gone.exists
BY DEF Handlers!Gone

LEMMA InitHandlers == Handlers!Init => ConnectedInv
BY DEF Handlers!Init, ConnectedInv, Domains, Explained, Missing, Handlers!Free, Handlers!Idle

(***************************************************************************)
(* One step of a process.                                                  *)
(***************************************************************************)
LEMMA OthersStay ==
  ASSUME ConnectedInv, NEW p \in Processes, Domains', Explained(p)',
         \A q \in Processes \ {p} : on'[q] = on[q] /\ work'[q] = work[q] /\ causes'[q] = causes[q]
  PROVE  ConnectedInv'
<1>1. \A q \in Processes \ {p} : Explained(q)'
  BY DEF ConnectedInv, Explained, Missing, Handlers!Free
<1> QED BY <1>1 DEF ConnectedInv

LEMMA FinishKeepsTasks ==
  ASSUME ConnectedInv, NEW p \in Processes, Handlers!Finish(p)
  PROVE  DOMAIN tasks' = HandledTasks
BY DEF ConnectedInv, Domains, Handlers!Finish, Handlers!BulkTasks, Handlers!DeleteTasks

LEMMA NextHandlers == ConnectedInv /\ [Handlers!Next]_(Handlers!vars) => ConnectedInv'
<1> SUFFICES ASSUME ConnectedInv, [Handlers!Next]_(Handlers!vars) PROVE ConnectedInv'
  OBVIOUS
<1> USE DEF ConnectedInv, Domains
<1>1. ASSUME NEW p \in Processes, NEW t \in HandledTasks, NEW closed \in BOOLEAN,
     Handlers!SaveTask(p, t, closed)
      PROVE  ConnectedInv'
  BY <1>1 DEF Handlers!SaveTask, Explained, Missing, Handlers!Free
<1>2. ASSUME NEW p \in Processes, NEW h \in Handlers!Handlers, NEW cause,
             Handlers!Free(p), Handlers!Lost(cause) = {h},
             on' = [on EXCEPT ![p] = @ \ {h}], causes' = [causes EXCEPT ![p] = @ \cup {cause}],
             UNCHANGED work, DOMAIN tasks' = HandledTasks
      PROVE  ConnectedInv'
  <2>1. on'[p] = on[p] \ {h} /\ causes'[p] = causes[p] \cup {cause} /\ work'[p] = work[p]
    BY <1>2
  <2>2. Explained(p)'
    BY <1>2, <2>1 DEF Explained, Missing, Handlers!Free
  <2> QED BY <1>2, <2>2, OthersStay
<1>3. ASSUME NEW p \in Processes, NEW t \in HandledTasks, NEW closed \in BOOLEAN,
     Handlers!ImportTask(p, t, closed)
      PROVE  ConnectedInv'
  <2>1. DOMAIN tasks' = HandledTasks
    BY <1>3 DEF Handlers!ImportTask
  <2>2. "finish task" \in Handlers!Handlers
    BY DEF Handlers!Handlers, Handlers!TaskHandlers
  <2>3. /\ Handlers!Free(p) /\ UNCHANGED work
        /\ on' = [on EXCEPT ![p] = @ \ {"finish task"}]
        /\ causes' = [causes EXCEPT ![p] = @ \cup {"import task"}]
    BY <1>3 DEF Handlers!ImportTask
  <2> QED BY <1>2, <2>1, <2>2, <2>3, LostByImport
<1>4. ASSUME NEW p \in Processes, Handlers!ImportIssue(p)
      PROVE  ConnectedInv'
  <2>1. "finish issue" \in Handlers!Handlers
    BY DEF Handlers!Handlers, Handlers!IssueHandlers
  <2>2. /\ Handlers!Free(p) /\ UNCHANGED <<work, tasks>>
        /\ on' = [on EXCEPT ![p] = @ \ {"finish issue"}]
        /\ causes' = [causes EXCEPT ![p] = @ \cup {"import issue"}]
    BY <1>4 DEF Handlers!ImportIssue
  <2> QED BY <1>2, <2>1, <2>2, LostByImport
<1>5. ASSUME NEW p \in Processes, NEW kind \in Handlers!Kinds, Handlers!Disconnect(p, kind)
      PROVE  ConnectedInv'
  <2>1. /\ on'[p] = on[p] \ Handlers!Off(kind) /\ work'[p].kind = kind
        /\ DOMAIN work'[p] = {"kind", "step"}
        /\ causes'[p] = causes[p] /\ Missing(p) = {}
    BY <1>5 DEF Handlers!Disconnect, Missing
  <2>2. Missing(p)' = Handlers!Off(kind)
    BY <2>1, <1>5, AtWorkNext
  <2>3. Explained(p)'
    BY <2>1, <2>2 DEF Explained
  <2> QED BY <1>5, <2>3, OthersStay DEF Handlers!Disconnect
<1>6. ASSUME NEW p \in Processes, Handlers!DeleteStories(p)
      PROVE  ConnectedInv'
  <2>1. /\ on'[p] = on[p] \cup Handlers!TaskHandlers /\ work'[p].kind = "delete project"
        /\ work[p].kind = "delete project" /\ causes'[p] = causes[p]
        /\ DOMAIN work'[p] = {"kind", "step"}
    BY <1>6 DEF Handlers!DeleteStories, Handlers!Doing, Explained
  <2>2. Missing(p) = Handlers!Off("delete project") /\ Missing(p)' = Handlers!Off("delete project")
    BY <2>1, AtWork, AtWorkNext DEF Handlers!Kinds
  <2>3. Explained(p)'
    BY <2>1, <2>2 DEF Explained, Handlers!Kinds
  <2> QED BY <1>6, <2>3, OthersStay DEF Handlers!DeleteStories
<1>7. ASSUME NEW p \in Processes, Handlers!Finish(p)
      PROVE  ConnectedInv'
  <2> DEFINE kind == work[p].kind
  <2>1. /\ kind \in Handlers!Kinds /\ Handlers!Off(kind) \subseteq Handlers!On(kind)
        /\ Missing(p) = Handlers!Off(kind)
    BY <1>7, KindsOfHandlers DEF Handlers!Finish, Explained, Missing
  <2>2. on'[p] = on[p] \cup Handlers!On(kind) /\ work'[p] = Handlers!Idle /\ causes'[p] = causes[p]
    BY <1>7 DEF Handlers!Finish
  <2>3. Explained(p)'
    BY <2>1, <2>2 DEF Explained, Handlers!Free, Handlers!Idle
  <2> QED BY <1>7, <2>3, OthersStay, FinishKeepsTasks DEF Handlers!Finish
<1>8. ASSUME NEW p \in Processes, Handlers!Fail(p)
      PROVE  ConnectedInv'
  <2> DEFINE kind == work[p].kind
  <2>1. /\ kind \in Handlers!Kinds /\ Handlers!Off(kind) \subseteq Handlers!On(kind)
        /\ Missing(p) = Handlers!Off(kind)
        /\ kind \notin Handlers!Guarded =>
             kind \in {"delete story", "duplicate"} /\ Handlers!Off(kind) = Handlers!Lost(kind)
    BY <1>8, KindsOfHandlers DEF Handlers!Fail, Explained, Missing
  <2>2. /\ on'[p] = IF kind \in Handlers!Guarded THEN on[p] \cup Handlers!On(kind) ELSE on[p]
        /\ work'[p] = Handlers!Idle
        /\ causes'[p] = causes[p] \cup ({kind} \cap {"delete story", "duplicate"})
    BY <1>8 DEF Handlers!Fail
  <2>3. CASE kind \in Handlers!Guarded
    <3>1. on'[p] = on[p] \cup Handlers!On(kind) /\ causes[p] \subseteq causes'[p]
      BY <2>2, <2>3
    <3>2. Explained(p)'
      BY <2>1, <2>2, <3>1 DEF Explained, Handlers!Free, Handlers!Idle
    <3> QED BY <1>8, <3>2, OthersStay DEF Handlers!Fail
  <2>4. CASE kind \notin Handlers!Guarded
    <3>1. kind \in causes'[p] /\ on'[p] = on[p] /\ causes[p] \subseteq causes'[p]
      BY <2>1, <2>2, <2>4
    <3>2. Explained(p)'
      BY <2>1, <2>2, <2>4, <3>1 DEF Explained, Handlers!Free, Handlers!Idle
    <3> QED BY <1>8, <3>2, OthersStay DEF Handlers!Fail
  <2> QED BY <2>3, <2>4
<1>9. ASSUME NEW p \in Processes, Handlers!Restart(p)
      PROVE  ConnectedInv'
  <2>1. Explained(p)'
    BY <1>9 DEF Handlers!Restart, Explained, Handlers!Free, Handlers!Idle
  <2> QED BY <1>9, <2>1, OthersStay DEF Handlers!Restart
<1>10. CASE UNCHANGED Handlers!vars
  BY <1>10 DEF Handlers!vars, Explained, Missing, Handlers!Free
<1> QED BY <1>1, <1>3, <1>4, <1>5, <1>6, <1>7, <1>8, <1>9, <1>10 DEF Handlers!Next

LEMMA HandlersExplained == ConnectedInv => Handlers!HandlersComeBack
BY DEF ConnectedInv, Explained, Missing, Handlers!HandlersComeBack

(***************************************************************************)
(* What the handlers do to tasks.                                          *)
(***************************************************************************)
LEMMA NextTasks ==
  ConnectedInv /\ Handlers!TasksAreHandled /\ [Handlers!Next]_(Handlers!vars)
  => Handlers!TasksAreHandled'
<1> SUFFICES ASSUME ConnectedInv,
     Handlers!TasksAreHandled, [Handlers!Next]_(Handlers!vars) PROVE Handlers!TasksAreHandled'
  OBVIOUS
<1> USE DEF ConnectedInv, Domains
<1>1. ASSUME NEW p \in Processes, NEW t \in HandledTasks, NEW closed \in BOOLEAN,
     Handlers!SaveTask(p, t, closed)
      PROVE  Handlers!TasksAreHandled'
  <2>1. CASE causes[p] = {} /\ (tasks[t].exists => tasks[t].values)
    <3>1. {"finish task", "values of task", "close story of task"} \subseteq on[p]
      BY <1>1, <2>1 DEF Handlers!SaveTask, Explained, Missing, Handlers!Handlers,
                        Handlers!TaskHandlers
    <3>2. tasks'[t].finished = tasks'[t].closed /\ tasks'[t].values /\ tasks'[t].told
      BY <1>1, <2>1, <3>1 DEF Handlers!SaveTask, Handlers!Saved
    <3>3. \A s \in HandledTasks \ {t} : tasks'[s] = tasks[s] /\ (s \in doubtful => s \in doubtful')
      BY <1>1 DEF Handlers!SaveTask, Handlers!Doubt
    <3> QED BY <3>2, <3>3 DEF Handlers!TasksAreHandled
  <2>2. CASE causes[p] # {} \/ (tasks[t].exists /\ ~ tasks[t].values)
    <3>1. t \in doubtful'
      BY <1>1, <2>2 DEF Handlers!SaveTask, Handlers!Doubt, Handlers!TasksAreHandled
    <3>2. \A s \in HandledTasks \ {t} : tasks'[s] = tasks[s] /\ (s \in doubtful => s \in doubtful')
      BY <1>1 DEF Handlers!SaveTask, Handlers!Doubt
    <3> QED BY <3>1, <3>2 DEF Handlers!TasksAreHandled
  <2> QED BY <2>1, <2>2
<1>2. ASSUME NEW p \in Processes, NEW t \in HandledTasks, NEW closed \in BOOLEAN,
     Handlers!ImportTask(p, t, closed)
      PROVE  Handlers!TasksAreHandled'
  <2>1. \A s \in HandledTasks \ {t} : tasks'[s] = tasks[s] /\ (s \in doubtful => s \in doubtful')
    BY <1>2 DEF Handlers!ImportTask
  <2>2. (tasks'[t] = tasks[t] /\ doubtful' = doubtful) \/ t \in doubtful'
    BY <1>2 DEF Handlers!ImportTask
  <2> QED BY <2>1, <2>2 DEF Handlers!TasksAreHandled
<1>3. ASSUME NEW p \in Processes, Handlers!Finish(p)
      PROVE  Handlers!TasksAreHandled'
  <2>1. CASE \E new \in SUBSET HandledTasks, closed \in BOOLEAN : Handlers!BulkTasks(p, new, closed)
    BY <2>1 DEF Handlers!BulkTasks, Handlers!TasksAreHandled
  <2>2. CASE \E old \in SUBSET HandledTasks : Handlers!DeleteTasks(old)
    <3>1. \A t \in HandledTasks :
            tasks'[t] = Handlers!Gone \/ (tasks'[t] = tasks[t] /\ (t \in doubtful => t \in doubtful'))
      BY <2>2 DEF Handlers!DeleteTasks
    <3> QED BY <3>1, GoneIsGone DEF Handlers!TasksAreHandled
  <2>3. CASE UNCHANGED <<tasks, doubtful>>
    BY <2>3 DEF Handlers!TasksAreHandled
  <2> QED BY <1>3, <2>1, <2>2, <2>3 DEF Handlers!Finish
<1>4. CASE UNCHANGED <<tasks, doubtful>>
  BY <1>4 DEF Handlers!TasksAreHandled
<1>5. ASSUME NEW p \in Processes,
             \/ Handlers!ImportIssue(p)
             \/ (\E kind \in Handlers!Kinds : Handlers!Disconnect(p, kind)) \/ Handlers!DeleteStories(p)
             \/ Handlers!Fail(p) \/ Handlers!Restart(p)
      PROVE  UNCHANGED <<tasks, doubtful>>
  BY <1>5 DEF Handlers!ImportIssue, Handlers!Disconnect, Handlers!DeleteStories, Handlers!Fail,
              Handlers!Restart
<1> QED BY <1>1, <1>2, <1>3, <1>4, <1>5 DEF Handlers!Next, Handlers!vars

LEMMA InitTasks == Handlers!Init => Handlers!TasksAreHandled
BY DEF Handlers!Init, Handlers!TasksAreHandled, Handlers!Gone

-----------------------------------------------------------------------------
\* A part that runs holds its invariant.
HandlersInv == what = "handlers" => ConnectedInv /\ Handlers!TasksAreHandled

\* The invariant of the server processes: the next two theorems.
LEMMA HandlersInvariant == Spec => []HandlersInv
<1>1. Init => HandlersInv
  BY InitHandlers, InitTasks DEF Init, HandlersInv
<1>2. HandlersInv /\ [Next]_serverVars => HandlersInv'
  <2> SUFFICES ASSUME HandlersInv, [Next]_serverVars, what' = "handlers" PROVE HandlersInv'
    BY DEF HandlersInv
  <2>1. what = "handlers" /\ [Handlers!Next]_(Handlers!vars)
    BY DEF Next, serverVars, handlerVars, Handlers!vars
  <2> QED BY <2>1, NextHandlers, NextTasks DEF HandlersInv
<1> QED BY <1>1, <1>2, PTL DEF Spec, serverVars

\* Between two requests a server process has all its handlers but for those that an import, a
\* failed deletion or a failed duplication took, for any number of processes and failures.
THEOREM HandlersConnected == Spec => []HandlersComeBack
<1>1. HandlersInv => HandlersComeBack
  BY HandlersExplained DEF HandlersInv, HandlersComeBack
<1> QED BY <1>1, HandlersInvariant, PTL

\* What handlers keep of a task is right wherever they were all connected, for any number of
\* processes, tasks and failures.
THEOREM TasksStayHandled == Spec => []TasksAreHandled
<1>1. HandlersInv => TasksAreHandled
  BY DEF HandlersInv, TasksAreHandled
<1> QED BY <1>1, HandlersInvariant, PTL

-----------------------------------------------------------------------------
(* The swimlanes.                                                          *)

Fields == DOMAIN Lanes!Unsent

ShapeInv ==
  /\ DOMAIN deletions = Deletions /\ \A d \in Deletions : DOMAIN deletions[d] = Fields
  /\ creation = Lanes!NoCreation \/ (DOMAIN creation = {"lane", "step"} /\ creation.step \in {"inserted", "counted"})

\* A lane that is being created exists, and nobody has asked to delete it.
CreationInv ==
  creation # Lanes!NoCreation =>
    creation.lane \in lanes /\ creation.lane # NoLane /\ \A d \in Deletions : deletions[d].lane # creation.lane

\* The lane that has been inserted but not been considered for the default.
Unsettled == IF creation.step = "inserted" THEN {creation.lane} ELSE {}

\* Some lane is the default as soon as there is one that was created to the end, unless a save of
\* the project emptied it; a lane whose deletion has been allowed is no default, or still the only
\* lane.
DefaultInv ==
  ~ crossed =>
    /\ lanes \ Unsettled # {} /\ ~ unset => default # NoLane
    /\ \A d \in Deletions : deletions[d].step \in {"allowed", "last"} /\ default = deletions[d].lane =>
         lanes \subseteq {deletions[d].lane} \/ default = NoLane

SwimlanesInv == ShapeInv /\ CreationInv /\ DefaultInv

LEMMA UnsentShape ==
  /\ Lanes!Unsent.lane = NoLane /\ Lanes!Unsent.step = "idle"
  /\ Fields = {"lane", "to", "step", "todo", "keys", "none", "ids", "count"}
BY DEF Lanes!Unsent, Fields

LEMMA InitLanes ==
  ASSUME LastLane \in Nat, NoLane \notin Lanes!Lanes, Lanes!Init
  PROVE  SwimlanesInv
<1>1. ShapeInv /\ CreationInv
  BY DEF Lanes!Init, ShapeInv, CreationInv, Fields
<1>2. \A d \in Deletions : deletions[d].step = "idle"
  BY UnsentShape DEF Lanes!Init
<1>3. PICK n \in 0 .. LastLane : lanes = 1 .. n /\ default = IF n = 0 THEN NoLane ELSE 1
  BY DEF Lanes!Init
<1>4. lanes # {} => default # NoLane
  BY <1>3 DEF Lanes!Lanes
<1> QED BY <1>1, <1>2, <1>4 DEF SwimlanesInv, DefaultInv

(* The creation of a lane.                                                 *)

LEMMA InsertKeeps ==
  ASSUME NoLane \notin Lanes!Lanes, SwimlanesInv, NEW l \in Lanes!Lanes, Lanes!InsertLane(l)
  PROVE  SwimlanesInv'
<1>1. /\ lanes' = lanes \cup {l} /\ creation' = [lane |-> l, step |-> "inserted"]
      /\ creation = Lanes!NoCreation /\ UNCHANGED <<deletions, default, unset>>
      /\ crossed' = (crossed \/ default \in Lanes!Passed)
  BY DEF Lanes!InsertLane
<1>2. l \notin lanes /\ \A d \in Deletions : deletions[d].lane # l
  <2>1. ~ (l < l)
    BY DEF Lanes!Lanes
  <2> QED BY <2>1 DEF Lanes!InsertLane
<1>3. /\ creation'.lane = l /\ creation'.step = "inserted" /\ DOMAIN creation' = {"lane", "step"}
      /\ creation.step = "idle"
  BY <1>1 DEF Lanes!NoCreation
<1>4. ShapeInv' /\ CreationInv'
  BY <1>1, <1>2, <1>3 DEF SwimlanesInv, ShapeInv, CreationInv
<1>5. Unsettled' = {l} /\ Unsettled = {}
  BY <1>3 DEF Unsettled
<1>6. DefaultInv'
  <2>1. ~ crossed' => ~ crossed /\ default \notin Lanes!Passed
    BY <1>1
  <2>2. \A d \in Deletions : deletions[d].step \in {"allowed", "last"} => deletions[d].lane \in Lanes!Passed
    BY DEF Lanes!Passed
  <2> QED BY <1>1, <1>2, <1>5, <2>1, <2>2 DEF SwimlanesInv, DefaultInv
<1> QED BY <1>4, <1>6 DEF SwimlanesInv

LEMMA SetDefaultKeeps ==
  ASSUME SwimlanesInv, NEW l \in Lanes!Lanes, Lanes!SetDefault(l)
  PROVE  SwimlanesInv'
<1>1. /\ creation.step = "inserted" /\ creation.lane = l
      /\ default' = IF lanes = {l} THEN l ELSE default
      /\ unset' = IF lanes = {l} THEN FALSE ELSE unset
      /\ creation' = [creation EXCEPT !.step = "counted"]
      /\ UNCHANGED <<lanes, deletions, crossed>>
  BY DEF Lanes!SetDefault
<1>2. creation # Lanes!NoCreation
  BY <1>1 DEF Lanes!NoCreation
<1>3. l \in lanes /\ l # NoLane /\ \A d \in Deletions : deletions[d].lane # l
  BY <1>1, <1>2 DEF SwimlanesInv, CreationInv
<1>4. /\ creation'.step = "counted" /\ creation'.lane = l
      /\ DOMAIN creation' = {"lane", "step"}
  BY <1>1, <1>2 DEF SwimlanesInv, ShapeInv
<1>5. ShapeInv' /\ CreationInv'
  BY <1>1, <1>3, <1>4 DEF SwimlanesInv, ShapeInv, CreationInv
<1>6. Unsettled' = {} /\ Unsettled = {l}
  BY <1>1, <1>4 DEF Unsettled
<1>7. DefaultInv'
  <2>1. CASE lanes = {l}
    BY <1>1, <1>3, <2>1 DEF DefaultInv
  <2>2. CASE lanes # {l}
    <3>1. lanes \ {l} # {}
      BY <1>3, <2>2
    <3> QED BY <1>1, <1>6, <2>2, <3>1 DEF SwimlanesInv, DefaultInv
  <2> QED BY <2>1, <2>2
<1> QED BY <1>5, <1>7 DEF SwimlanesInv

LEMMA TakeAllKeeps ==
  ASSUME SwimlanesInv, NEW l \in Lanes!Lanes, Lanes!TakeAll(l)
  PROVE  SwimlanesInv'
<1>1. creation.step = "counted" /\ creation' = Lanes!NoCreation /\ UNCHANGED <<lanes, default, deletions, crossed, unset>>
  BY DEF Lanes!TakeAll
<1>2. Unsettled' = {} /\ Unsettled = {}
  BY <1>1 DEF Unsettled, Lanes!NoCreation
<1> QED BY <1>1, <1>2 DEF SwimlanesInv, ShapeInv, CreationInv, DefaultInv

LEMMA SaveProjectKeeps ==
  ASSUME SwimlanesInv, NEW v, Lanes!SaveProject(v)
  PROVE  SwimlanesInv'
<1>1. /\ default' = v /\ unset' = (v = NoLane /\ lanes # {})
      /\ crossed' = (crossed \/ (v # default /\ v \in Lanes!Passed))
      /\ UNCHANGED <<lanes, creation, deletions>>
  BY DEF Lanes!SaveProject
<1>2. ShapeInv' /\ CreationInv'
  BY <1>1 DEF SwimlanesInv, ShapeInv, CreationInv
<1>3. \A d \in Deletions : deletions[d].step \in {"allowed", "last"} => deletions[d].lane \in Lanes!Passed
  BY DEF Lanes!Passed
<1>4. DefaultInv'
  <2> SUFFICES ASSUME ~ crossed, v = default \/ v \notin Lanes!Passed
               PROVE  /\ lanes \ Unsettled # {} /\ ~ unset' => v # NoLane
                      /\ \A d \in Deletions : deletions[d].step \in {"allowed", "last"} /\ v = deletions[d].lane =>
                           lanes \subseteq {deletions[d].lane} \/ v = NoLane
    BY <1>1 DEF DefaultInv, Unsettled
  <2> QED BY <1>1, <1>3 DEF SwimlanesInv, DefaultInv
<1> QED BY <1>2, <1>4 DEF SwimlanesInv

(* The deletion of a lane.                                                 *)

\* A step of a deletion that touches no lane: it keeps the lane it is about.
LEMMA DeletionGoesOn ==
  ASSUME SwimlanesInv, NEW d \in Deletions, NEW record,
         DOMAIN record = Fields, Lanes!Set(d, record), UNCHANGED <<lanes, default, creation, crossed, unset>>,
         record.lane = deletions[d].lane \/ (record.lane # creation.lane /\ record.lane # NoLane),
         record.step \in {"allowed", "last"} /\ default = record.lane => lanes \subseteq {record.lane} \/ default = NoLane
  PROVE  SwimlanesInv'
<1>1. deletions'[d] = record /\ DOMAIN deletions' = Deletions
      /\ \A e \in Deletions \ {d} : deletions'[e] = deletions[e]
  BY DEF Lanes!Set, SwimlanesInv, ShapeInv
<1>2. ShapeInv' /\ CreationInv'
  BY <1>1 DEF SwimlanesInv, ShapeInv, CreationInv
<1>3. DefaultInv'
  BY <1>1 DEF SwimlanesInv, DefaultInv, Unsettled
<1> QED BY <1>2, <1>3 DEF SwimlanesInv

LEMMA DeleteKeeps ==
  ASSUME NoLane \notin Lanes!Lanes, SwimlanesInv, NEW d \in Deletions, NEW l \in Lanes!Lanes,
         NEW to, Lanes!Delete(d, l, to)
  PROVE  SwimlanesInv'
<1>1. /\ UNCHANGED <<lanes, default, creation, crossed, unset>> /\ creation.lane # l
      /\ \/ Lanes!Set(d, [Lanes!Unsent EXCEPT !.lane = l, !.to = to, !.step = "checked"])
         \/ Lanes!Set(d, [Lanes!Unsent EXCEPT !.lane = l, !.step = "clear"])
  BY DEF Lanes!Delete
<1>2. ASSUME NEW record, record = [Lanes!Unsent EXCEPT !.lane = l, !.to = to, !.step = "checked"]
      PROVE  DOMAIN record = Fields /\ record.lane = l /\ record.step \notin {"allowed", "last"}
  BY <1>2, UnsentShape DEF Fields
<1>3. ASSUME NEW record, record = [Lanes!Unsent EXCEPT !.lane = l, !.step = "clear"]
      PROVE  DOMAIN record = Fields /\ record.lane = l /\ record.step \notin {"allowed", "last"}
  BY <1>3, UnsentShape DEF Fields
<1> QED BY <1>1, <1>2, <1>3, DeletionGoesOn

LEMMA ListingKeeps ==
  ASSUME SwimlanesInv, NEW d \in Deletions,
         Lanes!ListNone(d) \/ Lanes!ListLane(d) \/ Lanes!CountLane(d)
  PROVE  SwimlanesInv'
<1>1. UNCHANGED <<lanes, default, creation, crossed, unset>>
  BY DEF Lanes!ListNone, Lanes!ListLane, Lanes!CountLane
<1>2. DOMAIN deletions[d] = {"lane", "to", "step", "todo", "keys", "none", "ids", "count"}
  BY UnsentShape DEF SwimlanesInv, ShapeInv
<1>3. \E record :
        /\ Lanes!Set(d, record) /\ DOMAIN record = DOMAIN deletions[d]
        /\ record.lane = deletions[d].lane /\ record.step \notin {"allowed", "last"}
  <2>1. CASE Lanes!ListNone(d)
    <3> DEFINE record == [deletions[d] EXCEPT !.none = Lanes!InLane(NoLane), !.todo = Lanes!OnBoard(lanes),
                                              !.keys = Lanes!OnBoard(lanes), !.step = "list"]
    <3>1. Lanes!Set(d, record)
      BY <2>1 DEF Lanes!ListNone
    <3>2. DOMAIN record = DOMAIN deletions[d] /\ record.lane = deletions[d].lane /\ record.step \notin {"allowed", "last"}
      BY <1>2
    <3> QED BY <3>1, <3>2
  <2>2. CASE Lanes!ListLane(d)
    <3> DEFINE l == Head(deletions[d].todo)
               record == [deletions[d] EXCEPT !.ids[l] = Lanes!InLane(l), !.step = "count"]
    <3>1. Lanes!Set(d, record)
      BY <2>2 DEF Lanes!ListLane
    <3>2. DOMAIN record = DOMAIN deletions[d] /\ record.lane = deletions[d].lane /\ record.step \notin {"allowed", "last"}
      BY <1>2
    <3> QED BY <3>1, <3>2
  <2>3. CASE Lanes!CountLane(d)
    <3> DEFINE l == Head(deletions[d].todo)
               record == [deletions[d] EXCEPT !.count[l] = Len(Lanes!InLane(l)), !.todo = Tail(@), !.step = "list"]
    <3>1. Lanes!Set(d, record)
      BY <2>3 DEF Lanes!CountLane
    <3>2. DOMAIN record = DOMAIN deletions[d] /\ record.lane = deletions[d].lane /\ record.step \notin {"allowed", "last"}
      BY <1>2
    <3> QED BY <3>1, <3>2
  <2> QED BY <2>1, <2>2, <2>3
<1>4. DOMAIN deletions[d] = Fields
  BY DEF SwimlanesInv, ShapeInv
<1> QED BY <1>1, <1>3, <1>4, DeletionGoesOn

\* The lane goes, the deletion is over.
LEMMA LaneDeleted ==
  ASSUME SwimlanesInv, NEW d \in Deletions, NEW assigned, NEW placed,
         Lanes!DeleteLane(d, assigned, placed),
         UNCHANGED <<creation, crossed, unset>>,
         ~ crossed /\ default = deletions[d].lane => lanes \subseteq {deletions[d].lane} \/ default = NoLane
  PROVE  SwimlanesInv'
<1> DEFINE l == deletions[d].lane
<1>1. /\ lanes' = lanes \ {l} /\ default' = IF default = l THEN NoLane ELSE default
      /\ DOMAIN deletions' = Deletions /\ \A e \in Deletions \ {d} : deletions'[e] = deletions[e]
  BY DEF Lanes!DeleteLane, Lanes!Set, SwimlanesInv, ShapeInv
<1>2. DOMAIN deletions[d] = {"lane", "to", "step", "todo", "keys", "none", "ids", "count"}
  BY UnsentShape DEF SwimlanesInv, ShapeInv
<1>3. deletions'[d].lane = l /\ deletions'[d].step = "done" /\ DOMAIN deletions'[d] = Fields
  BY <1>2, UnsentShape DEF Lanes!DeleteLane, Lanes!Set, SwimlanesInv, ShapeInv
<1> HIDE DEF l
<1>4. ShapeInv'
  BY <1>1, <1>3 DEF SwimlanesInv, ShapeInv
<1>5. CreationInv'
  BY <1>1, <1>3 DEF SwimlanesInv, CreationInv, l
<1>6. DefaultInv'
  BY <1>1, <1>3 DEF SwimlanesInv, DefaultInv, Unsettled, l
<1> QED BY <1>4, <1>5, <1>6 DEF SwimlanesInv

LEMMA AllowKeeps ==
  ASSUME SwimlanesInv, NEW d \in Deletions, Lanes!Allow(d)
  PROVE  SwimlanesInv'
<1>1. UNCHANGED <<lanes, default, creation, crossed, unset>>
  BY DEF Lanes!Allow
<1>2. \/ Lanes!Set(d, [Lanes!Unsent EXCEPT !.lane = deletions[d].lane, !.step = "failed"])
      \/ /\ Lanes!Set(d, [deletions[d] EXCEPT !.step = "allowed"])
         /\ default = deletions[d].lane => lanes = {deletions[d].lane}
  BY DEF Lanes!Allow
<1>3. ASSUME NEW record, record = [Lanes!Unsent EXCEPT !.lane = deletions[d].lane, !.step = "failed"]
      PROVE  DOMAIN record = Fields /\ record.lane = deletions[d].lane /\ record.step = "failed"
  BY <1>3, UnsentShape DEF Fields
<1>4. ASSUME NEW record, record = [deletions[d] EXCEPT !.step = "allowed"]
      PROVE  DOMAIN record = Fields /\ record.lane = deletions[d].lane /\ record.step = "allowed"
  BY <1>4, UnsentShape DEF SwimlanesInv, ShapeInv
<1> QED BY <1>1, <1>2, <1>3, <1>4, DeletionGoesOn

LEMMA MoveKeeps ==
  ASSUME SwimlanesInv, NEW d \in Deletions, Lanes!MoveAndRemove(d)
  PROVE  SwimlanesInv'
<1>1. UNCHANGED <<creation, crossed, unset>>
  BY DEF Lanes!MoveAndRemove
<1>2. CASE Lanes!Refused(d)
  <2> DEFINE record == [Lanes!Unsent EXCEPT !.lane = deletions[d].lane, !.step = "failed"]
  <2>1. Lanes!Set(d, record) /\ UNCHANGED <<lanes, default>>
    BY <1>2 DEF Lanes!MoveAndRemove
  <2>2. DOMAIN record = Fields /\ record.lane = deletions[d].lane /\ record.step = "failed"
    BY UnsentShape DEF Fields
  <2> QED BY <1>1, <2>1, <2>2, DeletionGoesOn
<1>3. CASE ~ Lanes!Refused(d)
  <2>1. \E assigned, placed : Lanes!DeleteLane(d, assigned, placed)
    BY <1>3 DEF Lanes!MoveAndRemove
  <2>2. deletions[d].step = "allowed"
    BY DEF Lanes!MoveAndRemove
  <2> QED BY <1>1, <2>1, <2>2, LaneDeleted DEF SwimlanesInv, DefaultInv
<1> QED BY <1>2, <1>3

LEMMA CheckLastKeeps ==
  ASSUME SwimlanesInv, NEW d \in Deletions, Lanes!CheckLast(d)
  PROVE  SwimlanesInv'
<1> DEFINE refused == default = deletions[d].lane /\ lanes # {default}
           record == [deletions[d] EXCEPT !.step = IF refused THEN "failed" ELSE "last"]
<1>1. Lanes!Set(d, record) /\ UNCHANGED <<lanes, default, creation, crossed, unset>>
  BY DEF Lanes!CheckLast
<1>2. DOMAIN deletions[d] = {"lane", "to", "step", "todo", "keys", "none", "ids", "count"}
  BY UnsentShape DEF SwimlanesInv, ShapeInv
<1>3. DOMAIN record = Fields /\ record.lane = deletions[d].lane
  BY <1>2, UnsentShape
<1>4. record.step \in {"allowed", "last"} => ~ refused
  BY <1>2
<1> QED BY <1>1, <1>3, <1>4, DeletionGoesOn

LEMMA RemoveLastKeeps ==
  ASSUME SwimlanesInv, NEW d \in Deletions, Lanes!RemoveLast(d)
  PROVE  SwimlanesInv'
<1>1. deletions[d].step = "last" /\ UNCHANGED <<creation, crossed, unset>>
  BY DEF Lanes!RemoveLast
<1>2. CASE deletions[d].lane \in lanes
  <2>1. Lanes!DeleteLane(d, lane, places)
    BY <1>2 DEF Lanes!RemoveLast
  <2> QED BY <1>1, <1>2, <2>1, LaneDeleted DEF SwimlanesInv, DefaultInv
<1>3. CASE deletions[d].lane \notin lanes
  <2> DEFINE record == [deletions[d] EXCEPT !.step = "failed"]
  <2>1. Lanes!Set(d, record) /\ UNCHANGED <<lanes, default>>
    BY <1>3 DEF Lanes!RemoveLast
  <2>2. DOMAIN deletions[d] = {"lane", "to", "step", "todo", "keys", "none", "ids", "count"}
    BY UnsentShape DEF SwimlanesInv, ShapeInv
  <2>3. DOMAIN record = Fields /\ record.lane = deletions[d].lane /\ record.step = "failed"
    BY <2>2, UnsentShape
  <2> QED BY <1>1, <2>1, <2>3, DeletionGoesOn
<1> QED BY <1>2, <1>3

LEMMA NextLanes ==
  ASSUME NoLane \notin Lanes!Lanes
  PROVE  SwimlanesInv /\ [Lanes!Next]_(Lanes!vars) => SwimlanesInv'
<1> SUFFICES ASSUME SwimlanesInv, [Lanes!Next]_(Lanes!vars) PROVE SwimlanesInv'
  OBVIOUS
<1>1. CASE UNCHANGED <<lanes, default, creation, deletions, crossed, unset>>
  BY <1>1 DEF SwimlanesInv, ShapeInv, CreationInv, DefaultInv, Unsettled
<1>2. ASSUME NEW s \in Stories, NEW l \in Lanes!Lanes, Lanes!Drag(s, l)
      PROVE  UNCHANGED <<lanes, default, creation, deletions, crossed, unset>>
  BY <1>2 DEF Lanes!Drag
<1>3. ASSUME NEW i \in DOMAIN drags, Lanes!Drop(i)
      PROVE  UNCHANGED <<lanes, default, creation, deletions, crossed, unset>>
  BY <1>3 DEF Lanes!Drop
<1>4. CASE UNCHANGED Lanes!vars
  BY <1>1, <1>4 DEF Lanes!vars
<1> QED BY <1>1, <1>2, <1>3, <1>4, InsertKeeps, SetDefaultKeeps, TakeAllKeeps, DeleteKeeps,
           ListingKeeps, AllowKeeps, MoveKeeps, CheckLastKeeps, RemoveLastKeeps,
           SaveProjectKeeps DEF Lanes!Next

LEMMA DefaultExplained == SwimlanesInv => Lanes!DefaultLane
<1>1. ASSUME creation = Lanes!NoCreation PROVE Unsettled = {}
  BY <1>1 DEF Unsettled, Lanes!NoCreation
<1> QED BY <1>1 DEF SwimlanesInv, DefaultInv, Lanes!DefaultLane

StrictOrder(S, R) ==
  /\ \A s \in S : <<s, s>> \notin R
  /\ \A s, t, u \in S : <<s, t>> \in R /\ <<t, u>> \in R => <<s, u>> \in R
  /\ \A s, t \in S : s # t => <<s, t>> \in R \/ <<t, s>> \in R

\* A sequence with every element of S once, in the order R.
SortedList(q, S, R) ==
  /\ q \in Seq(S)
  /\ \A s \in S : \E i \in 1 .. Len(q) : q[i] = s
  /\ \A i, j \in 1 .. Len(q) : i < j => <<q[i], q[j]>> \in R

Below(S, R, s) == {t \in S : <<t, s>> \in R}
RankIn(S, R, s) == 1 + Cardinality(Below(S, R, s))

\* The rank of an element counts those before it.
LEMMA RankGrows ==
  ASSUME NEW S, IsFiniteSet(S), NEW R, StrictOrder(S, R)
  PROVE  /\ Cardinality(S) \in Nat
         /\ \A s \in S : RankIn(S, R, s) \in 1 .. Cardinality(S)
         /\ \A s, t \in S : <<s, t>> \in R => RankIn(S, R, s) < RankIn(S, R, t)
<1>1. Cardinality(S) \in Nat
  BY FS_CardinalityType
<1>2. ASSUME NEW s \in S
      PROVE  /\ IsFiniteSet(Below(S, R, s)) /\ Cardinality(Below(S, R, s)) \in Nat
             /\ Cardinality(Below(S, R, s)) < Cardinality(S)
  <2>1. Below(S, R, s) \in SUBSET S /\ s \notin Below(S, R, s)
    BY DEF Below, StrictOrder
  <2>2. /\ IsFiniteSet(Below(S, R, s)) /\ Cardinality(Below(S, R, s)) <= Cardinality(S)
        /\ Cardinality(S) = Cardinality(Below(S, R, s)) => S = Below(S, R, s)
    BY <2>1, FS_Subset
  <2>3. Cardinality(Below(S, R, s)) \in Nat
    BY <2>2, FS_CardinalityType
  <2> QED BY <1>1, <2>1, <2>2, <2>3
<1>3. ASSUME NEW s \in S, NEW t \in S, <<s, t>> \in R
      PROVE  Cardinality(Below(S, R, s)) < Cardinality(Below(S, R, t))
  <2>1. Below(S, R, s) \in SUBSET Below(S, R, t)
    BY <1>3 DEF Below, StrictOrder
  <2>2. s \in Below(S, R, t) /\ s \notin Below(S, R, s)
    BY <1>3 DEF Below, StrictOrder
  <2>3. /\ Cardinality(Below(S, R, s)) <= Cardinality(Below(S, R, t))
        /\ Cardinality(Below(S, R, t)) = Cardinality(Below(S, R, s)) => Below(S, R, s) = Below(S, R, t)
    BY <1>2, <2>1, FS_Subset
  <2> QED BY <1>2, <2>2, <2>3
<1> QED BY <1>1, <1>2, <1>3 DEF RankIn

\* Every rank is taken.
LEMMA RanksTaken ==
  ASSUME NEW S, IsFiniteSet(S), NEW R, StrictOrder(S, R)
  PROVE  /\ \A i \in 1 .. Cardinality(S) : \E s \in S : RankIn(S, R, s) = i
         /\ \A s, t \in S : RankIn(S, R, s) = RankIn(S, R, t) => s = t
<1> DEFINE n == Cardinality(S)
           rank == [s \in S |-> RankIn(S, R, s)]
<1>1. /\ n \in Nat
      /\ \A s \in S : rank[s] \in 1 .. n /\ rank[s] = RankIn(S, R, s)
      /\ \A s, t \in S : <<s, t>> \in R => rank[s] < rank[t]
  BY RankGrows
<1>2. \A s, t \in S : rank[s] = rank[t] => s = t
  <2> SUFFICES ASSUME NEW s \in S, NEW t \in S, s # t PROVE rank[s] # rank[t]
    OBVIOUS
  <2>1. rank[s] < rank[t] \/ rank[t] < rank[s]
    BY <1>1 DEF StrictOrder
  <2>2. rank[s] \in Int /\ rank[t] \in Int
    BY <1>1
  <2> HIDE DEF rank
  <2> QED BY <2>1, <2>2
<1>3. rank \in Injection(S, 1 .. n)
  BY <1>1, <1>2 DEF Injection, IsInjective
<1>4. rank \in Surjection(S, 1 .. n)
  <2>1. IsFiniteSet(1 .. n) /\ Cardinality(1 .. n) = n
    BY <1>1, FS_Interval
  <2> HIDE DEF rank
  <2> QED BY <1>3, <2>1, FS_Injection
<1>5. \A i \in 1 .. n : \E s \in S : rank[s] = i
  BY <1>4 DEF Surjection
<1> HIDE DEF rank
<1> QED BY <1>1, <1>2, <1>5

\* A sequence of elements at their ranks is sorted.
LEMMA RanksSort ==
  ASSUME NEW S, IsFiniteSet(S), NEW R, StrictOrder(S, R), NEW q \in [1 .. Cardinality(S) -> S],
         \A i \in 1 .. Cardinality(S) : RankIn(S, R, q[i]) = i
  PROVE  SortedList(q, S, R) /\ Len(q) = Cardinality(S)
<1> DEFINE n == Cardinality(S)
<1>1. /\ n \in Nat
      /\ \A s \in S : RankIn(S, R, s) \in 1 .. n
      /\ \A s, t \in S : <<s, t>> \in R => RankIn(S, R, s) < RankIn(S, R, t)
  BY RankGrows
<1>2. /\ q \in [1 .. n -> S]
      /\ \A i \in 1 .. n : RankIn(S, R, q[i]) = i
  OBVIOUS
<1> HIDE DEF n
<1>7. q \in Seq(S) /\ Len(q) = n
  BY <1>1, <1>2
<1>8. \A s \in S : \E i \in 1 .. n : q[i] = s
  <2> TAKE s \in S
  <2>1. RankIn(S, R, s) \in 1 .. n
    BY <1>1
  <2>2. PICK i \in 1 .. n : i = RankIn(S, R, s)
    BY <2>1
  <2>3. q[i] \in S /\ RankIn(S, R, q[i]) = RankIn(S, R, s)
    BY <1>2, <2>2
  <2> QED BY <2>3, RanksTaken
<1>9. ASSUME NEW i \in 1 .. n, NEW j \in 1 .. n, i < j PROVE <<q[i], q[j]>> \in R
  <2>1. q[i] \in S /\ q[j] \in S /\ RankIn(S, R, q[i]) = i /\ RankIn(S, R, q[j]) = j
    BY <1>2
  <2>2. q[i] # q[j]
    BY <1>9, <2>1
  <2>3. <<q[j], q[i]>> \in R => j < i
    BY <1>1, <2>1
  <2>4. ~ (j < i)
    BY <1>1, <1>9
  <2> QED BY <2>1, <2>2, <2>3, <2>4 DEF StrictOrder
<1> QED BY <1>7, <1>8, <1>9 DEF SortedList, n


(* Lists joined one after the other.                                       *)

LEMMA NatSteps ==
  ASSUME NEW G, 0 \in G, \A n \in Nat : n \in G => n + 1 \in G
  PROVE  \A n \in Nat : n \in G
<1> DEFINE R == OpToRel(<, Nat)
           I == Nat \ G
<1>1. SUFFICES ASSUME I # {} PROVE FALSE
  OBVIOUS
<1>2. IsWellFoundedOn(R, Nat) /\ I \in SUBSET Nat
  <2>1. IsWellFoundedOn(R, Nat)
    BY NatLessThanWellFounded
  <2> QED BY <2>1
<1>3. \A x, y \in Nat : x < y => <<x, y>> \in R
  BY DEF OpToRel
<1> HIDE DEF R
<1>4. PICK i \in I : \A y \in I : ~ (<<y, i>> \in R)
  BY <1>1, <1>2, WFMin
<1>5. i # 0 /\ i \in Nat /\ i - 1 \in Nat /\ i - 1 < i /\ (i - 1) + 1 = i
  OBVIOUS
<1>6. i - 1 \notin I
  BY <1>3, <1>4, <1>5
<1> QED BY <1>5, <1>6

\* f[n] is what the first n lists of F join to.
Joins(f, F, N) == f = [n \in 0 .. N |-> IF n = 0 THEN <<>> ELSE f[n - 1] \o F[n]]

LEMMA JoinsExist ==
  ASSUME NEW F, NEW N \in Nat
  PROVE  \E f : Joins(f, F, N)
<1> DEFINE G == {n \in Nat : \E f : Joins(f, F, n)}
<1>1. 0 \in G
  <2>1. Joins([n \in 0 .. 0 |-> <<>>], F, 0)
    BY DEF Joins
  <2> QED BY <2>1
<1>2. ASSUME NEW n \in Nat, n \in G PROVE n + 1 \in G
  <2>1. PICK f : Joins(f, F, n)
    BY <1>2
  <2> DEFINE g == [i \in 0 .. n + 1 |-> IF i = n + 1 THEN f[n] \o F[n + 1] ELSE f[i]]
  <2>2. \A i \in 0 .. n : g[i] = f[i] /\ f[i] = IF i = 0 THEN <<>> ELSE f[i - 1] \o F[i]
    BY <2>1 DEF Joins
  <2>3. \A i \in 0 .. n + 1 : g[i] = IF i = 0 THEN <<>> ELSE g[i - 1] \o F[i]
    <3> TAKE i \in 0 .. n + 1
    <3>1. CASE i = n + 1
      <4>0. g[n + 1] = f[n] \o F[n + 1]
        OBVIOUS
      <4>1. g[i] = f[n] \o F[n + 1] /\ i # 0 /\ i - 1 = n
        <5> HIDE DEF g
        <5> QED BY <3>1, <4>0
      <4>2. g[n] = f[n] /\ n \in 0 .. n
        BY <2>2
      <4> HIDE DEF g
      <4> QED BY <3>1, <4>1, <4>2
    <3>2. CASE i # n + 1
      <4>1. i \in 0 .. n /\ (i # 0 => i - 1 \in 0 .. n)
        BY <3>2
      <4>2. g[i] = f[i] /\ (i # 0 => g[i - 1] = f[i - 1])
        BY <2>2, <4>1
      <4> HIDE DEF g
      <4> QED BY <2>2, <4>1, <4>2
    <3> QED BY <3>1, <3>2
  <2>4. DOMAIN g = 0 .. n + 1 /\ g = [i \in 0 .. n + 1 |-> g[i]]
    OBVIOUS
  <2> HIDE DEF g
  <2>5. Joins(g, F, n + 1)
    BY <2>3, <2>4 DEF Joins
  <2> QED BY <2>5
<1> HIDE DEF G
<1>3. N \in G
  BY <1>1, <1>2, NatSteps
<1> QED BY <1>3 DEF G

LEMMA JoinedIs ==
  ASSUME NEW F, Len(F) \in Nat
  PROVE  \E f : Joins(f, F, Len(F)) /\ Lanes!Joined(F) = f[Len(F)]
<1>1. \E f : Joins(f, F, Len(F))
  BY JoinsExist
<1> QED BY <1>1 DEF Joins, Lanes!Joined

\* Every place of r is one of a list of F, and r is as long as t, which has at that place what
\* the list of G has there; no place of F is left out.
Zipped(r, t, F, G, n) ==
  /\ Len(r) = Len(t)
  /\ \A i \in 1 .. Len(r) : \E m \in 1 .. n : \E j \in 1 .. Len(F[m]) :
       r[i] = F[m][j] /\ t[i] = G[m][j]
  /\ \A m \in 1 .. n : \A j \in 1 .. Len(F[m]) : \E i \in 1 .. Len(r) : r[i] = F[m][j]

LEMMA ConcatPlaces ==
  ASSUME NEW A, NEW p \in Seq(A), NEW q \in Seq(A)
  PROVE  /\ p \o q \in Seq(A) /\ Len(p \o q) = Len(p) + Len(q)
         /\ \A i \in 1 .. Len(p) : (p \o q)[i] = p[i]
         /\ \A i \in 1 .. Len(q) : (p \o q)[Len(p) + i] = q[i]
         /\ \A i \in 1 .. Len(p \o q) :
              i \in 1 .. Len(p) \/ (i - Len(p) \in 1 .. Len(q) /\ i = Len(p) + (i - Len(p)))
OBVIOUS

LEMMA ZippedOn ==
  ASSUME NEW A, NEW B, NEW n \in Nat, NEW F, NEW G, NEW r \in Seq(A), NEW t \in Seq(B),
         F[n + 1] \in Seq(A), G[n + 1] \in Seq(B), Len(F[n + 1]) = Len(G[n + 1]),
         Zipped(r, t, F, G, n)
  PROVE  Zipped(r \o F[n + 1], t \o G[n + 1], F, G, n + 1)
<1> DEFINE a == F[n + 1]
           b == G[n + 1]
           r2 == r \o a
           t2 == t \o b
<1>1. a \in Seq(A) /\ b \in Seq(B) /\ Len(a) = Len(b) /\ Len(a) \in Nat /\ Len(r) \in Nat
      /\ Len(r) = Len(t)
  BY DEF Zipped
<1>2. /\ Len(r2) = Len(r) + Len(a)
      /\ \A i \in 1 .. Len(r) : r2[i] = r[i]
      /\ \A i \in 1 .. Len(a) : r2[Len(r) + i] = a[i]
  <2> HIDE DEF a
  <2>1. Len(r2) = Len(r) + Len(a)
    BY <1>1, ConcatPlaces
  <2>2. \A i \in 1 .. Len(r) : r2[i] = r[i]
    BY <1>1, ConcatPlaces
  <2>3. \A i \in 1 .. Len(a) : r2[Len(r) + i] = a[i]
    BY <1>1, ConcatPlaces
  <2> QED BY <2>1, <2>2, <2>3
<1>3. /\ Len(t2) = Len(t) + Len(b)
      /\ \A i \in 1 .. Len(t) : t2[i] = t[i]
      /\ \A i \in 1 .. Len(b) : t2[Len(t) + i] = b[i]
  <2> HIDE DEF b
  <2> QED BY <1>1, ConcatPlaces
<1>4. n + 1 \in 1 .. n + 1 /\ \A m \in 1 .. n : m \in 1 .. n + 1
  OBVIOUS
<1>5. a = F[n + 1] /\ b = G[n + 1]
  OBVIOUS
<1> HIDE DEF a, b, r2, t2
<1>6. Len(r2) = Len(t2)
  BY <1>1, <1>2, <1>3
<1>7. ASSUME NEW i \in 1 .. Len(r2)
      PROVE  \E m \in 1 .. n + 1 : \E j \in 1 .. Len(F[m]) : r2[i] = F[m][j] /\ t2[i] = G[m][j]
  <2>1. CASE i \in 1 .. Len(r)
    <3>1. r2[i] = r[i] /\ t2[i] = t[i]
      BY <1>1, <1>2, <1>3, <2>1
    <3>2. PICK m \in 1 .. n : \E j \in 1 .. Len(F[m]) : r[i] = F[m][j] /\ t[i] = G[m][j]
      BY <2>1 DEF Zipped
    <3> QED BY <1>4, <3>1, <3>2
  <2>2. CASE i \notin 1 .. Len(r)
    <3>1. PICK j \in 1 .. Len(a) : i = Len(r) + j
      <4>1. i - Len(r) \in 1 .. Len(a) /\ i = Len(r) + (i - Len(r))
        BY <1>1, <1>2, <2>2
      <4> QED BY <4>1
    <3>2. r2[i] = a[j] /\ t2[i] = b[j]
      BY <1>1, <1>2, <1>3, <3>1
    <3> QED BY <1>4, <1>5, <3>2
  <2> QED BY <2>1, <2>2
<1>8. ASSUME NEW m \in 1 .. n + 1, NEW j \in 1 .. Len(F[m])
      PROVE  \E i \in 1 .. Len(r2) : r2[i] = F[m][j]
  <2>1. CASE m \in 1 .. n
    <3>1. PICK i \in 1 .. Len(r) : r[i] = F[m][j]
      BY <2>1 DEF Zipped
    <3>2. i \in 1 .. Len(r2)
      BY <1>1, <1>2
    <3> QED BY <1>2, <3>1, <3>2
  <2>2. CASE m = n + 1
    <3>1. j \in 1 .. Len(a) /\ F[m][j] = a[j]
      BY <1>5, <2>2
    <3>2. Len(r) + j \in 1 .. Len(r2)
      BY <1>1, <1>2, <3>1
    <3> QED BY <1>2, <3>1, <3>2
  <2>3. m \in 1 .. n \/ m = n + 1
    OBVIOUS
  <2> QED BY <2>1, <2>2, <2>3
<1>9. Zipped(r2, t2, F, G, n + 1)
  BY <1>6, <1>7, <1>8 DEF Zipped
<1> QED BY <1>9 DEF r2, t2, a, b

LEMMA JoinedZip ==
  ASSUME NEW A, NEW B, NEW N \in Nat, NEW F, NEW G, Len(F) = N, Len(G) = N,
         \A n \in 1 .. N : F[n] \in Seq(A) /\ G[n] \in Seq(B) /\ Len(F[n]) = Len(G[n])
  PROVE  /\ Lanes!Joined(F) \in Seq(A) /\ Lanes!Joined(G) \in Seq(B)
         /\ Zipped(Lanes!Joined(F), Lanes!Joined(G), F, G, N)
<1>1. PICK f : Joins(f, F, N) /\ Lanes!Joined(F) = f[N]
  BY JoinedIs
<1>2. PICK g : Joins(g, G, N) /\ Lanes!Joined(G) = g[N]
  BY JoinedIs
<1>3. \A n \in 0 .. N : f[n] = IF n = 0 THEN <<>> ELSE f[n - 1] \o F[n]
  BY <1>1 DEF Joins
<1>4. \A n \in 0 .. N : g[n] = IF n = 0 THEN <<>> ELSE g[n - 1] \o G[n]
  BY <1>2 DEF Joins
<1> DEFINE P == {n \in Nat : n <= N => f[n] \in Seq(A) /\ g[n] \in Seq(B) /\ Zipped(f[n], g[n], F, G, n)}
<1>5. 0 \in P
  <2>1. f[0] = <<>> /\ g[0] = <<>>
    BY <1>3, <1>4
  <2>2. Zipped(<<>>, <<>>, F, G, 0)
    BY DEF Zipped
  <2>3. f[0] \in Seq(A) /\ g[0] \in Seq(B)
    BY <2>1
  <2> QED BY <2>1, <2>2, <2>3
<1>6. ASSUME NEW n \in Nat, n \in P PROVE n + 1 \in P
  <2> SUFFICES ASSUME n + 1 <= N
               PROVE  f[n + 1] \in Seq(A) /\ g[n + 1] \in Seq(B) /\ Zipped(f[n + 1], g[n + 1], F, G, n + 1)
    OBVIOUS
  <2>1. n <= N /\ n + 1 \in 0 .. N /\ n + 1 \in 1 .. N /\ n + 1 # 0 /\ (n + 1) - 1 = n
    OBVIOUS
  <2>2. f[n] \in Seq(A) /\ g[n] \in Seq(B) /\ Zipped(f[n], g[n], F, G, n)
    BY <1>6, <2>1
  <2> HIDE DEF P
  <2>3. f[n + 1] = f[n] \o F[n + 1]
    BY <1>3, <2>1
  <2>4. g[n + 1] = g[n] \o G[n + 1]
    BY <1>4, <2>1
  <2>5. F[n + 1] \in Seq(A) /\ G[n + 1] \in Seq(B) /\ Len(F[n + 1]) = Len(G[n + 1])
    BY <2>1
  <2>6. Zipped(f[n] \o F[n + 1], g[n] \o G[n + 1], F, G, n + 1)
    BY <2>2, <2>5, ZippedOn
  <2>7. f[n] \o F[n + 1] \in Seq(A) /\ g[n] \o G[n + 1] \in Seq(B)
    BY <2>2, <2>5
  <2> QED BY <2>3, <2>4, <2>6, <2>7
<1>7. N \in P
  <2> HIDE DEF P
  <2> QED BY <1>5, <1>6, NatSteps
<1>8. f[N] \in Seq(A) /\ g[N] \in Seq(B) /\ Zipped(f[N], g[N], F, G, N)
  BY <1>7
<1> QED BY <1>1, <1>2, <1>8

(* The pairs of a deletion.                                                *)

LEMMA LaneElements ==
  ASSUME NEW A, NEW q \in Seq(A)
  PROVE  /\ \A x : x \in Lanes!ToSet(q) <=> \E i \in 1 .. Len(q) : q[i] = x
         /\ \A x : Lanes!Contains(q, x) <=> x \in Lanes!ToSet(q)
         /\ \A x \in Lanes!ToSet(q) : x \in A
<1>1. \A x : x \in Lanes!ToSet(q) <=> \E i \in 1 .. Len(q) : q[i] = x
  BY DEF Lanes!ToSet
<1>2. \A x : Lanes!Contains(q, x) <=> x \in Lanes!ToSet(q)
  BY <1>1 DEF Lanes!Contains
<1>3. \A i \in 1 .. Len(q) : q[i] \in A
  OBVIOUS
<1> QED BY <1>1, <1>2, <1>3

\* Where the stories of a lane go when D is carried out.
Heir(D, k) == IF k = D.lane THEN D.to ELSE k

\* A deletion that has read all lanes, the deleted one and its heir among them, which may be the
\* same.
Read(D) ==
  /\ D.keys \in Seq(Lanes!Lanes) /\ D.lane \in Lanes!Lanes /\ D.to \in Lanes!Lanes
  /\ D.none \in Seq(Stories) /\ D.ids \in [Lanes!Lanes -> Seq(Stories)]
  /\ D.count \in [Lanes!Lanes -> Nat]
  /\ D.lane \in Lanes!ToSet(D.keys) /\ D.to \in Lanes!ToSet(D.keys)
  /\ \A k \in Lanes!ToSet(D.keys) : D.count[k] = Len(D.ids[k])

\* What a lane of the board contributes to the lists.
Part(D, listed, k) ==
  CASE k = D.lane -> <<>>
    [] k = D.to /\ D.to # D.lane -> listed[D.to] \o listed[D.lane]
    [] OTHER -> listed[k]

LEMMA TargetsRight ==
  ASSUME NEW D, Read(D), NEW k \in Lanes!Lanes
  PROVE  /\ Lanes!Targets(D)[k] \in Seq(Lanes!Lanes)
         /\ Len(Lanes!Targets(D)[k]) = D.count[k]
         /\ \A i \in 1 .. D.count[k] : Lanes!Targets(D)[k][i] = Heir(D, k)
<1>1. Lanes!Targets(D)[k] = [i \in 1 .. D.count[k] |-> Heir(D, k)]
  BY DEF Lanes!Targets, Heir
<1>2. D.count[k] \in Nat /\ Heir(D, k) \in Lanes!Lanes
  BY DEF Read, Heir
<1>3. \A c \in Nat, h \in Lanes!Lanes :
        /\ [i \in 1 .. c |-> h] \in Seq(Lanes!Lanes) /\ Len([i \in 1 .. c |-> h]) = c
        /\ \A i \in 1 .. c : [j \in 1 .. c |-> h][i] = h
  OBVIOUS
<1> QED BY <1>1, <1>2, <1>3

\* The story is listed for the lane k, and is to go where those of k go.
LEMMA PartRight ==
  ASSUME NEW D, Read(D), NEW k \in Lanes!ToSet(D.keys)
  PROVE  LET p == Part(D, D.ids, k)
             t == Part(D, Lanes!Targets(D), k)
         IN /\ p \in Seq(Stories) /\ t \in Seq(Lanes!Lanes) /\ Len(p) = Len(t)
            /\ \A j \in 1 .. Len(p) : \E m \in Lanes!ToSet(D.keys) :
                 p[j] \in Lanes!ToSet(D.ids[m]) /\ t[j] = Heir(D, m)
<1> DEFINE T == Lanes!Targets(D)
           p == Part(D, D.ids, k)
           t == Part(D, T, k)
<1>1. \A m \in Lanes!ToSet(D.keys) : m \in Lanes!Lanes
  BY LaneElements DEF Read
<1>2. ASSUME NEW m \in Lanes!ToSet(D.keys)
      PROVE  /\ D.ids[m] \in Seq(Stories) /\ T[m] \in Seq(Lanes!Lanes) /\ Len(D.ids[m]) = Len(T[m])
             /\ \A j \in 1 .. Len(D.ids[m]) : D.ids[m][j] \in Lanes!ToSet(D.ids[m]) /\ T[m][j] = Heir(D, m)
  <2>1. m \in Lanes!Lanes /\ D.ids[m] \in Seq(Stories) /\ D.count[m] = Len(D.ids[m])
    BY <1>1 DEF Read
  <2>2. \A j \in 1 .. Len(D.ids[m]) : D.ids[m][j] \in Lanes!ToSet(D.ids[m])
    BY <2>1, LaneElements
  <2>3. T[m] \in Seq(Lanes!Lanes)
    BY <2>1, TargetsRight
  <2>4. Len(T[m]) = D.count[m]
    BY <2>1, TargetsRight
  <2>5. \A i \in 1 .. D.count[m] : T[m][i] = Heir(D, m)
    BY <2>1, TargetsRight
  <2> HIDE DEF T
  <2> QED BY <2>1, <2>2, <2>3, <2>4, <2>5
<1> HIDE DEF T
<1>3. D.lane \in Lanes!ToSet(D.keys) /\ D.to \in Lanes!ToSet(D.keys)
  BY DEF Read
<1>4. CASE k = D.lane
  <2>1. p = <<>> /\ t = <<>>
    BY <1>4 DEF Part
  <2> QED BY <2>1 DEF T
<1>5. CASE k = D.to /\ k # D.lane
  <2> DEFINE a == D.ids[D.to]
             b == D.ids[D.lane]
             c == T[D.to]
             e == T[D.lane]
  <2>1. p = a \o b /\ t = c \o e
    BY <1>3, <1>5 DEF Part
  <2>2. a \in Seq(Stories) /\ c \in Seq(Lanes!Lanes) /\ Len(a) = Len(c)
        /\ \A j \in 1 .. Len(a) : a[j] \in Lanes!ToSet(D.ids[D.to]) /\ c[j] = Heir(D, D.to)
    BY <1>2, <1>3
  <2>3. b \in Seq(Stories) /\ e \in Seq(Lanes!Lanes) /\ Len(b) = Len(e)
        /\ \A j \in 1 .. Len(b) : b[j] \in Lanes!ToSet(D.ids[D.lane]) /\ e[j] = Heir(D, D.lane)
    BY <1>2, <1>3
  <2> HIDE DEF a, b, c, e, p, t
  <2>4. p \in Seq(Stories) /\ Len(p) = Len(a) + Len(b)
    <3>1. a \in Seq(Stories) /\ b \in Seq(Stories)
      BY <2>2, <2>3
    <3> QED BY <2>1, <3>1
  <2>5. t \in Seq(Lanes!Lanes) /\ Len(t) = Len(c) + Len(e)
    BY <2>1, <2>2, <2>3
  <2>6. ASSUME NEW j \in 1 .. Len(p)
        PROVE  \E m \in Lanes!ToSet(D.keys) : p[j] \in Lanes!ToSet(D.ids[m]) /\ t[j] = Heir(D, m)
    <3>1. CASE j \in 1 .. Len(a)
      <4>1. p[j] = a[j] /\ t[j] = c[j]
        BY <2>1, <2>2, <2>3, <3>1
      <4> QED BY <1>3, <2>2, <3>1, <4>1
    <3>2. CASE j \notin 1 .. Len(a)
      <4>1. PICK i \in 1 .. Len(b) : j = Len(a) + i
        <5>1. j - Len(a) \in 1 .. Len(b) /\ j = Len(a) + (j - Len(a))
          BY <2>2, <2>3, <2>4, <3>2
        <5> QED BY <5>1
      <4>2. p[j] = b[i] /\ t[j] = e[i]
        BY <2>1, <2>2, <2>3, <4>1
      <4> QED BY <1>3, <2>3, <4>2
    <3> QED BY <3>1, <3>2
  <2>7. p \in Seq(Stories) /\ t \in Seq(Lanes!Lanes) /\ Len(p) = Len(t)
    BY <2>2, <2>3, <2>4, <2>5
  <2> QED BY <2>6, <2>7 DEF p, t, T
<1>6. CASE k # D.lane /\ k # D.to
  <2>1. p = D.ids[k] /\ t = T[k]
    BY <1>6 DEF Part
  <2> HIDE DEF p, t
  <2>2. p \in Seq(Stories) /\ t \in Seq(Lanes!Lanes) /\ Len(p) = Len(t)
        /\ \A j \in 1 .. Len(p) : p[j] \in Lanes!ToSet(D.ids[k]) /\ t[j] = Heir(D, k)
    BY <1>2, <2>1
  <2> QED BY <2>2 DEF p, t, T
<1> QED BY <1>4, <1>5, <1>6

LEMMA PairsRight ==
  ASSUME NEW D, Read(D)
  PROVE  /\ \E size \in Nat : DOMAIN Lanes!Pairs(D) = 1 .. size
         /\ \A i \in DOMAIN Lanes!Pairs(D) :
              LET p == Lanes!Pairs(D)[i] IN
              \/ p.story \in Lanes!ToSet(D.none) /\ p.lane = NoLane
              \/ \E k \in Lanes!ToSet(D.keys) : p.story \in Lanes!ToSet(D.ids[k]) /\ p.lane = Heir(D, k)
         /\ D.to # D.lane => \A s \in Lanes!ToSet(D.ids[D.lane]) : \E i \in DOMAIN Lanes!Pairs(D) :
              Lanes!Pairs(D)[i].story = s
<1> DEFINE T == Lanes!Targets(D)
           N == Len(D.keys)
           F == [n \in DOMAIN D.keys |-> Part(D, D.ids, D.keys[n])]
           G == [n \in DOMAIN D.keys |-> Part(D, T, D.keys[n])]
           r == Lanes!Flat(D, D.ids)
           t == Lanes!Flat(D, T)
           none == [i \in 1 .. Len(D.none) |-> NoLane]
           uss == D.none \o r
           target == none \o t
           B == Lanes!Lanes \cup {NoLane}
<1>1. N \in Nat /\ DOMAIN D.keys = 1 .. N
  BY DEF Read
<1>2. Len(F) = N /\ Len(G) = N /\ \A n \in 1 .. N : F[n] = Part(D, D.ids, D.keys[n]) /\ G[n] = Part(D, T, D.keys[n])
  BY <1>1
<1>3. r = Lanes!Joined(F) /\ t = Lanes!Joined(G)
  BY DEF Lanes!Flat, Part
<1>4. \A n \in 1 .. N : D.keys[n] \in Lanes!ToSet(D.keys)
  BY LaneElements DEF Read
<1> HIDE DEF F, G, r, t, N
<1>5. ASSUME NEW n \in 1 .. N
      PROVE  /\ F[n] \in Seq(Stories) /\ G[n] \in Seq(Lanes!Lanes) /\ Len(F[n]) = Len(G[n])
             /\ \A j \in 1 .. Len(F[n]) : \E m \in Lanes!ToSet(D.keys) :
                  F[n][j] \in Lanes!ToSet(D.ids[m]) /\ G[n][j] = Heir(D, m)
  <2>1. D.keys[n] \in Lanes!ToSet(D.keys)
    BY <1>4
  <2> HIDE DEF T
  <2> QED BY <1>2, <2>1, PartRight DEF T
<1>6. r \in Seq(Stories) /\ t \in Seq(Lanes!Lanes) /\ Zipped(r, t, F, G, N)
  BY <1>1, <1>2, <1>3, <1>5, JoinedZip
<1>7. D.none \in Seq(Stories) /\ Len(D.none) \in Nat
  BY DEF Read
<1>8. none \in Seq(B) /\ Len(none) = Len(D.none) /\ \A i \in 1 .. Len(D.none) : none[i] = NoLane
  BY <1>7
<1>9. t \in Seq(B)
  BY <1>6
<1> HIDE DEF none, T, B
<1>10. uss \in Seq(Stories) /\ Len(uss) = Len(D.none) + Len(r)
  BY <1>6, <1>7
<1>11. target \in Seq(B) /\ Len(target) = Len(none) + Len(t)
  BY <1>8, <1>9
<1>12. /\ \A i \in 1 .. Len(D.none) : uss[i] = D.none[i]
       /\ \A i \in 1 .. Len(r) : uss[Len(D.none) + i] = r[i]
  BY <1>6, <1>7, ConcatPlaces
<1>13. /\ \A i \in 1 .. Len(none) : target[i] = none[i]
       /\ \A i \in 1 .. Len(t) : target[Len(none) + i] = t[i]
  BY <1>8, <1>9, ConcatPlaces
<1>14. Len(r) \in Nat /\ Len(r) = Len(t) /\ Len(uss) = Len(target) /\ Len(uss) \in Nat
  BY <1>6, <1>7, <1>8, <1>10, <1>11 DEF Zipped
<1>15. Lanes!Pairs(D) = [i \in 1 .. Len(uss) |-> [story |-> uss[i], lane |-> target[i]]]
  BY <1>14 DEF Lanes!Pairs, r, t, T, none
<1> HIDE DEF uss, target
<1>16. DOMAIN Lanes!Pairs(D) = 1 .. Len(uss)
       /\ \A i \in 1 .. Len(uss) : Lanes!Pairs(D)[i].story = uss[i] /\ Lanes!Pairs(D)[i].lane = target[i]
  BY <1>15
<1>17. ASSUME NEW i \in 1 .. Len(uss)
       PROVE  \/ uss[i] \in Lanes!ToSet(D.none) /\ target[i] = NoLane
              \/ \E k \in Lanes!ToSet(D.keys) : uss[i] \in Lanes!ToSet(D.ids[k]) /\ target[i] = Heir(D, k)
  <2>1. CASE i \in 1 .. Len(D.none)
    <3>1. uss[i] = D.none[i] /\ target[i] = NoLane
      BY <1>8, <1>12, <1>13, <2>1
    <3>2. D.none[i] \in Lanes!ToSet(D.none)
      BY <1>7, <2>1, LaneElements
    <3> QED BY <3>1, <3>2
  <2>2. CASE i \notin 1 .. Len(D.none)
    <3>1. PICK j \in 1 .. Len(r) : i = Len(D.none) + j
      <4>1. i - Len(D.none) \in 1 .. Len(r) /\ i = Len(D.none) + (i - Len(D.none))
        BY <1>7, <1>10, <1>14, <2>2
      <4> QED BY <4>1
    <3>2. uss[i] = r[j] /\ target[i] = t[j]
      BY <1>8, <1>12, <1>13, <1>14, <3>1
    <3>3. PICK m \in 1 .. N : \E h \in 1 .. Len(F[m]) : r[j] = F[m][h] /\ t[j] = G[m][h]
      BY <1>6 DEF Zipped
    <3>4. PICK h \in 1 .. Len(F[m]) : r[j] = F[m][h] /\ t[j] = G[m][h]
      BY <3>3
    <3> QED BY <1>5, <3>2, <3>4
  <2> QED BY <2>1, <2>2
<1>18. ASSUME D.to # D.lane, NEW s \in Lanes!ToSet(D.ids[D.lane])
       PROVE  \E i \in 1 .. Len(uss) : uss[i] = s
  <2> DEFINE a == D.ids[D.to]
             b == D.ids[D.lane]
  <2>1. PICK n \in 1 .. N : D.keys[n] = D.to
    BY LaneElements DEF Read, N
  <2>2. a \in Seq(Stories) /\ b \in Seq(Stories) /\ F[n] = a \o b
    BY <1>2, <1>18, <2>1 DEF Part, Read
  <2>3. PICK h \in 1 .. Len(b) : b[h] = s
    BY <2>2, LaneElements
  <2> HIDE DEF a, b
  <2>4. Len(a) + h \in 1 .. Len(F[n]) /\ F[n][Len(a) + h] = s
    <3>1. a \in Seq(Stories) /\ b \in Seq(Stories)
      BY <2>2
    <3>2. Len(a \o b) = Len(a) + Len(b) /\ Len(a) \in Nat /\ Len(b) \in Nat
      BY <3>1
    <3>3. (a \o b)[Len(a) + h] = b[h]
      BY <3>1, ConcatPlaces
    <3>4. Len(a) + h \in 1 .. Len(a \o b)
      BY <3>2
    <3> QED BY <2>2, <2>3, <3>3, <3>4
  <2>5. PICK j \in 1 .. Len(r) : r[j] = s
    BY <1>6, <2>4 DEF Zipped
  <2>6. Len(D.none) + j \in 1 .. Len(uss)
    BY <1>7, <1>10, <1>14
  <2>7. uss[Len(D.none) + j] = s
    BY <1>12, <2>5
  <2> QED BY <2>6, <2>7
<1>19. Len(uss) \in Nat
  BY <1>14
<1> QED BY <1>16, <1>17, <1>18, <1>19

(* The stories of a lane.                                                  *)

LEMMA SortedHas ==
  ASSUME NEW S, IsFiniteSet(S), NEW R, StrictOrder(S, R)
  PROVE  /\ Lanes!Sorted(S, R) \in Seq(S) /\ Len(Lanes!Sorted(S, R)) = Cardinality(S)
         /\ Lanes!ToSet(Lanes!Sorted(S, R)) = S
<1> DEFINE n == Cardinality(S)
           q == Lanes!Sorted(S, R)
<1>1. q = [i \in 1 .. n |-> CHOOSE s \in S : i = RankIn(S, R, s)]
  BY DEF Lanes!Sorted, RankIn, Below, Cardinality, Lanes!Cardinality
<1>2. \A i \in 1 .. n : \E s \in S : RankIn(S, R, s) = i
  BY RanksTaken
<1>3. \A i \in 1 .. n : q[i] \in S /\ RankIn(S, R, q[i]) = i
  BY <1>1, <1>2
<1>4. q \in [1 .. n -> S]
  BY <1>1, <1>3
<1> HIDE DEF q
<1>5. SortedList(q, S, R) /\ Len(q) = Cardinality(S)
  BY <1>3, <1>4, RanksSort
<1>6. q \in Seq(S) /\ \A s \in S : \E i \in 1 .. Len(q) : q[i] = s
  BY <1>5 DEF SortedList
<1>7. Lanes!ToSet(q) = S
  BY <1>6, LaneElements
<1> QED BY <1>5, <1>6, <1>7 DEF q

LaneOf(k) == {s \in Stories : lane[s] = k}

LEMMA InLaneHas ==
  ASSUME places \in [Stories -> Nat], NEW k
  PROVE  /\ Lanes!InLane(k) \in Seq(Stories) /\ Len(Lanes!InLane(k)) = Cardinality(LaneOf(k))
         /\ Lanes!ToSet(Lanes!InLane(k)) = LaneOf(k)
<1> DEFINE S == LaneOf(k)
           R == Lanes!ByOrder
<1>1. IsFiniteSet(S) /\ S \subseteq Stories
  BY StoriesAssumption, FS_Subset DEF LaneOf
<1>2. \A s \in Stories : s \in Nat /\ places[s] \in Nat
  BY StoriesAssumption
<1>3. \A s, t \in Stories :
        <<s, t>> \in R <=> places[s] < places[t] \/ (places[s] = places[t] /\ s < t)
  BY DEF Lanes!ByOrder
<1> HIDE DEF R
<1>4. \A s \in S : s \in Nat /\ places[s] \in Nat
  BY <1>1, <1>2
<1>5. \A s, t \in S :
        <<s, t>> \in R <=> places[s] < places[t] \/ (places[s] = places[t] /\ s < t)
  BY <1>1, <1>3
<1> HIDE DEF S
<1>6. StrictOrder(S, R)
  <2>1. \A s \in S : <<s, s>> \notin R
    BY <1>4, <1>5
  <2>2. ASSUME NEW s \in S, NEW t \in S, NEW u \in S, <<s, t>> \in R, <<t, u>> \in R
        PROVE  <<s, u>> \in R
    <3>1. /\ s \in Nat /\ t \in Nat /\ u \in Nat
          /\ places[s] \in Nat /\ places[t] \in Nat /\ places[u] \in Nat
      BY <1>4
    <3>2. /\ places[s] < places[t] \/ (places[s] = places[t] /\ s < t)
          /\ places[t] < places[u] \/ (places[t] = places[u] /\ t < u)
      BY <1>5, <2>2
    <3>3. places[s] < places[u] \/ (places[s] = places[u] /\ s < u)
      BY <3>1, <3>2
    <3> QED BY <1>5, <3>3
  <2>3. ASSUME NEW s \in S, NEW t \in S, s # t
        PROVE  <<s, t>> \in R \/ <<t, s>> \in R
    <3>1. s \in Nat /\ t \in Nat /\ places[s] \in Nat /\ places[t] \in Nat
      BY <1>4
    <3>2. \/ places[s] < places[t] \/ (places[s] = places[t] /\ s < t)
          \/ places[t] < places[s] \/ (places[t] = places[s] /\ t < s)
      BY <2>3, <3>1
    <3> QED BY <1>5, <3>2
  <2> QED BY <2>1, <2>2, <2>3 DEF StrictOrder
<1>7. Lanes!InLane(k) = Lanes!Sorted(S, R)
  BY DEF Lanes!InLane, LaneOf, S, R
<1>8. Lanes!Sorted(S, R) \in Seq(S) /\ Len(Lanes!Sorted(S, R)) = Cardinality(S)
  BY <1>1, <1>6, SortedHas
<1>9. Lanes!ToSet(Lanes!Sorted(S, R)) = S
  BY <1>1, <1>6, SortedHas
<1>10. Lanes!Sorted(S, R) \in Seq(Stories)
  BY <1>1, <1>8
<1> QED BY <1>7, <1>8, <1>9, <1>10 DEF S

LEMMA OnBoardHas ==
  ASSUME LastLane \in Nat, NEW L \in SUBSET Lanes!Lanes
  PROVE  Lanes!OnBoard(L) \in Seq(L) /\ Lanes!ToSet(Lanes!OnBoard(L)) = L
<1> DEFINE R == {p \in L \X L : p[1] < p[2]}
<1>1. IsFiniteSet(L)
  <2>1. IsFiniteSet(Lanes!Lanes)
    BY FS_Interval DEF Lanes!Lanes
  <2> QED BY <2>1, FS_Subset
<1>2. \A s, t \in L : s \in Nat /\ (<<s, t>> \in R <=> s < t)
  BY DEF Lanes!Lanes
<1> HIDE DEF R
<1>3. StrictOrder(L, R)
  <2>1. \A s \in L : <<s, s>> \notin R
    BY <1>2
  <2>2. ASSUME NEW s \in L, NEW t \in L, NEW u \in L, <<s, t>> \in R, <<t, u>> \in R
        PROVE  <<s, u>> \in R
    <3>1. s < t /\ t < u /\ s \in Nat /\ t \in Nat /\ u \in Nat
      BY <1>2, <2>2
    <3>2. s < u
      BY <3>1
    <3> QED BY <1>2, <3>2
  <2>3. \A s, t \in L : s # t => <<s, t>> \in R \/ <<t, s>> \in R
    BY <1>2
  <2> QED BY <2>1, <2>2, <2>3 DEF StrictOrder
<1>4. Lanes!OnBoard(L) = Lanes!Sorted(L, R)
  BY DEF Lanes!OnBoard, R
<1> QED BY <1>1, <1>3, <1>4, SortedHas

(* Stories keep their lane.                                                *)

DragRecords ==
  [story : Stories, lane : Lanes!Lanes, step : {"listed", "done", "failed"}, ids : Seq(Stories)]

DeletionRecords ==
  [lane : Lanes!Lanes \cup {NoLane}, to : Lanes!Lanes \cup {NoLane},
   step : {"idle", "checked", "list", "count", "allowed", "clear", "last", "done", "failed"},
   todo : Seq(Lanes!Lanes), keys : Seq(Lanes!Lanes), none : Seq(Stories),
   ids : [Lanes!Lanes -> Seq(Stories)], count : [Lanes!Lanes -> Nat]]

LaneTypes ==
  /\ lanes \subseteq Lanes!Lanes
  /\ lane \in [Stories -> Lanes!Lanes \cup {NoLane}]
  /\ home \in [Stories -> Lanes!Lanes \cup {NoLane}]
  /\ places \in [Stories -> Nat]
  /\ deletions \in [Deletions -> DeletionRecords]
  /\ drags \in Seq(DragRecords)

\* The lanes whose stories D has listed, the last one maybe not yet counted.
Heard(D) ==
  (Lanes!ToSet(D.keys) \ Lanes!ToSet(D.todo)) \cup (IF D.step = "count" THEN {Head(D.todo)} ELSE {})

\* What D has read is still so, but for the stories that were dragged.
ReadInv(D) ==
  /\ D.lane \in Lanes!ToSet(D.keys)
  /\ \A s \in Stories \ moved :
       /\ s \in Lanes!ToSet(D.none) => lane[s] = NoLane
       /\ \A k \in Heard(D) : s \in Lanes!ToSet(D.ids[k]) <=> lane[s] = k
  /\ \A k \in Lanes!ToSet(D.keys) \ Lanes!ToSet(D.todo) : D.count[k] = Len(D.ids[k])
  /\ D.step = "count" =>
       D.todo # <<>> /\ Len(D.ids[Head(D.todo)]) = Cardinality(LaneOf(Head(D.todo)))

\* The lane of a deletion under way exists, and one that was allowed has listed its heir.
DeletionFine(D) ==
  /\ D.step \notin {"idle", "done", "failed"} => D.lane \in lanes
  /\ D.step \in {"checked", "list", "count", "allowed"} => D.to \in Lanes!Lanes
  /\ D.step \in {"clear", "last"} => D.to = NoLane
  /\ D.step \in {"list", "count", "allowed"} => ReadInv(D)
  /\ D.step = "allowed" => D.todo = <<>> /\ D.to \in Lanes!ToSet(D.keys)

AtHome == \A s \in Stories \ moved : lane[s] = home[s]

Placed == LaneTypes /\ AtHome /\ \A d \in Deletions : DeletionFine(deletions[d])

PlacedInv == ~ skewed => Placed

LEMMA InitPlaced ==
  ASSUME LastLane \in Nat, Lanes!Init
  PROVE  PlacedInv
<1>1. deletions = [d \in Deletions |-> Lanes!Unsent] /\ drags = <<>> /\ home = lane
      /\ places = [s \in Stories |-> s] /\ lane \in [Stories -> lanes \cup {NoLane}]
  BY DEF Lanes!Init
<1>2. lanes \subseteq Lanes!Lanes
  BY DEF Lanes!Init, Lanes!Lanes
<1>3. Lanes!Unsent \in DeletionRecords /\ Lanes!Unsent.step = "idle"
  BY DEF Lanes!Unsent, DeletionRecords
<1>4. places \in [Stories -> Nat]
  BY <1>1, StoriesAssumption
<1>5. LaneTypes
  BY <1>1, <1>2, <1>3, <1>4 DEF LaneTypes
<1>6. \A d \in Deletions : DeletionFine(deletions[d])
  BY <1>1, <1>3 DEF DeletionFine
<1> QED BY <1>1, <1>5, <1>6 DEF PlacedInv, Placed, AtHome

LEMMA FineStays ==
  ASSUME NEW D, DeletionFine(D), UNCHANGED <<lane, moved>>, lanes \subseteq lanes'
  PROVE  DeletionFine(D)'
<1>1. Heard(D)' = Heard(D) /\ \A k : LaneOf(k)' = LaneOf(k)
  BY DEF Heard, LaneOf
<1>2. ReadInv(D) => ReadInv(D)'
  BY <1>1 DEF ReadInv
<1> QED BY <1>2 DEF DeletionFine

\* Nothing is known of a deletion that does not run.
LEMMA FineAtRest ==
  ASSUME NEW D, D.step \in {"idle", "done", "failed"}
  PROVE  DeletionFine(D) /\ DeletionFine(D)'
BY DEF DeletionFine

LEMMA InsertPlaced ==
  ASSUME Placed, NEW l \in Lanes!Lanes, Lanes!InsertLane(l) \/ Lanes!SetDefault(l)
  PROVE  Placed'
<1>1. /\ UNCHANGED <<lane, places, deletions, drags, home, moved>> /\ lanes \subseteq lanes'
      /\ lanes' \subseteq lanes \cup {l}
  BY DEF Lanes!InsertLane, Lanes!SetDefault
<1>2. LaneTypes' /\ AtHome'
  BY <1>1 DEF Placed, LaneTypes, AtHome
<1>3. ASSUME NEW d \in Deletions PROVE DeletionFine(deletions[d])'
  <2>1. PICK D : D = deletions[d]
    OBVIOUS
  <2>2. DeletionFine(D)'
    BY <1>1, <2>1, FineStays DEF Placed
  <2> QED BY <1>1, <2>1, <2>2
<1> QED BY <1>2, <1>3 DEF Placed

LEMMA SaveProjectPlaced ==
  ASSUME Placed, NEW v, Lanes!SaveProject(v)
  PROVE  Placed'
<1>1. UNCHANGED <<lanes, lane, places, deletions, drags, home, moved>>
  BY DEF Lanes!SaveProject
<1>2. LaneTypes' /\ AtHome'
  BY <1>1 DEF Placed, LaneTypes, AtHome
<1>3. ASSUME NEW d \in Deletions PROVE DeletionFine(deletions[d])'
  <2>1. PICK D : D = deletions[d]
    OBVIOUS
  <2>2. DeletionFine(D)'
    BY <1>1, <2>1, FineStays DEF Placed
  <2> QED BY <1>1, <2>1, <2>2
<1> QED BY <1>2, <1>3 DEF Placed

LEMMA TakeAllPlaced ==
  ASSUME SwimlanesInv, Placed, NEW l \in Lanes!Lanes, Lanes!TakeAll(l)
  PROVE  Placed'
<1>1. /\ creation.step = "counted" /\ creation.lane = l
      /\ UNCHANGED <<lanes, places, deletions, drags, moved>>
      /\ lane' = IF lanes = {l} THEN [s \in Stories |-> l] ELSE lane
      /\ home' = IF lanes = {l} THEN [s \in Stories |-> l] ELSE home
  BY DEF Lanes!TakeAll
<1>2. \A d \in Deletions : deletions[d].lane # l
  <2>1. creation # Lanes!NoCreation
    BY <1>1 DEF Lanes!NoCreation
  <2> QED BY <1>1, <2>1 DEF SwimlanesInv, CreationInv
<1>3. LaneTypes' /\ AtHome'
  BY <1>1 DEF Placed, LaneTypes, AtHome
<1>4. ASSUME NEW d \in Deletions PROVE DeletionFine(deletions[d])'
  <2>1. PICK D : D = deletions[d] /\ D = deletions'[d]
    BY <1>1
  <2>2. DeletionFine(D)
    BY <2>1 DEF Placed
  <2>3. CASE lanes = {l}
    <3>1. D \in DeletionRecords /\ D.lane \notin lanes
      BY <1>2, <2>1, <2>3 DEF Placed, LaneTypes
    <3>2. D.step \in {"idle", "done", "failed"}
      BY <2>2, <3>1 DEF DeletionFine
    <3>3. DeletionFine(D)'
      BY <3>2, FineAtRest
    <3> QED BY <2>1, <3>3
  <2>4. CASE lanes # {l}
    <3>1. UNCHANGED <<lane, moved>> /\ lanes \subseteq lanes'
      BY <1>1, <2>4
    <3>2. DeletionFine(D)'
      BY <2>2, <3>1, FineStays
    <3> QED BY <2>1, <3>2
  <2> QED BY <2>3, <2>4
<1> QED BY <1>3, <1>4 DEF Placed

\* A step of a deletion that touches no lane and no story.
LEMMA DeletionPlaced ==
  ASSUME Placed, NEW d \in Deletions, NEW record \in DeletionRecords, Lanes!Set(d, record),
         UNCHANGED <<lanes, lane, places, drags, home, moved>>, DeletionFine(record)
  PROVE  Placed'
<1>1. /\ deletions' = [deletions EXCEPT ![d] = record]
      /\ deletions' \in [Deletions -> DeletionRecords]
  BY DEF Lanes!Set, Placed, LaneTypes
<1>2. LaneTypes' /\ AtHome'
  BY <1>1 DEF Placed, LaneTypes, AtHome
<1>3. ASSUME NEW e \in Deletions PROVE DeletionFine(deletions[e])'
  <2>1. PICK D : D = deletions'[e]
    OBVIOUS
  <2>2. D = record \/ D = deletions[e]
    BY <1>1, <2>1 DEF Placed, LaneTypes
  <2>3. DeletionFine(D)
    BY <2>2 DEF Placed
  <2>4. UNCHANGED <<lane, moved>> /\ lanes \subseteq lanes'
    OBVIOUS
  <2>5. DeletionFine(D)'
    BY <2>3, <2>4, FineStays
  <2> QED BY <2>1, <2>5
<1> QED BY <1>2, <1>3 DEF Placed

LEMMA DeletePlaced ==
  ASSUME Placed, NEW d \in Deletions, NEW l \in Lanes!Lanes, NEW to \in Lanes!Lanes \cup {NoLane},
         Lanes!Delete(d, l, to)
  PROVE  Placed'
<1>1. /\ UNCHANGED <<lanes, lane, places, drags, home, moved>> /\ l \in lanes
      /\ \/ to \in lanes
            /\ Lanes!Set(d, [Lanes!Unsent EXCEPT !.lane = l, !.to = to, !.step = "checked"])
         \/ Lanes!Set(d, [Lanes!Unsent EXCEPT !.lane = l, !.step = "clear"])
  BY DEF Lanes!Delete
<1>2. Lanes!Unsent \in DeletionRecords /\ Lanes!Unsent.to = NoLane
  BY DEF Lanes!Unsent, DeletionRecords
<1>3. ASSUME NEW record, to \in lanes,
             record = [Lanes!Unsent EXCEPT !.lane = l, !.to = to, !.step = "checked"]
      PROVE  record \in DeletionRecords /\ DeletionFine(record)
  <2>1. record \in DeletionRecords /\ record.lane = l /\ record.to = to /\ record.step = "checked"
    BY <1>2, <1>3 DEF DeletionRecords
  <2>2. to \in Lanes!Lanes
    BY <1>3 DEF Placed, LaneTypes
  <2> QED BY <1>1, <1>3, <2>1, <2>2 DEF DeletionFine
<1>4. ASSUME NEW record, record = [Lanes!Unsent EXCEPT !.lane = l, !.step = "clear"]
      PROVE  record \in DeletionRecords /\ DeletionFine(record)
  <2>1. record \in DeletionRecords /\ record.lane = l /\ record.to = NoLane /\ record.step = "clear"
    BY <1>2, <1>4 DEF DeletionRecords
  <2> QED BY <1>1, <2>1 DEF DeletionFine
<1> QED BY <1>1, <1>3, <1>4, DeletionPlaced

LEMMA ListNonePlaced ==
  ASSUME LastLane \in Nat, Placed, NEW d \in Deletions, Lanes!ListNone(d)
  PROVE  Placed'
<1> DEFINE none == Lanes!InLane(NoLane)
           board == Lanes!OnBoard(lanes)
<1>1. PICK D : D = deletions[d]
  OBVIOUS
<1>2. /\ D.step = "checked" /\ UNCHANGED <<lanes, lane, places, drags, home, moved>>
      /\ Lanes!Set(d, [D EXCEPT !.none = none, !.todo = board, !.keys = board, !.step = "list"])
  BY <1>1 DEF Lanes!ListNone
<1>3. D \in DeletionRecords /\ DeletionFine(D) /\ lanes \in SUBSET Lanes!Lanes
      /\ places \in [Stories -> Nat]
  BY <1>1 DEF Placed, LaneTypes
<1>4. none \in Seq(Stories) /\ Lanes!ToSet(none) = LaneOf(NoLane)
  BY <1>3, InLaneHas
<1>5. board \in Seq(lanes) /\ Lanes!ToSet(board) = lanes
  BY <1>3, OnBoardHas
<1>6. board \in Seq(Lanes!Lanes)
  BY <1>3, <1>5
<1> HIDE DEF none, board
<1>7. PICK record : record = [D EXCEPT !.none = none, !.todo = board, !.keys = board, !.step = "list"]
  OBVIOUS
<1>8. /\ record \in DeletionRecords
      /\ record.lane = D.lane /\ record.to = D.to /\ record.step = "list"
      /\ record.none = none /\ record.todo = board /\ record.keys = board
  BY <1>3, <1>4, <1>6, <1>7 DEF DeletionRecords
<1>9. Heard(record) = {}
  BY <1>8 DEF Heard
<1>10. \A s \in Stories : s \in Lanes!ToSet(none) => lane[s] = NoLane
  BY <1>4 DEF LaneOf
<1>11. D.lane \in lanes /\ D.to \in Lanes!Lanes
  BY <1>2, <1>3 DEF DeletionFine
<1>12. ReadInv(record)
  BY <1>5, <1>8, <1>9, <1>10, <1>11 DEF ReadInv
<1>13. DeletionFine(record)
  BY <1>8, <1>11, <1>12 DEF DeletionFine
<1> QED BY <1>2, <1>7, <1>8, <1>13, DeletionPlaced

LEMMA ListLanePlaced ==
  ASSUME Placed, NEW d \in Deletions, Lanes!ListLane(d)
  PROVE  Placed'
<1>1. PICK D : D = deletions[d]
  OBVIOUS
<1>2. PICK l : l = Head(D.todo)
  OBVIOUS
<1> DEFINE ids == Lanes!InLane(l)
<1>3. /\ D.step = "list" /\ D.todo # <<>> /\ UNCHANGED <<lanes, lane, places, drags, home, moved>>
      /\ Lanes!Set(d, [D EXCEPT !.ids[l] = ids, !.step = "count"])
  BY <1>1, <1>2 DEF Lanes!ListLane
<1>4. D \in DeletionRecords /\ DeletionFine(D) /\ places \in [Stories -> Nat]
  BY <1>1 DEF Placed, LaneTypes
<1>5. ids \in Seq(Stories) /\ Lanes!ToSet(ids) = LaneOf(l) /\ Len(ids) = Cardinality(LaneOf(l))
  BY <1>4, InLaneHas
<1> HIDE DEF ids
<1>6. l \in Lanes!Lanes
  <2>1. D.todo \in Seq(Lanes!Lanes)
    BY <1>4 DEF DeletionRecords
  <2> QED BY <1>2, <1>3, <2>1
<1>7. PICK record : record = [D EXCEPT !.ids[l] = ids, !.step = "count"]
  OBVIOUS
<1>8. /\ record \in DeletionRecords
      /\ record.lane = D.lane /\ record.to = D.to /\ record.step = "count"
      /\ record.none = D.none /\ record.todo = D.todo /\ record.keys = D.keys /\ record.count = D.count
      /\ record.ids = [D.ids EXCEPT ![l] = ids]
  BY <1>4, <1>5, <1>6, <1>7 DEF DeletionRecords
<1>9. record.ids[l] = ids /\ \A k \in Lanes!Lanes \ {l} : record.ids[k] = D.ids[k]
  <2>1. D.ids \in [Lanes!Lanes -> Seq(Stories)]
    BY <1>4 DEF DeletionRecords
  <2> QED BY <1>6, <1>8, <2>1
<1>10. Heard(record) = Heard(D) \cup {l} /\ Heard(D) = Lanes!ToSet(D.keys) \ Lanes!ToSet(D.todo)
  BY <1>2, <1>3, <1>8 DEF Heard
<1>11. l \in Lanes!ToSet(D.todo) /\ \A k \in Lanes!ToSet(D.keys) : k \in Lanes!Lanes
  <2>1. D.todo \in Seq(Lanes!Lanes) /\ D.keys \in Seq(Lanes!Lanes)
    BY <1>4 DEF DeletionRecords
  <2>2. D.todo[1] = l /\ 1 \in 1 .. Len(D.todo)
    BY <1>2, <1>3, <2>1
  <2> QED BY <2>1, <2>2, LaneElements
<1>12. ReadInv(D) /\ D.lane \in lanes /\ D.to \in Lanes!Lanes
  BY <1>3, <1>4 DEF DeletionFine
<1>13. ASSUME NEW s \in Stories \ moved, NEW k \in Heard(record)
       PROVE  s \in Lanes!ToSet(record.ids[k]) <=> lane[s] = k
  <2>1. CASE k = l
    BY <1>5, <1>9, <2>1 DEF LaneOf
  <2>2. CASE k # l
    <3>1. k \in Heard(D) /\ k \in Lanes!Lanes
      BY <1>10, <1>11, <1>13, <2>2
    <3> QED BY <1>9, <1>12, <2>2, <3>1 DEF ReadInv
  <2> QED BY <2>1, <2>2
<1>14. ASSUME NEW k \in Lanes!ToSet(D.keys) \ Lanes!ToSet(D.todo)
       PROVE  record.count[k] = Len(record.ids[k])
  <2>1. k # l /\ k \in Lanes!Lanes
    BY <1>11
  <2> QED BY <1>8, <1>9, <1>12, <2>1 DEF ReadInv
<1>15. ReadInv(record)
  <2>1. record.lane \in Lanes!ToSet(record.keys)
    BY <1>8, <1>12 DEF ReadInv
  <2>2. \A s \in Stories \ moved : s \in Lanes!ToSet(record.none) => lane[s] = NoLane
    BY <1>8, <1>12 DEF ReadInv
  <2>3. record.todo # <<>> /\ Len(record.ids[Head(record.todo)]) = Cardinality(LaneOf(Head(record.todo)))
    BY <1>2, <1>3, <1>5, <1>8, <1>9
  <2>4. \A k \in Lanes!ToSet(record.keys) \ Lanes!ToSet(record.todo) : record.count[k] = Len(record.ids[k])
    BY <1>8, <1>14
  <2> QED BY <1>13, <2>1, <2>2, <2>3, <2>4 DEF ReadInv
<1>16. DeletionFine(record)
  BY <1>8, <1>12, <1>15 DEF DeletionFine
<1> QED BY <1>3, <1>7, <1>8, <1>16, DeletionPlaced

LEMMA CountLanePlaced ==
  ASSUME Placed, NEW d \in Deletions, Lanes!CountLane(d)
  PROVE  Placed'
<1>1. PICK D : D = deletions[d]
  OBVIOUS
<1>2. PICK l : l = Head(D.todo)
  OBVIOUS
<1>3. PICK n : n = Len(Lanes!InLane(l))
  OBVIOUS
<1>4. /\ D.step = "count" /\ UNCHANGED <<lanes, lane, places, drags, home, moved>>
      /\ Lanes!Set(d, [D EXCEPT !.count[l] = n, !.todo = Tail(@), !.step = "list"])
  BY <1>1, <1>2, <1>3 DEF Lanes!CountLane
<1>5. D \in DeletionRecords /\ DeletionFine(D) /\ places \in [Stories -> Nat]
  BY <1>1 DEF Placed, LaneTypes
<1>6. ReadInv(D) /\ D.lane \in lanes /\ D.to \in Lanes!Lanes
  BY <1>4, <1>5 DEF DeletionFine
<1>7. D.todo # <<>> /\ Len(D.ids[l]) = Cardinality(LaneOf(l))
  BY <1>2, <1>4, <1>6 DEF ReadInv
<1>8. D.todo \in Seq(Lanes!Lanes) /\ D.keys \in Seq(Lanes!Lanes) /\ D.count \in [Lanes!Lanes -> Nat]
  BY <1>5 DEF DeletionRecords
<1>9. l \in Lanes!Lanes /\ Tail(D.todo) \in Seq(Lanes!Lanes)
  BY <1>2, <1>7, <1>8
<1>10. n \in Nat /\ n = Len(D.ids[l])
  <2>1. Lanes!InLane(l) \in Seq(Stories) /\ n = Cardinality(LaneOf(l))
    BY <1>3, <1>5, InLaneHas
  <2>2. \A q \in Seq(Stories) : Len(q) \in Nat
    OBVIOUS
  <2> QED BY <1>3, <1>7, <2>1, <2>2
<1>11. Lanes!ToSet(D.todo) \subseteq Lanes!ToSet(Tail(D.todo)) \cup {l}
  <2> SUFFICES ASSUME NEW i \in 1 .. Len(D.todo)
               PROVE  D.todo[i] \in Lanes!ToSet(Tail(D.todo)) \cup {l}
    BY <1>8, LaneElements
  <2>1. CASE i = 1
    BY <1>2, <1>7, <1>8, <2>1
  <2>2. CASE i # 1
    <3>1. i - 1 \in 1 .. Len(Tail(D.todo)) /\ Tail(D.todo)[i - 1] = D.todo[i]
      BY <1>7, <1>8, <2>2
    <3> QED BY <1>9, <3>1, LaneElements
  <2> QED BY <2>1, <2>2
<1>12. PICK record : record = [D EXCEPT !.count[l] = n, !.todo = Tail(@), !.step = "list"]
  OBVIOUS
<1>13. /\ record \in DeletionRecords
       /\ record.lane = D.lane /\ record.to = D.to /\ record.step = "list"
       /\ record.none = D.none /\ record.todo = Tail(D.todo) /\ record.keys = D.keys /\ record.ids = D.ids
       /\ record.count = [D.count EXCEPT ![l] = n]
  BY <1>5, <1>9, <1>10, <1>12 DEF DeletionRecords
<1>14. \A k \in Heard(record) : k \in Heard(D)
  BY <1>2, <1>4, <1>11, <1>13 DEF Heard
<1>15. ASSUME NEW k \in Lanes!ToSet(D.keys) \ Lanes!ToSet(Tail(D.todo))
       PROVE  record.count[k] = Len(D.ids[k])
  <2>1. CASE k = l
    BY <1>8, <1>9, <1>10, <1>13, <2>1
  <2>2. CASE k # l
    <3>1. k \in Lanes!ToSet(D.keys) \ Lanes!ToSet(D.todo) /\ k \in Lanes!Lanes
      BY <1>8, <1>11, <2>2, LaneElements
    <3>2. record.count[k] = D.count[k]
      BY <1>8, <1>13, <2>2, <3>1
    <3> QED BY <1>6, <3>1, <3>2 DEF ReadInv
  <2> QED BY <2>1, <2>2
<1>16. ReadInv(record)
  BY <1>6, <1>13, <1>14, <1>15 DEF ReadInv
<1>17. DeletionFine(record)
  BY <1>6, <1>13, <1>16 DEF DeletionFine
<1> QED BY <1>4, <1>12, <1>13, <1>17, DeletionPlaced

LEMMA AllowPlaced ==
  ASSUME Placed, NEW d \in Deletions, Lanes!Allow(d)
  PROVE  Placed'
<1>1. PICK D : D = deletions[d]
  OBVIOUS
<1>2. /\ D.step = "list" /\ D.todo = <<>> /\ UNCHANGED <<lanes, lane, places, drags, home, moved>>
      /\ \/ Lanes!Set(d, [Lanes!Unsent EXCEPT !.lane = D.lane, !.step = "failed"])
         \/ Lanes!Contains(D.keys, D.to) /\ Lanes!Set(d, [D EXCEPT !.step = "allowed"])
  BY <1>1 DEF Lanes!Allow
<1>3. D \in DeletionRecords /\ DeletionFine(D)
  BY <1>1 DEF Placed, LaneTypes
<1>4. ASSUME NEW record, record = [Lanes!Unsent EXCEPT !.lane = D.lane, !.step = "failed"]
      PROVE  record \in DeletionRecords /\ DeletionFine(record)
  <2>1. Lanes!Unsent \in DeletionRecords
    BY DEF Lanes!Unsent, DeletionRecords
  <2>2. D.lane \in Lanes!Lanes \cup {NoLane}
    BY <1>3 DEF DeletionRecords
  <2>3. record \in DeletionRecords /\ record.step = "failed"
    BY <1>4, <2>1, <2>2 DEF DeletionRecords
  <2> QED BY <2>3, FineAtRest
<1>5. ASSUME NEW record, Lanes!Contains(D.keys, D.to), record = [D EXCEPT !.step = "allowed"]
      PROVE  record \in DeletionRecords /\ DeletionFine(record)
  <2>1. /\ record \in DeletionRecords
        /\ record.lane = D.lane /\ record.to = D.to /\ record.step = "allowed"
        /\ record.none = D.none /\ record.todo = D.todo /\ record.keys = D.keys
        /\ record.ids = D.ids /\ record.count = D.count
    BY <1>3, <1>5 DEF DeletionRecords
  <2>2. D.to \in Lanes!ToSet(D.keys)
    BY <1>3, <1>5, LaneElements DEF DeletionRecords
  <2>3. ReadInv(D) /\ D.lane \in lanes /\ D.to \in Lanes!Lanes
    BY <1>2, <1>3 DEF DeletionFine
  <2>4. Heard(record) = Heard(D)
    BY <1>2, <2>1 DEF Heard
  <2>5. ReadInv(record)
    BY <2>1, <2>3, <2>4 DEF ReadInv
  <2> QED BY <1>2, <2>1, <2>2, <2>3, <2>5 DEF DeletionFine
<1> QED BY <1>2, <1>4, <1>5, DeletionPlaced

LEMMA CheckLastPlaced ==
  ASSUME Placed, NEW d \in Deletions, Lanes!CheckLast(d)
  PROVE  Placed'
<1>1. PICK D : D = deletions[d]
  OBVIOUS
<1>2. PICK step : step \in {"failed", "last"} /\ Lanes!Set(d, [D EXCEPT !.step = step])
  BY <1>1 DEF Lanes!CheckLast
<1>3. D.step = "clear" /\ UNCHANGED <<lanes, lane, places, drags, home, moved>>
  BY <1>1 DEF Lanes!CheckLast
<1>4. D \in DeletionRecords /\ DeletionFine(D)
  BY <1>1 DEF Placed, LaneTypes
<1>5. PICK record : record = [D EXCEPT !.step = step]
  OBVIOUS
<1>6. record \in DeletionRecords /\ record.lane = D.lane /\ record.to = D.to /\ record.step = step
  BY <1>2, <1>4, <1>5 DEF DeletionRecords
<1>7. DeletionFine(record)
  BY <1>2, <1>3, <1>4, <1>6 DEF DeletionFine
<1> QED BY <1>2, <1>3, <1>5, <1>6, <1>7, DeletionPlaced

LEMMA DragTyped ==
  ASSUME LaneTypes, NEW s \in Stories, NEW l \in Lanes!Lanes, Lanes!Drag(s, l)
  PROVE  drags' \in Seq(DragRecords)
<1> DEFINE ids == <<s>> \o Lanes!InLane(l)
           drag == [story |-> s, lane |-> l, step |-> "listed", ids |-> ids]
<1>1. drags' = Append(drags, drag)
  BY DEF Lanes!Drag
<1>2. ids \in Seq(Stories)
  <2>1. Lanes!InLane(l) \in Seq(Stories)
    BY InLaneHas DEF LaneTypes
  <2>2. <<s>> \in Seq(Stories)
    OBVIOUS
  <2> QED BY <2>1, <2>2
<1> HIDE DEF ids
<1>3. drag \in DragRecords
  BY <1>2 DEF DragRecords
<1> HIDE DEF drag
<1>4. drags \in Seq(DragRecords)
  BY DEF LaneTypes
<1> QED BY <1>1, <1>3, <1>4

LEMMA DragPlaced ==
  ASSUME Placed, NEW s \in Stories, NEW l \in Lanes!Lanes, Lanes!Drag(s, l)
  PROVE  Placed'
<1>1. UNCHANGED <<lanes, lane, places, deletions, home, moved>>
  BY DEF Lanes!Drag
<1>2. LaneTypes' /\ AtHome'
  BY <1>1, DragTyped DEF Placed, LaneTypes, AtHome
<1>3. ASSUME NEW d \in Deletions PROVE DeletionFine(deletions[d])'
  <2>1. PICK D : D = deletions[d]
    OBVIOUS
  <2>2. DeletionFine(D)'
    BY <1>1, <2>1, FineStays DEF Placed
  <2> QED BY <1>1, <2>1, <2>2
<1> QED BY <1>2, <1>3 DEF Placed

LEMMA DropTyped ==
  ASSUME LaneTypes, NEW i \in DOMAIN drags, Lanes!Drop(i)
  PROVE  places' \in [Stories -> Nat] /\ drags' \in Seq(DragRecords)
<1>1. PICK s, l, ids : s = drags[i].story /\ l = drags[i].lane /\ ids = drags[i].ids
  OBVIOUS
<1> DEFINE fits == l \in lanes
<1>2. /\ places' = [t \in Stories |-> IF t \in Lanes!ToSet(ids) THEN CHOOSE k \in DOMAIN ids : ids[k] = t
                                      ELSE places[t]]
      /\ drags' = [drags EXCEPT ![i].step = IF fits THEN "done" ELSE "failed", ![i].ids = <<>>]
  BY <1>1 DEF Lanes!Drop
<1>3. drags \in Seq(DragRecords) /\ drags[i] \in DragRecords /\ places \in [Stories -> Nat]
  <2>1. drags \in Seq(DragRecords)
    BY DEF LaneTypes
  <2>2. drags[i] \in DragRecords
    BY <2>1
  <2> QED BY <2>1, <2>2 DEF LaneTypes
<1>4. s \in Stories /\ l \in Lanes!Lanes /\ ids \in Seq(Stories)
  BY <1>1, <1>3 DEF DragRecords
<1>5. places' \in [Stories -> Nat]
  <2>1. ASSUME NEW t \in Stories, t \in Lanes!ToSet(ids)
        PROVE  (CHOOSE k \in DOMAIN ids : ids[k] = t) \in Nat
    <3>1. \E k \in DOMAIN ids : ids[k] = t
      BY <1>4, <2>1, LaneElements
    <3>2. (CHOOSE k \in DOMAIN ids : ids[k] = t) \in DOMAIN ids
      BY <3>1
    <3>3. \A k \in DOMAIN ids : k \in Nat
      BY <1>4
    <3> QED BY <3>2, <3>3
  <2> QED BY <1>2, <1>3, <2>1
<1>6. drags' \in Seq(DragRecords)
  <2>1. PICK R, step : R = drags[i] /\ step = IF fits THEN "done" ELSE "failed"
    OBVIOUS
  <2> DEFINE record == [R EXCEPT !.step = step, !.ids = <<>>]
  <2>2. record \in DragRecords
    <3>1. R \in DragRecords /\ step \in {"listed", "done", "failed"}
      BY <1>3, <2>1
    <3>2. <<>> \in Seq(Stories)
      OBVIOUS
    <3> QED BY <3>1, <3>2 DEF DragRecords
  <2>3. drags' = [drags EXCEPT ![i] = record]
    BY <1>2, <1>3, <2>1
  <2> HIDE DEF record
  <2> QED BY <1>3, <2>2, <2>3
<1> QED BY <1>5, <1>6

LEMMA DropPlaced ==
  ASSUME Placed, NEW i \in DOMAIN drags, Lanes!Drop(i), ~ skewed'
  PROVE  Placed'
<1>1. PICK s, l, ids : s = drags[i].story /\ l = drags[i].lane /\ ids = drags[i].ids
  OBVIOUS
<1> DEFINE fits == l \in lanes
<1>2. /\ places' = [t \in Stories |-> IF t \in Lanes!ToSet(ids) THEN CHOOSE k \in DOMAIN ids : ids[k] = t
                                      ELSE places[t]]
      /\ lane' = [lane EXCEPT ![s] = IF fits THEN l ELSE @]
      /\ home' = [home EXCEPT ![s] = IF fits THEN l ELSE @]
      /\ drags' = [drags EXCEPT ![i].step = IF fits THEN "done" ELSE "failed", ![i].ids = <<>>]
      /\ moved' = IF fits /\ (Lanes!Running # {} \/ creation # Lanes!NoCreation) THEN moved \cup {s} ELSE moved
      /\ UNCHANGED <<lanes, deletions>>
  BY <1>1 DEF Lanes!Drop
<1>3. fits => \A d \in Lanes!Running : deletions[d].step # "count"
  BY <1>1 DEF Lanes!Drop
<1>4. drags \in Seq(DragRecords) /\ drags[i] \in DragRecords /\ lanes \in SUBSET Lanes!Lanes
      /\ lane \in [Stories -> Lanes!Lanes \cup {NoLane}] /\ home \in [Stories -> Lanes!Lanes \cup {NoLane}]
      /\ places \in [Stories -> Nat] /\ deletions \in [Deletions -> DeletionRecords]
  <2>1. drags \in Seq(DragRecords)
    BY DEF Placed, LaneTypes
  <2>2. drags[i] \in DragRecords
    BY <2>1
  <2> QED BY <2>1, <2>2 DEF Placed, LaneTypes
<1>5. s \in Stories /\ l \in Lanes!Lanes /\ ids \in Seq(Stories)
  BY <1>1, <1>4 DEF DragRecords
<1>6. places' \in [Stories -> Nat]
  BY DropTyped DEF Placed
<1>7. drags' \in Seq(DragRecords)
  BY DropTyped DEF Placed
<1>8. CASE ~ fits
  <2>1. lane' = lane /\ home' = home /\ moved' = moved
    BY <1>2, <1>4, <1>8
  <2>2. LaneTypes' /\ AtHome'
    BY <1>2, <1>6, <1>7, <2>1 DEF Placed, LaneTypes, AtHome
  <2>3. ASSUME NEW d \in Deletions PROVE DeletionFine(deletions[d])'
    <3>1. PICK D : D = deletions[d]
      OBVIOUS
    <3>2. DeletionFine(D)'
      BY <1>2, <2>1, <3>1, FineStays DEF Placed
    <3> QED BY <1>2, <3>1, <3>2
  <2> QED BY <2>2, <2>3 DEF Placed
<1>9. CASE fits
  <2>1. /\ lane' \in [Stories -> Lanes!Lanes \cup {NoLane}] /\ home' \in [Stories -> Lanes!Lanes \cup {NoLane}]
        /\ lane'[s] = l /\ home'[s] = l
        /\ \A t \in Stories \ {s} : lane'[t] = lane[t] /\ home'[t] = home[t]
    BY <1>2, <1>4, <1>5, <1>9
  <2>2. LaneTypes'
    BY <1>2, <1>4, <1>6, <1>7, <2>1 DEF LaneTypes
  <2>3. moved \subseteq moved'
    BY <1>2
  <2>4. AtHome'
    <3> SUFFICES ASSUME NEW t \in Stories \ moved' PROVE lane'[t] = home'[t]
      BY DEF AtHome
    <3>1. CASE t = s
      BY <2>1, <3>1
    <3>2. CASE t # s
      BY <2>1, <2>3, <3>2 DEF Placed, AtHome
    <3> QED BY <3>1, <3>2
  <2>5. ASSUME NEW d \in Deletions PROVE DeletionFine(deletions[d])'
    <3>1. PICK D : D = deletions[d] /\ D = deletions'[d]
      BY <1>2
    <3>2. DeletionFine(D) /\ D \in DeletionRecords
      BY <1>4, <3>1 DEF Placed
    <3>3. CASE D.step \in {"idle", "done", "failed"}
      <4>1. DeletionFine(D)'
        BY <3>3, FineAtRest
      <4> QED BY <3>1, <4>1
    <3>4. CASE D.step \notin {"idle", "done", "failed"}
      <4>1. d \in Lanes!Running
        BY <3>1, <3>4 DEF Lanes!Running
      <4>2. D.step # "count" /\ s \in moved'
        BY <1>2, <1>3, <1>9, <3>1, <4>1
      <4>3. Heard(D)' = Heard(D)
        BY DEF Heard
      <4>4. ReadInv(D) => ReadInv(D)'
        <5> SUFFICES ASSUME ReadInv(D) PROVE ReadInv(D)'
          OBVIOUS
        <5>1. ASSUME NEW t \in Stories \ moved'
              PROVE  /\ t \in Lanes!ToSet(D.none) => lane'[t] = NoLane
                     /\ \A k \in Heard(D) : t \in Lanes!ToSet(D.ids[k]) <=> lane'[t] = k
          <6>1. t \in Stories \ moved /\ lane'[t] = lane[t]
            BY <2>1, <2>3, <4>2, <5>1
          <6> QED BY <6>1 DEF ReadInv
        <5>2. D.lane \in Lanes!ToSet(D.keys)
              /\ \A k \in Lanes!ToSet(D.keys) \ Lanes!ToSet(D.todo) : D.count[k] = Len(D.ids[k])
          BY DEF ReadInv
        <5> QED BY <4>2, <4>3, <5>1, <5>2 DEF ReadInv
      <4>5. DeletionFine(D)'
        BY <1>2, <3>2, <4>4 DEF DeletionFine
      <4> QED BY <3>1, <4>5
    <3> QED BY <3>3, <3>4
  <2> QED BY <2>2, <2>4, <2>5 DEF Placed
<1> QED BY <1>8, <1>9

LEMMA GoneRecord ==
  ASSUME NEW D \in DeletionRecords, NEW record,
         record = [D EXCEPT !.step = "done", !.none = <<>>, !.keys = <<>>,
                            !.ids = Lanes!Unsent.ids, !.count = Lanes!Unsent.count]
  PROVE  record \in DeletionRecords /\ record.step = "done"
<1>1. /\ Lanes!Unsent.ids \in [Lanes!Lanes -> Seq(Stories)]
      /\ Lanes!Unsent.count \in [Lanes!Lanes -> Nat]
  BY DEF Lanes!Unsent
<1>2. ASSUME NEW ids \in [Lanes!Lanes -> Seq(Stories)], NEW count \in [Lanes!Lanes -> Nat],
             record = [D EXCEPT !.step = "done", !.none = <<>>, !.keys = <<>>, !.ids = ids, !.count = count]
      PROVE  record \in DeletionRecords /\ record.step = "done"
  <2>1. <<>> \in Seq(Stories) /\ <<>> \in Seq(Lanes!Lanes)
    OBVIOUS
  <2> QED BY <1>2, <2>1 DEF DeletionRecords
<1> QED BY <1>1, <1>2

\* The lane goes: nobody else deletes one, and what is assigned is what the users know.
LEMMA GonePlaced ==
  ASSUME Placed, NEW d \in Deletions, NEW D, D = deletions[d],
         NEW assigned \in [Stories -> Lanes!Lanes \cup {NoLane}], NEW placed \in [Stories -> Nat],
         Lanes!DeleteLane(d, assigned, placed), UNCHANGED <<drags, moved>>,
         skewed' = (skewed \/ (deletions'[d].step = "done" /\ Lanes!Running # {d})), ~ skewed',
         \A s \in Stories \ moved :
           (IF assigned[s] = D.lane THEN NoLane ELSE assigned[s]) = IF home[s] = D.lane THEN Lanes!HeirOf(D) ELSE home[s]
  PROVE  Placed'
<1>1. PICK record : record = [D EXCEPT !.step = "done", !.none = <<>>, !.keys = <<>>,
                                       !.ids = Lanes!Unsent.ids, !.count = Lanes!Unsent.count]
  OBVIOUS
<1>2. /\ lanes' = lanes \ {D.lane} /\ places' = placed
      /\ lane' = [s \in Stories |-> IF assigned[s] = D.lane THEN NoLane ELSE assigned[s]]
      /\ home' = [s \in Stories |-> IF home[s] = D.lane THEN Lanes!HeirOf(D) ELSE home[s]]
      /\ deletions' = [deletions EXCEPT ![d] = record]
  BY <1>1 DEF Lanes!DeleteLane, Lanes!Set
<1>3. /\ D \in DeletionRecords /\ lanes \subseteq Lanes!Lanes /\ deletions \in [Deletions -> DeletionRecords]
      /\ home \in [Stories -> Lanes!Lanes \cup {NoLane}] /\ drags \in Seq(DragRecords)
  BY DEF Placed, LaneTypes
<1>4. record \in DeletionRecords /\ record.step = "done"
  BY <1>1, <1>3, GoneRecord
<1>5. deletions' \in [Deletions -> DeletionRecords] /\ deletions'[d] = record
      /\ \A e \in Deletions \ {d} : deletions'[e] = deletions[e]
  BY <1>2, <1>3, <1>4
<1>6. Lanes!Running = {d}
  BY <1>4, <1>5
<1>7. LaneTypes'
  <2>1. Lanes!HeirOf(D) \in Lanes!Lanes \cup {NoLane}
    BY <1>3 DEF DeletionRecords, Lanes!HeirOf
  <2>2. /\ lane' \in [Stories -> Lanes!Lanes \cup {NoLane}]
        /\ home' \in [Stories -> Lanes!Lanes \cup {NoLane}]
    BY <1>2, <1>3, <2>1
  <2> QED BY <1>2, <1>3, <1>5, <2>2 DEF LaneTypes
<1>8. AtHome'
  BY <1>2 DEF AtHome
<1>9. ASSUME NEW e \in Deletions PROVE DeletionFine(deletions[e])'
  <2>1. PICK E : E = deletions'[e]
    OBVIOUS
  <2>2. E.step \in {"idle", "done", "failed"}
    <3>1. CASE e = d
      BY <1>4, <1>5, <2>1, <3>1
    <3>2. CASE e # d
      <4>1. e \notin Lanes!Running /\ E = deletions[e]
        BY <1>5, <1>6, <2>1, <3>2
      <4> QED BY <4>1 DEF Lanes!Running
    <3> QED BY <3>1, <3>2
  <2>3. DeletionFine(E)'
    BY <2>2, FineAtRest
  <2> QED BY <2>1, <2>3
<1> QED BY <1>7, <1>8, <1>9 DEF Placed

\* With the last lane its stories go to none, as the users know.
LEMMA RemoveLastPlaced ==
  ASSUME Placed, NEW d \in Deletions, Lanes!RemoveLast(d), ~ skewed'
  PROVE  Placed'
<1>1. PICK D : D = deletions[d]
  OBVIOUS
<1>2. D \in DeletionRecords /\ DeletionFine(D) /\ D.step = "last"
  BY <1>1 DEF Placed, LaneTypes, Lanes!RemoveLast
<1>3. CASE D.lane \notin lanes
  <2>1. PICK record : record = [D EXCEPT !.step = "failed"]
    OBVIOUS
  <2>2. Lanes!Set(d, record) /\ UNCHANGED <<lanes, lane, places, drags, home, moved>>
    BY <1>1, <1>3, <2>1 DEF Lanes!RemoveLast
  <2>3. record \in DeletionRecords /\ record.step = "failed"
    BY <1>2, <2>1 DEF DeletionRecords
  <2> QED BY <2>2, <2>3, FineAtRest, DeletionPlaced
<1>4. CASE D.lane \in lanes
  <2>1. Lanes!DeleteLane(d, lane, places) /\ UNCHANGED <<drags, moved>>
    BY <1>1, <1>4 DEF Lanes!RemoveLast
  <2>2. skewed' = (skewed \/ (deletions'[d].step = "done" /\ Lanes!Running # {d}))
    BY DEF Lanes!RemoveLast
  <2>3. D.lane \in Lanes!Lanes /\ Lanes!HeirOf(D) = NoLane
    BY <1>2, <1>4 DEF DeletionFine, Placed, LaneTypes, Lanes!HeirOf
  <2>4. \A s \in Stories \ moved :
          (IF lane[s] = D.lane THEN NoLane ELSE lane[s]) = IF home[s] = D.lane THEN Lanes!HeirOf(D) ELSE home[s]
    BY <2>3 DEF Placed, AtHome
  <2>5. lane \in [Stories -> Lanes!Lanes \cup {NoLane}] /\ places \in [Stories -> Nat]
    BY DEF Placed, LaneTypes
  <2> QED BY <1>1, <2>1, <2>2, <2>4, <2>5, GonePlaced
<1> QED BY <1>3, <1>4

\* The pairs put the stories of every lane where they belong, those of the deleted one in its heir.
\* Those of a lane that is its own heir are in no pair, and go to none with the lane.
LEMMA MovePlaced ==
  ASSUME NoLane \notin Lanes!Lanes, Placed, NEW d \in Deletions, Lanes!MoveAndRemove(d), ~ skewed'
  PROVE  Placed'
<1>1. PICK D : D = deletions[d]
  OBVIOUS
<1>2. D \in DeletionRecords /\ DeletionFine(D) /\ D.step = "allowed"
  BY <1>1 DEF Placed, LaneTypes, Lanes!MoveAndRemove
<1>3. CASE Lanes!Refused(d)
  <2>1. PICK record : record = [Lanes!Unsent EXCEPT !.lane = D.lane, !.step = "failed"]
    OBVIOUS
  <2>2. Lanes!Set(d, record) /\ UNCHANGED <<lanes, lane, places, drags, home, moved>>
    BY <1>1, <1>3, <2>1 DEF Lanes!MoveAndRemove
  <2>3. record \in DeletionRecords /\ record.step = "failed"
    <3>1. Lanes!Unsent \in DeletionRecords
      BY DEF Lanes!Unsent, DeletionRecords
    <3>2. D.lane \in Lanes!Lanes \cup {NoLane}
      BY <1>2 DEF DeletionRecords
    <3> QED BY <2>1, <3>1, <3>2 DEF DeletionRecords
  <2> QED BY <2>2, <2>3, FineAtRest, DeletionPlaced
<1>4. CASE ~ Lanes!Refused(d)
  <2> DEFINE pairs1 == Lanes!Pairs(deletions[d])
             listed == {pairs1[i].story : i \in DOMAIN pairs1}
  <2>1. pairs1 = Lanes!Pairs(D)
    BY <1>1
  <2>2. /\ D.lane \in lanes /\ D.to \in Lanes!ToSet(D.keys) /\ D.todo = <<>>
        /\ \A i \in DOMAIN pairs1 : pairs1[i].lane \in lanes \cup {NoLane}
    BY <1>1, <1>2, <1>4 DEF Lanes!Refused, DeletionFine
  <2>3. listed = {pairs1[i].story : i \in DOMAIN pairs1}
    OBVIOUS
  <2>4. PICK pick \in [listed -> DOMAIN pairs1] :
          /\ \A s \in listed : pairs1[pick[s]].story = s
          /\ Lanes!DeleteLane(d,
               [s \in Stories |-> IF s \in listed THEN pairs1[pick[s]].lane ELSE lane[s]],
               [s \in Stories |-> IF s \in listed THEN pick[s] - 1 ELSE places[s]])
    BY <1>4 DEF Lanes!MoveAndRemove
  <2> HIDE DEF pairs1, listed
  <2>5. ReadInv(D) /\ D.to \in Lanes!Lanes
    BY <1>2 DEF DeletionFine
  <2>6. /\ D.keys \in Seq(Lanes!Lanes) /\ D.none \in Seq(Stories)
        /\ D.ids \in [Lanes!Lanes -> Seq(Stories)] /\ D.count \in [Lanes!Lanes -> Nat]
    BY <1>2 DEF DeletionRecords
  <2>7. lanes \in SUBSET Lanes!Lanes /\ lane \in [Stories -> Lanes!Lanes \cup {NoLane}]
        /\ places \in [Stories -> Nat]
    BY DEF Placed, LaneTypes
  <2>8. Lanes!ToSet(D.todo) = {} /\ Heard(D) = Lanes!ToSet(D.keys)
    BY <1>2, <2>2 DEF Heard, Lanes!ToSet
  <2>9. Read(D)
    BY <2>2, <2>5, <2>6, <2>7, <2>8 DEF Read, ReadInv
  <2>10. PICK size \in Nat : DOMAIN pairs1 = 1 .. size
    BY <2>1, <2>9, PairsRight
  <2>11. \A i \in DOMAIN pairs1 :
           \/ pairs1[i].story \in Lanes!ToSet(D.none) /\ pairs1[i].lane = NoLane
           \/ \E k \in Lanes!ToSet(D.keys) : pairs1[i].story \in Lanes!ToSet(D.ids[k]) /\ pairs1[i].lane = Heir(D, k)
    BY <2>1, <2>9, PairsRight
  <2>12. D.to # D.lane => \A s \in Lanes!ToSet(D.ids[D.lane]) : s \in listed
    <3>1. D.to # D.lane => \A s \in Lanes!ToSet(D.ids[D.lane]) : \E i \in DOMAIN pairs1 : pairs1[i].story = s
      BY <2>1, <2>9, PairsRight
    <3> QED BY <2>3, <3>1
  <2> DEFINE assigned == [s \in Stories |-> IF s \in listed THEN pairs1[pick[s]].lane ELSE lane[s]]
             placed == [s \in Stories |-> IF s \in listed THEN pick[s] - 1 ELSE places[s]]
  <2>13. assigned \in [Stories -> Lanes!Lanes \cup {NoLane}]
    BY <2>2, <2>4, <2>7
  <2>14. placed \in [Stories -> Nat]
    <3>1. ASSUME NEW s \in listed PROVE pick[s] - 1 \in Nat
      <4>1. pick[s] \in 1 .. size
        BY <2>4, <2>10
      <4> QED BY <4>1
    <3> QED BY <2>7, <3>1
  <2>15. ASSUME NEW s \in Stories \ moved
         PROVE  (IF assigned[s] = D.lane THEN NoLane ELSE assigned[s]) = IF home[s] = D.lane THEN Lanes!HeirOf(D) ELSE home[s]
    <3>1. lane[s] = home[s] /\ D.lane # NoLane /\ D.to # NoLane
      BY <2>2, <2>5, <2>7 DEF Placed, AtHome
    <3>2. /\ s \in Lanes!ToSet(D.none) => lane[s] = NoLane
          /\ \A k \in Lanes!ToSet(D.keys) : s \in Lanes!ToSet(D.ids[k]) <=> lane[s] = k
          /\ D.lane \in Lanes!ToSet(D.keys)
      BY <2>5, <2>8 DEF ReadInv
    <3>3. CASE s \in listed
      <4>1. PICK i \in DOMAIN pairs1 : i = pick[s] /\ pairs1[i].story = s
        BY <2>4, <3>3
      <4>2. assigned[s] = pairs1[i].lane
        BY <3>3, <4>1
      <4>3. CASE s \in Lanes!ToSet(D.none) /\ pairs1[i].lane = NoLane
        BY <3>1, <3>2, <4>2, <4>3
      <4>4. CASE \E k \in Lanes!ToSet(D.keys) : s \in Lanes!ToSet(D.ids[k]) /\ pairs1[i].lane = Heir(D, k)
        <5>1. PICK k \in Lanes!ToSet(D.keys) : s \in Lanes!ToSet(D.ids[k]) /\ pairs1[i].lane = Heir(D, k)
          BY <4>4
        <5>2. lane[s] = k
          BY <3>2, <5>1
        <5> HIDE DEF assigned
        <5> QED BY <2>5, <3>1, <4>2, <5>1, <5>2 DEF Heir, Lanes!HeirOf
      <4> QED BY <2>11, <4>1, <4>3, <4>4
    <3>4. CASE s \notin listed
      <4>1. assigned[s] = lane[s]
        BY <3>4
      <4>2. D.to # D.lane => lane[s] # D.lane
        BY <2>12, <3>2, <3>4
      <4> HIDE DEF assigned
      <4> QED BY <3>1, <4>1, <4>2 DEF Lanes!HeirOf
    <3> QED BY <3>3, <3>4
  <2>16. Lanes!DeleteLane(d, assigned, placed) /\ UNCHANGED <<drags, moved>>
         /\ skewed' = (skewed \/ (deletions'[d].step = "done" /\ Lanes!Running # {d}))
    BY <2>4 DEF Lanes!MoveAndRemove
  <2> HIDE DEF assigned, placed
  <2> QED BY <1>1, <2>13, <2>14, <2>15, <2>16, GonePlaced
<1> QED BY <1>3, <1>4

LEMMA NextPlaced ==
  ASSUME LastLane \in Nat, NoLane \notin Lanes!Lanes
  PROVE  SwimlanesInv /\ PlacedInv /\ [Lanes!Next]_(Lanes!vars) => PlacedInv'
<1> SUFFICES ASSUME SwimlanesInv, PlacedInv, [Lanes!Next]_(Lanes!vars), ~ skewed' PROVE Placed'
  BY DEF PlacedInv
<1>1. ~ skewed => Placed
  BY DEF PlacedInv
<1>2. CASE UNCHANGED Lanes!vars
  <2>1. UNCHANGED <<lanes, lane, places, deletions, drags, home, moved, skewed>>
    BY <1>2 DEF Lanes!vars
  <2>2. ~ skewed
    BY <2>1
  <2>3. LaneTypes' /\ AtHome'
    BY <1>1, <2>1, <2>2 DEF Placed, LaneTypes, AtHome
  <2>4. ASSUME NEW d \in Deletions PROVE DeletionFine(deletions[d])'
    <3>1. PICK D : D = deletions[d]
      OBVIOUS
    <3>2. DeletionFine(D)'
      BY <1>1, <2>1, <2>2, <3>1, FineStays DEF Placed
    <3> QED BY <2>1, <3>1, <3>2
  <2> QED BY <2>3, <2>4 DEF Placed
<1>3. ASSUME NEW l \in Lanes!Lanes,
             Lanes!InsertLane(l) \/ Lanes!SetDefault(l) \/ Lanes!TakeAll(l)
      PROVE  Placed'
  <2>1. ~ skewed
    BY <1>3 DEF Lanes!InsertLane, Lanes!SetDefault, Lanes!TakeAll
  <2> QED BY <1>1, <1>3, <2>1, InsertPlaced, TakeAllPlaced
<1>4. ASSUME NEW d \in Deletions, NEW l \in Lanes!Lanes, NEW to \in Lanes!Lanes \cup {NoLane},
             Lanes!Delete(d, l, to)
      PROVE  Placed'
  <2>1. ~ skewed
    BY <1>4 DEF Lanes!Delete
  <2> QED BY <1>1, <1>4, <2>1, DeletePlaced
<1>5. ASSUME NEW d \in Deletions,
             \/ Lanes!ListNone(d) \/ Lanes!ListLane(d) \/ Lanes!CountLane(d)
             \/ Lanes!Allow(d) \/ Lanes!CheckLast(d)
      PROVE  Placed'
  <2>1. ~ skewed
    BY <1>5 DEF Lanes!ListNone, Lanes!ListLane, Lanes!CountLane, Lanes!Allow, Lanes!CheckLast
  <2> QED BY <1>1, <1>5, <2>1, ListNonePlaced, ListLanePlaced, CountLanePlaced, AllowPlaced,
             CheckLastPlaced
<1>6. ASSUME NEW d \in Deletions, Lanes!MoveAndRemove(d) \/ Lanes!RemoveLast(d)
      PROVE  Placed'
  <2>1. ~ skewed
    BY <1>6 DEF Lanes!MoveAndRemove, Lanes!RemoveLast
  <2> QED BY <1>1, <1>6, <2>1, MovePlaced, RemoveLastPlaced
<1>7. ASSUME NEW s \in Stories, NEW l \in Lanes!Lanes, Lanes!Drag(s, l)
      PROVE  Placed'
  <2>1. ~ skewed
    BY <1>7 DEF Lanes!Drag
  <2> QED BY <1>1, <1>7, <2>1, DragPlaced
<1>8. ASSUME NEW i \in DOMAIN drags, Lanes!Drop(i)
      PROVE  Placed'
  <2>1. ~ skewed
    BY <1>8 DEF Lanes!Drop
  <2> QED BY <1>1, <1>8, <2>1, DropPlaced
<1>9. ASSUME NEW v, Lanes!SaveProject(v) PROVE Placed'
  <2>1. ~ skewed
    BY <1>9 DEF Lanes!SaveProject
  <2> QED BY <1>1, <1>9, <2>1, SaveProjectPlaced
<1> QED BY <1>2, <1>3, <1>4, <1>5, <1>6, <1>7, <1>8, <1>9 DEF Lanes!Next

LEMMA LaneKept == PlacedInv => Lanes!StoriesKeepLane
BY DEF PlacedInv, Placed, AtHome, Lanes!StoriesKeepLane

LanesInv == what = "lanes" => SwimlanesInv /\ PlacedInv

LEMMA LanesHold == Spec => []LanesInv
<1>1. Init => LanesInv
  BY LanesAssumption, InitLanes, InitPlaced DEF Init, LanesInv, Lanes!Lanes
<1>2. LanesInv /\ [Next]_serverVars => LanesInv'
  <2> SUFFICES ASSUME LanesInv, [Next]_serverVars, what' = "lanes" PROVE LanesInv'
    BY DEF LanesInv
  <2>1. what = "lanes" /\ [Lanes!Next]_(Lanes!vars)
    BY DEF Next, serverVars, laneVars, Lanes!vars
  <2>2. LastLane \in Nat /\ NoLane \notin Lanes!Lanes
    BY LanesAssumption DEF Lanes!Lanes
  <2>3. SwimlanesInv /\ PlacedInv
    BY <2>1 DEF LanesInv
  <2> QED BY <2>1, <2>2, <2>3, NextLanes, NextPlaced DEF LanesInv
<1> QED BY <1>1, <1>2, PTL DEF Spec, serverVars

\* A project that has lanes has a default one, for any number of lanes, stories and requests: but
\* while a lane is being created, when the last save of the project that wrote the default emptied
\* it, and when a lane was created, or another made the default, as the default was about to go.
THEOREM DefaultStays == Spec => []DefaultLane
<1>1. LanesInv => DefaultLane
  BY DefaultExplained DEF LanesInv, DefaultLane
<1> QED BY <1>1, LanesHold, PTL

\* A deletion zips the stories it has read with the lanes it has counted: for any number of lanes,
\* stories, deletions and drags every story that nobody drags meanwhile keeps its lane or follows
\* to the heir, or to none from the last lane and from one that is its own heir; but when a drag
\* ends between a list and its count or another deletion meanwhile.
THEOREM StoriesFollow == Spec => []StoriesKeepLane
<1>1. LanesInv => StoriesKeepLane
  BY LaneKept DEF LanesInv, StoriesKeepLane
<1> QED BY <1>1, LanesHold, PTL

-----------------------------------------------------------------------------
(***************************************************************************)
(* The mails about the changes of an object.                               *)
(***************************************************************************)
Notes == [row : 0 .. MaxChanges, entries : Seq(Mails!Entries), age : 0 .. Day - 1]
Under == [step : {"saved", "noted"}, author : Authors, entry : Mails!Entries,
          row : 0 .. MaxChanges, age : 0 .. Day - 1]

\* Entry i waits for its mail in the notification of a; the batch has mailed that of a and has not
\* deleted it yet.
Holds(notes, a, i) == \E k \in DOMAIN notes[a].entries : notes[a].entries[k].id = i
Sent(a) == batch.step = "sent" /\ batch.author = a

MailTypes ==
  /\ value \in Values /\ told \in Values \cup {Missed}
  /\ DOMAIN pending = Authors
  /\ \A a \in Authors :
       pending[a] \in Notes /\ (pending[a].row = 0 <=> pending[a] = Mails!NoRow)
  /\ change = Mails!NoChange \/ change \in Under
  /\ changes \in 0 .. MaxChanges
  /\ \/ batch = Mails!NoBatch
     \/ batch.step = "listed" /\ DOMAIN batch = {"step", "pages", "page", "todo"}
     \/ /\ batch.step \in {"locked", "sent"} /\ batch.author \in Authors
        /\ DOMAIN batch = {"step", "pages", "page", "todo", "author"}
  /\ interruptions \in Nat
  /\ \A i \in DOMAIN mailed : i \in 1 .. changes /\ mailed[i] \in Nat
  /\ lost \subseteq DOMAIN mailed
  /\ mixed \in BOOLEAN

\* An entry is in one notification, and the change under way in none.
IdsInv ==
  /\ change # Mails!NoChange =>
       /\ change.entry.id = changes /\ change.entry.from = value
       /\ changes \notin DOMAIN mailed /\ changes > 0
       /\ (change.entry.comment \/ change.entry.to # value)
  /\ \A a \in Authors : \A k \in DOMAIN pending[a].entries :
       LET e == pending[a].entries[k] IN
       /\ e.id <= changes /\ (change # Mails!NoChange => e.id # changes)
       /\ e.comment <=> e.id \in DOMAIN mailed
       /\ \A b \in Authors \ {a} : ~ Holds(pending, b, e.id)

\* A row is locked by the change under way or by the batch.
LockInv ==
  /\ change.step = "noted" => ~ Mails!Locked(change.author) /\ change.row > 0
  /\ \A a \in Authors : Mails!Locked(a) => pending[a] # Mails!NoRow

\* A comment that waits was mailed no more often than batches were interrupted, unless the batch
\* is about to delete it.
CountInv ==
  \A i \in DOMAIN mailed :
    /\ mailed[i] <= interruptions + 1
    /\ mailed[i] > 0 \/ i \in lost \/ \E a \in Authors : Holds(pending, a, i)
    /\ \A a \in Authors : Holds(pending, a, i) =>
         IF Sent(a) THEN mailed[i] > 0 \/ i \in lost ELSE mailed[i] <= interruptions

Plains(entries) == {i \in DOMAIN entries : Mails!Plain(entries[i])}
Commented(entries) ==
  {i \in DOMAIN entries : entries[i].comment /\ entries[i].from # entries[i].to}
IsFirst(i, S) == i \in S /\ \A j \in S : i <= j
IsLast(i, S) == i \in S /\ \A j \in S : j <= i

\* The changes of a notification lead from what the watchers were told to the value: those with a
\* comment come first, then those without one.
Summed(entries) ==
  LET p == Plains(entries)
      c == Commented(entries)
  IN
  /\ \A i \in DOMAIN entries : IsLast(i, p) => entries[i].to = value
  /\ p = {} => \A i \in DOMAIN entries : IsLast(i, c) => entries[i].to = value
  /\ \A i, j \in DOMAIN entries :
       IsFirst(i, p) /\ IsLast(j, c) => entries[i].from = entries[j].to
  /\ c = {} => \A i \in DOMAIN entries : IsFirst(i, p) => told \in {entries[i].from, Missed}
  /\ p = {} /\ c = {} => told \in {value, Missed}

\* Without the accidents the property names one notification waits at a time, and its sum is right.
ToldInv ==
  ~ mixed /\ interruptions = 0 =>
    /\ \A a, b \in Authors :
         pending[a] # Mails!NoRow /\ pending[b] # Mails!NoRow => a = b
    /\ (\A a \in Authors : pending[a] = Mails!NoRow) => told \in {value, Missed}
    /\ \A a \in Authors : pending[a] # Mails!NoRow =>
         IF Sent(a) THEN told \in {value, Missed} ELSE Summed(pending[a].entries)

MailsInv == MailTypes /\ IdsInv /\ LockInv /\ CountInv /\ ToldInv

-----------------------------------------------------------------------------
\* The least and the greatest of some places of a sequence.
LEMMA Highest ==
  ASSUME NEW n \in Nat, NEW I \in SUBSET (1 .. n), I # {}
  PROVE  IsLast(Mails!Max(I), I)
<1> DEFINE R == OpToRel(<, Nat)
           T == {n - i : i \in I}
<1>1. T \subseteq Nat /\ T # {}
  <2>1. \A i \in I : i \in Int /\ i <= n
    OBVIOUS
  <2>2. \A i \in I : n - i \in Nat
    BY <2>1
  <2> QED BY <2>2
<1>2. IsWellFoundedOn(R, Nat)
  BY NatLessThanWellFounded
<1>3. \A x, y \in Nat : x < y => <<x, y>> \in R
  BY DEF OpToRel
<1> HIDE DEF R
<1>4. \E x \in T : \A y \in T : ~ (<<y, x>> \in R)
  <2> HIDE DEF T
  <2> QED BY <1>1, <1>2, WFMin
<1>5. PICK i \in I : \A y \in T : ~ (<<y, n - i>> \in R)
  BY <1>4
<1>6. ASSUME NEW j \in I PROVE i >= j
  <2>1. n - j \in T
    OBVIOUS
  <2>2. ~ (n - j < n - i)
    BY <1>1, <1>3, <1>5, <2>1
  <2> QED BY <2>2
<1>7. Mails!Max(I) \in I /\ \A j \in I : Mails!Max(I) >= j
  BY <1>6 DEF Mails!Max
<1>8. ASSUME NEW j \in I PROVE j <= Mails!Max(I)
  BY <1>7
<1> QED BY <1>7, <1>8 DEF IsLast

LEMMA Lowest ==
  ASSUME NEW n \in Nat, NEW I \in SUBSET (1 .. n), I # {}
  PROVE  IsFirst(Mails!Min(I), I)
<1> DEFINE R == OpToRel(<, Nat)
<1>1. IsWellFoundedOn(R, Nat) /\ I \in SUBSET Nat
  <2>1. \A i \in I : i \in Nat
    OBVIOUS
  <2>2. I \in SUBSET Nat
    BY <2>1
  <2>3. IsWellFoundedOn(R, Nat)
    BY NatLessThanWellFounded
  <2> QED BY <2>2, <2>3
<1>2. \A x, y \in Nat : x < y => <<x, y>> \in R
  BY DEF OpToRel
<1> HIDE DEF R
<1>3. PICK i \in I : \A y \in I : ~ (<<y, i>> \in R)
  BY <1>1, WFMin
<1>4. ASSUME NEW y \in I PROVE i <= y
  <2>1. i \in Nat /\ y \in Nat /\ ~ (y < i)
    BY <1>1, <1>2, <1>3
  <2> QED BY <2>1
<1>5. Mails!Min(I) \in I /\ \A j \in I : Mails!Min(I) <= j
  BY <1>4 DEF Mails!Min
<1> QED BY <1>5 DEF IsFirst

\* What the lines of a notification that sums up the field say of it last is its value.
LEMMA SquashRight ==
  ASSUME NEW entries \in Seq(Mails!Entries), Summed(entries)
  PROVE  Mails!Squash(entries, told) \in {value, Missed}
<1> DEFINE p == Plains(entries)
           c == Commented(entries)
<1>1. DOMAIN entries = 1 .. Len(entries) /\ Len(entries) \in Nat
  OBVIOUS
<1>2. p \in SUBSET (1 .. Len(entries)) /\ c \in SUBSET (1 .. Len(entries))
  BY <1>1 DEF Plains, Commented
<1>3. Mails!Squash(entries, told) =
        IF p # {} /\ entries[Mails!Min(p)].from # entries[Mails!Max(p)].to THEN entries[Mails!Max(p)].to
        ELSE IF c # {} THEN entries[Mails!Max(c)].to ELSE told
  BY DEF Mails!Squash, Plains, Commented
<1>4. /\ \A i \in DOMAIN entries : IsLast(i, p) => entries[i].to = value
      /\ p = {} => \A i \in DOMAIN entries : IsLast(i, c) => entries[i].to = value
      /\ \A i, j \in DOMAIN entries : IsFirst(i, p) /\ IsLast(j, c) => entries[i].from = entries[j].to
      /\ c = {} => \A i \in DOMAIN entries : IsFirst(i, p) => told \in {entries[i].from, Missed}
      /\ p = {} /\ c = {} => told \in {value, Missed}
  BY DEF Summed
<1> HIDE DEF p, c
<1>5. p # {} => /\ Mails!Max(p) \in DOMAIN entries /\ Mails!Min(p) \in DOMAIN entries
                /\ IsLast(Mails!Max(p), p) /\ IsFirst(Mails!Min(p), p)
  BY <1>1, <1>2, Highest, Lowest DEF IsLast, IsFirst
<1>6. c # {} => Mails!Max(c) \in DOMAIN entries /\ IsLast(Mails!Max(c), c)
  BY <1>1, <1>2, Highest DEF IsLast
<1>7. CASE p = {}
  BY <1>3, <1>4, <1>6, <1>7
<1>8. CASE p # {} /\ entries[Mails!Min(p)].from # entries[Mails!Max(p)].to
  BY <1>3, <1>4, <1>5, <1>8
<1>9. CASE p # {} /\ entries[Mails!Min(p)].from = entries[Mails!Max(p)].to
  <2>1. entries[Mails!Max(p)].to = value
    BY <1>4, <1>5, <1>9
  <2>2. CASE c = {}
    <3>1. told \in {entries[Mails!Min(p)].from, Missed}
      BY <1>4, <1>5, <1>9, <2>2
    <3> QED BY <1>3, <1>9, <2>1, <2>2, <3>1
  <2>3. CASE c # {}
    <3>1. entries[Mails!Min(p)].from = entries[Mails!Max(c)].to
      BY <1>4, <1>5, <1>6, <1>9, <2>3
    <3> QED BY <1>3, <1>9, <2>1, <2>3, <3>1
  <2> QED BY <2>2, <2>3
<1> QED BY <1>7, <1>8, <1>9

LEMMA SquashTyped ==
  ASSUME NEW entries \in Seq(Mails!Entries), NEW before \in Values \cup {Missed}
  PROVE  Mails!Squash(entries, before) \in Values \cup {Missed}
<1> DEFINE p == Plains(entries)
           c == Commented(entries)
<1>1. /\ DOMAIN entries = 1 .. Len(entries) /\ Len(entries) \in Nat
      /\ \A i \in DOMAIN entries : entries[i] \in Mails!Entries
  OBVIOUS
<1>2. p \in SUBSET (1 .. Len(entries)) /\ c \in SUBSET (1 .. Len(entries))
  BY <1>1 DEF Plains, Commented
<1>3. Mails!Squash(entries, before) =
        IF p # {} /\ entries[Mails!Min(p)].from # entries[Mails!Max(p)].to THEN entries[Mails!Max(p)].to
        ELSE IF c # {} THEN entries[Mails!Max(c)].to ELSE before
  BY DEF Mails!Squash, Plains, Commented
<1> HIDE DEF p, c
<1>4. /\ p # {} => Mails!Max(p) \in DOMAIN entries
      /\ c # {} => Mails!Max(c) \in DOMAIN entries
  BY <1>1, <1>2, Highest DEF IsLast
<1>5. \A i \in DOMAIN entries : entries[i].to \in Values
  BY <1>1 DEF Mails!Entries
<1> QED BY <1>3, <1>4, <1>5

\* Lines that say nothing of the field leave what the watcher knows of it right.
LEMMA SquashSilent ==
  ASSUME NEW entries \in Seq(Mails!Entries), Summed(entries), Missed \notin Values,
         Mails!Squash(entries, Missed) = Missed
  PROVE  told \in {value, Missed}
<1> DEFINE p == Plains(entries)
           c == Commented(entries)
<1>1. /\ DOMAIN entries = 1 .. Len(entries) /\ Len(entries) \in Nat
      /\ \A i \in DOMAIN entries : entries[i] \in Mails!Entries
  OBVIOUS
<1>2. p \in SUBSET (1 .. Len(entries)) /\ c \in SUBSET (1 .. Len(entries))
  BY <1>1 DEF Plains, Commented
<1>3. Missed =
        IF p # {} /\ entries[Mails!Min(p)].from # entries[Mails!Max(p)].to THEN entries[Mails!Max(p)].to
        ELSE IF c # {} THEN entries[Mails!Max(c)].to ELSE Missed
  BY DEF Mails!Squash, Plains, Commented
<1>4. /\ \A i \in DOMAIN entries : IsLast(i, p) => entries[i].to = value
      /\ c = {} => \A i \in DOMAIN entries : IsFirst(i, p) => told \in {entries[i].from, Missed}
      /\ p = {} /\ c = {} => told \in {value, Missed}
  BY DEF Summed
<1> HIDE DEF p, c
<1>5. p # {} => /\ Mails!Max(p) \in DOMAIN entries /\ Mails!Min(p) \in DOMAIN entries
                /\ IsLast(Mails!Max(p), p) /\ IsFirst(Mails!Min(p), p)
  BY <1>1, <1>2, Highest, Lowest DEF IsLast, IsFirst
<1>6. c # {} => Mails!Max(c) \in DOMAIN entries
  BY <1>1, <1>2, Highest DEF IsLast
<1>7. \A i \in DOMAIN entries : entries[i].to # Missed
  BY <1>1 DEF Mails!Entries
<1>8. ~ (p # {} /\ entries[Mails!Min(p)].from # entries[Mails!Max(p)].to)
  BY <1>3, <1>5, <1>7
<1>9. c = {}
  BY <1>3, <1>6, <1>7, <1>8
<1>10. CASE p = {}
  BY <1>4, <1>9, <1>10
<1>11. CASE p # {}
  <2>1. entries[Mails!Max(p)].to = value /\ told \in {entries[Mails!Min(p)].from, Missed}
    BY <1>4, <1>5, <1>9, <1>11
  <2> QED BY <1>8, <1>11, <2>1
<1> QED BY <1>10, <1>11

LEMMA NoMail ==
  /\ Mails!NoChange.step = "none" /\ Mails!NoBatch.step = "none"
  /\ Mails!NoRow.row = 0 /\ Mails!NoRow.entries = <<>> /\ Mails!NoRow.age = 0
  /\ DOMAIN Mails!NoRow.entries = {} /\ DOMAIN Mails!NoChange = {"step"}
  /\ Len(Mails!NoRow.entries) = 0
BY DEF Mails!NoChange, Mails!NoBatch, Mails!NoRow

LEMMA NoRowTyped ==
  ASSUME MaxChanges \in Nat, Day \in Nat \ {0}
  PROVE  Mails!NoRow \in Notes
BY DEF Mails!NoRow, Notes

LEMMA InitMails ==
  ASSUME MaxChanges \in Nat, Day \in Nat \ {0}, Mails!Init
  PROVE  MailsInv
<1> USE DEF Mails!Init
<1>1. MailTypes
  <2>1. /\ pending = [a \in Authors |-> Mails!NoRow] /\ value \in Values /\ told = value
        /\ change = Mails!NoChange /\ changes = 0 /\ batch = Mails!NoBatch /\ DOMAIN mailed = {} /\ lost = {}
        /\ interruptions = 0 /\ mixed = FALSE
    OBVIOUS
  <2>2. \A a \in Authors : pending[a] \in Notes /\ pending[a].row = 0 /\ pending[a] = Mails!NoRow
    BY <2>1, NoRowTyped, NoMail
  <2>3. DOMAIN pending = Authors /\ changes \in 0 .. MaxChanges
    BY <2>1
  <2>4. \A i \in DOMAIN mailed : i \in 1 .. changes /\ mailed[i] \in Nat
    BY <2>1
  <2> HIDE DEF Mails!Init
  <2> QED BY <2>1, <2>2, <2>3, <2>4 DEF MailTypes
<1>2. IdsInv
  BY NoMail DEF IdsInv, Holds
<1>3. LockInv
  BY NoMail DEF LockInv, Mails!Locked
<1>4. CountInv
  BY DEF CountInv
<1>5. ToldInv
  BY DEF ToldInv
<1> QED BY <1>1, <1>2, <1>3, <1>4, <1>5 DEF MailsInv

\* A step that leaves the rows and what is told alone.
LEMMA SummedStays ==
  ASSUME NEW entries, Summed(entries), UNCHANGED <<value, told>>
  PROVE  Summed(entries)'
BY DEF Summed, Plains, Commented, Mails!Plain, IsFirst, IsLast

(***************************************************************************)
(* Changes.                                                                *)
(***************************************************************************)
LEMMA SaveStep ==
  ASSUME MaxChanges \in Nat, Day \in Nat \ {0}, MailsInv,
         NEW a \in Authors, NEW to \in Values, NEW comment \in BOOLEAN, Mails!Save(a, to, comment)
  PROVE  MailsInv'
<1> DEFINE entry == [id |-> changes + 1, from |-> value, to |-> to, comment |-> comment]
<1>1. /\ change = Mails!NoChange /\ changes' = changes + 1 /\ changes < MaxChanges
      /\ change' = [step |-> "saved", author |-> a, row |-> 0, age |-> 0, entry |-> entry]
      /\ UNCHANGED <<value, pending, batch, told, mailed, lost, interruptions, mixed>>
  BY DEF Mails!Save
<1>2. changes \in 0 .. MaxChanges /\ value \in Values
  BY DEF MailsInv, MailTypes
<1>3. changes + 1 \in 1 .. MaxChanges
  BY <1>1, <1>2
<1>4. entry \in Mails!Entries
  BY <1>2, <1>3 DEF Mails!Entries
<1>5. change' \in Under
  BY <1>1, <1>4 DEF Under
<1>6. change'.step = "saved" /\ change'.entry = entry /\ change' # Mails!NoChange
  BY <1>1, NoMail
<1>7. MailTypes'
  BY <1>1, <1>2, <1>3, <1>5 DEF MailsInv, MailTypes
<1>8. IdsInv'
  <2>1. \A b \in Authors : \A k \in DOMAIN pending[b].entries :
          pending[b].entries[k].id <= changes /\ pending[b].entries[k].id \in Nat
    <3>1. \A b \in Authors : pending[b].entries \in Seq(Mails!Entries)
      BY DEF MailsInv, MailTypes, Notes
    <3>2. \A b \in Authors : \A k \in DOMAIN pending[b].entries : pending[b].entries[k] \in Mails!Entries
      BY <3>1
    <3> QED BY <3>2 DEF MailsInv, IdsInv, Mails!Entries
  <2>2. \A b \in Authors : \A k \in DOMAIN pending[b].entries :
          pending[b].entries[k].id <= changes' /\ pending[b].entries[k].id # changes'
    BY <2>1, <1>1, <1>2
  <2>3. changes' \notin DOMAIN mailed
    BY <1>1, <1>2 DEF MailsInv, MailTypes
  <2>5. /\ change'.entry.id = changes' /\ change'.entry.from = value' /\ changes' > 0
        /\ change'.entry.comment \/ change'.entry.to # value'
    <3>1. comment \/ to # value
      BY DEF Mails!Save
    <3> QED BY <1>1, <1>3, <1>6, <3>1
  <2>6. \A b \in Authors : \A k \in DOMAIN pending[b].entries :
          LET e == pending[b].entries[k] IN
            /\ e.comment <=> e.id \in DOMAIN mailed
            /\ \A d \in Authors \ {b} : ~ Holds(pending, d, e.id)
    BY DEF MailsInv, IdsInv
  <2> QED BY <1>1, <2>2, <2>3, <2>5, <2>6 DEF IdsInv
<1>9. LockInv'
  BY <1>1, <1>6 DEF MailsInv, LockInv, Mails!Locked
<1>10. CountInv'
  BY <1>1 DEF MailsInv, CountInv, Holds, Sent
<1>11. ToldInv'
  BY <1>1, SummedStays DEF MailsInv, ToldInv, Sent
<1> QED BY <1>7, <1>8, <1>9, <1>10, <1>11 DEF MailsInv

LEMMA NoteStep ==
  ASSUME MaxChanges \in Nat, Day \in Nat \ {0}, MailsInv, NEW a \in Authors, Mails!Note(a)
  PROVE  MailsInv'
<1>1. /\ change.step = "saved" /\ change.author = a /\ ~ Mails!Locked(a)
      /\ change' = [change EXCEPT !.step = "noted", !.age = 0,
                      !.row = IF pending[a] = Mails!NoRow THEN change.entry.id ELSE pending[a].row]
      /\ UNCHANGED <<value, pending, changes, batch, told, mailed, lost, interruptions, mixed>>
  BY DEF Mails!Note
<1>2. change # Mails!NoChange /\ change \in Under
  BY <1>1, NoMail DEF MailsInv, MailTypes
<1> DEFINE line == IF pending[a] = Mails!NoRow THEN change.entry.id ELSE pending[a].row
<1>3. line \in 1 .. MaxChanges
  BY <1>2 DEF MailsInv, MailTypes, Notes, Under, Mails!Entries
<1>4. /\ change' \in Under /\ change'.step = "noted" /\ change'.author = a
      /\ change'.entry = change.entry /\ change'.row = line
  <2> HIDE DEF line
  <2>1. change' = [change EXCEPT !.step = "noted", !.age = 0, !.row = line]
    BY <1>1 DEF line
  <2>2. /\ change.author \in Authors /\ change.entry \in Mails!Entries
        /\ DOMAIN change = {"step", "author", "entry", "row", "age"}
    BY <1>2 DEF Under
  <2>3. 0 \in 0 .. Day - 1 /\ line \in 0 .. MaxChanges
    BY <1>3
  <2>4. change' = [step |-> "noted", author |-> a, entry |-> change.entry, row |-> line, age |-> 0]
    BY <2>1, <2>2, <1>1, <1>2 DEF Under
  <2> QED BY <2>2, <2>3, <2>4, <1>1 DEF Under
<1>5. change' # Mails!NoChange
  BY <1>4, NoMail
<1> HIDE DEF line
<1>6. MailTypes'
  BY <1>1, <1>4 DEF MailsInv, MailTypes
<1>7. IdsInv'
  <2>1. \A b \in Authors : \A i : Holds(pending', b, i) <=> Holds(pending, b, i)
    BY <1>1 DEF Holds
  <2> QED BY <1>1, <1>2, <1>4, <1>5, <2>1 DEF MailsInv, IdsInv
<1>8. LockInv'
  BY <1>1, <1>3, <1>4 DEF MailsInv, LockInv, Mails!Locked
<1>9. CountInv'
  BY <1>1 DEF MailsInv, CountInv, Holds, Sent
<1>10. ToldInv'
  BY <1>1, SummedStays DEF MailsInv, ToldInv, Sent
<1> QED BY <1>6, <1>7, <1>8, <1>9, <1>10 DEF MailsInv

(***************************************************************************)
(* The commit of a change: one more entry in the notification.             *)
(***************************************************************************)
LEMMA OneMore ==
  ASSUME NEW entries \in Seq(Mails!Entries), NEW entry \in Mails!Entries
  PROVE  LET more == Append(entries, entry)
             last == Len(entries) + 1 IN
         /\ more \in Seq(Mails!Entries) /\ Len(entries) \in Nat
         /\ DOMAIN entries = 1 .. Len(entries) /\ DOMAIN more = 1 .. last
         /\ more[last] = entry /\ last \notin DOMAIN entries
         /\ DOMAIN more = DOMAIN entries \cup {last}
         /\ \A k \in DOMAIN entries : more[k] = entries[k] /\ entries[k] \in Mails!Entries /\ k < last
OBVIOUS

\* The sum of the field with one more change.
LEMMA SummedMore ==
  ASSUME NEW entries \in Seq(Mails!Entries), NEW entry \in Mails!Entries,
         entries # <<>> => Summed(entries), entries = <<>> => told \in {value, Missed},
         entry.from = value, value' = entry.to, told' = told,
         entry.from # entry.to \/ entry.comment,
         entry.comment /\ entry.from # entry.to => \A i \in DOMAIN entries : ~ Mails!Plain(entries[i])
  PROVE  Summed(Append(entries, entry))'
<1> DEFINE more == Append(entries, entry)
           last == Len(entries) + 1
           p == Plains(entries)
           c == Commented(entries)
<1>1. /\ more \in Seq(Mails!Entries) /\ Len(entries) \in Nat
      /\ DOMAIN entries = 1 .. Len(entries) /\ DOMAIN more = 1 .. last
      /\ more[last] = entry /\ last \notin DOMAIN entries
      /\ DOMAIN more = DOMAIN entries \cup {last}
      /\ \A k \in DOMAIN entries : more[k] = entries[k] /\ entries[k] \in Mails!Entries /\ k < last
  BY OneMore
<1>2. /\ \A i \in DOMAIN entries : IsLast(i, p) => entries[i].to = value
      /\ p = {} => \A i \in DOMAIN entries : IsLast(i, c) => entries[i].to = value
      /\ \A i, j \in DOMAIN entries : IsFirst(i, p) /\ IsLast(j, c) => entries[i].from = entries[j].to
      /\ c = {} => \A i \in DOMAIN entries : IsFirst(i, p) => told \in {entries[i].from, Missed}
      /\ p = {} /\ c = {} => told \in {value, Missed}
  BY <1>1 DEF Summed, Plains, Commented
<1>3. /\ p \subseteq DOMAIN entries /\ c \subseteq DOMAIN entries
      /\ Plains(more) = p \cup (IF Mails!Plain(entry) THEN {last} ELSE {})
      /\ Commented(more) = c \cup (IF entry.comment /\ entry.from # entry.to THEN {last} ELSE {})
  <2> HIDE DEF more, last
  <2> QED BY <1>1 DEF Plains, Commented
<1> HIDE DEF more, last, p, c
<1>4. \A S \in SUBSET DOMAIN entries : \A i \in DOMAIN more :
        /\ IsLast(i, S \cup {last}) => i = last
        /\ IsFirst(i, S \cup {last}) => (S = {} /\ i = last) \/ IsFirst(i, S)
  <2> TAKE S \in SUBSET DOMAIN entries
  <2> TAKE i \in DOMAIN more
  <2>1. ASSUME IsLast(i, S \cup {last}) PROVE i = last
    <3>1. i # last => i < last /\ i \in Nat /\ last \in Nat
      BY <1>1
    <3>2. last <= i
      BY <2>1 DEF IsLast
    <3> QED BY <3>1, <3>2
  <2>2. ASSUME IsFirst(i, S \cup {last}) PROVE (S = {} /\ i = last) \/ IsFirst(i, S)
    <3>1. CASE i = last
      <4>1. \A j \in S : last <= j /\ j < last /\ j \in Nat /\ last \in Nat
        BY <1>1, <2>2, <3>1 DEF IsFirst
      <4> QED BY <4>1, <3>1
    <3>2. CASE i # last
      BY <2>2, <3>2 DEF IsFirst
    <3> QED BY <3>1, <3>2
  <2> QED BY <2>1, <2>2
<1>5. \A S \in SUBSET DOMAIN entries : \A i : IsLast(i, S) \/ IsFirst(i, S) => i \in S
  BY DEF IsLast, IsFirst
<1>6. last \in DOMAIN more
  BY <1>1
<1>7. more' = more
  BY DEF more
<1> DEFINE p2 == Plains(more)
           c2 == Commented(more)
<1>8. SUFFICES
        /\ \A i \in DOMAIN more : IsLast(i, p2) => more[i].to = entry.to
        /\ p2 = {} => \A i \in DOMAIN more : IsLast(i, c2) => more[i].to = entry.to
        /\ \A i, j \in DOMAIN more : IsFirst(i, p2) /\ IsLast(j, c2) => more[i].from = more[j].to
        /\ c2 = {} => \A i \in DOMAIN more : IsFirst(i, p2) => told \in {more[i].from, Missed}
        /\ p2 = {} /\ c2 = {} => told \in {entry.to, Missed}
  BY DEF Summed, Plains, Commented, Mails!Plain, IsLast, IsFirst, more
<1>9. p2 = Plains(more) /\ c2 = Commented(more)
  OBVIOUS
<1> HIDE DEF p2, c2
<1>10. CASE entry.from = entry.to
  <2>1. p2 = p /\ c2 = c
    BY <1>3, <1>9, <1>10 DEF Mails!Plain
  <2> QED BY <1>1, <1>2, <1>3, <1>5, <1>10, <2>1
<1>11. CASE Mails!Plain(entry)
  <2>1. p2 = p \cup {last} /\ c2 = c
    BY <1>3, <1>9, <1>11 DEF Mails!Plain
  <2>2. \A i \in DOMAIN more : IsLast(i, p2) => more[i].to = entry.to
    BY <1>1, <1>3, <1>4, <2>1
  <2>3. ASSUME NEW i \in DOMAIN more, NEW j \in DOMAIN more, IsFirst(i, p2), IsLast(j, c2)
        PROVE  more[i].from = more[j].to
    <3>1. j \in c /\ IsLast(j, c) /\ j \in DOMAIN entries
      BY <1>3, <1>5, <2>1, <2>3
    <3>2. CASE p = {} /\ i = last
      BY <1>1, <1>2, <3>1, <3>2
    <3>3. CASE IsFirst(i, p)
      BY <1>1, <1>2, <1>3, <1>5, <3>1, <3>3
    <3> QED BY <1>3, <1>4, <2>1, <2>3, <3>2, <3>3
  <2>4. ASSUME c2 = {}, NEW i \in DOMAIN more, IsFirst(i, p2)
        PROVE  told \in {more[i].from, Missed}
    <3>1. CASE p = {} /\ i = last
      BY <1>1, <1>2, <2>1, <2>4, <3>1
    <3>2. CASE IsFirst(i, p)
      BY <1>1, <1>2, <1>3, <1>5, <2>1, <2>4, <3>2
    <3> QED BY <1>3, <1>4, <2>1, <2>4, <3>1, <3>2
  <2> QED BY <2>1, <2>2, <2>3, <2>4
<1>12. CASE entry.comment /\ entry.from # entry.to
  <2>1. p = {}
    BY <1>12 DEF p, Plains
  <2>2. p2 = {} /\ c2 = c \cup {last}
    BY <1>3, <1>9, <1>12, <2>1 DEF Mails!Plain
  <2>3. \A i \in DOMAIN more : IsLast(i, c2) => more[i].to = entry.to
    BY <1>1, <1>3, <1>4, <2>2
  <2>4. \A i : ~ IsLast(i, p2) /\ ~ IsFirst(i, p2)
    BY <2>2 DEF IsLast, IsFirst
  <2> QED BY <2>2, <2>3, <2>4
<1> QED BY <1>10, <1>11, <1>12 DEF Mails!Plain

LEMMA CommitStep ==
  ASSUME MaxChanges \in Nat, Day \in Nat \ {0}, MailsInv, NEW a \in Authors, Mails!Commit(a)
  PROVE  MailsInv'
<1> DEFINE entry == change.entry
           before == pending[a].entries
           more == Append(before, entry)
           last == Len(before) + 1
           note == [row |-> change.row, entries |-> more, age |-> change.age]
<1>1. /\ change.step = "noted" /\ change.author = a /\ change' = Mails!NoChange /\ value' = entry.to
      /\ pending' = [pending EXCEPT ![a] = note]
      /\ mailed' = IF entry.comment THEN [i \in DOMAIN mailed \cup {entry.id} |->
                                            IF i = entry.id THEN 0 ELSE mailed[i]]
                   ELSE mailed
      /\ mixed' = (\/ mixed \/ \E b \in Authors \ {a} : pending[b] # Mails!NoRow
                   \/ entry.comment /\ entry.from # entry.to /\ \E i \in DOMAIN more : Mails!Plain(more[i]))
      /\ UNCHANGED <<changes, batch, told, lost, interruptions>>
  BY DEF Mails!Commit
<1>2. /\ change # Mails!NoChange /\ change \in Under /\ entry \in Mails!Entries
      /\ change.row \in 0 .. MaxChanges /\ change.age \in 0 .. Day - 1
      /\ change.row > 0 /\ ~ Mails!Locked(a)
  BY <1>1, NoMail DEF MailsInv, MailTypes, LockInv, Under
<1>3. /\ entry.id = changes /\ entry.from = value /\ changes \notin DOMAIN mailed /\ changes > 0
      /\ entry.comment \/ entry.to # value
  BY <1>2 DEF MailsInv, IdsInv
<1>4. /\ DOMAIN pending = Authors /\ before \in Seq(Mails!Entries) /\ changes \in Nat
      /\ \A b \in Authors : pending[b] \in Notes
      /\ value \in Values /\ told \in Values \cup {Missed} /\ mixed \in BOOLEAN
  BY DEF MailsInv, MailTypes, Notes
<1>5. /\ more \in Seq(Mails!Entries) /\ Len(before) \in Nat
      /\ DOMAIN before = 1 .. Len(before) /\ DOMAIN more = 1 .. last
      /\ more[last] = entry /\ last \notin DOMAIN before
      /\ DOMAIN more = DOMAIN before \cup {last}
      /\ \A k \in DOMAIN before : more[k] = before[k] /\ before[k] \in Mails!Entries /\ k < last
  BY <1>2, <1>4, OneMore
<1> HIDE DEF entry, before, more, last
<1>6. /\ note \in Notes /\ note.entries = more /\ note.row = change.row /\ note.row # 0
      /\ note # Mails!NoRow
  BY <1>2, <1>5, NoMail DEF Notes
<1> HIDE DEF note
<1>7. /\ pending'[a] = note /\ DOMAIN pending' = Authors
      /\ \A b \in Authors \ {a} : pending'[b] = pending[b]
  BY <1>1, <1>4
<1>8. entry \in [id : 1 .. MaxChanges, from : Values, to : Values, comment : BOOLEAN]
  BY <1>2 DEF Mails!Entries
<1>9. \A i \in DOMAIN mailed : mailed'[i] = mailed[i] /\ i # changes
  BY <1>1, <1>3
<1>10. DOMAIN mailed' = IF entry.comment THEN DOMAIN mailed \cup {changes} ELSE DOMAIN mailed
  BY <1>1, <1>3
<1>11. entry.comment => mailed'[changes] = 0
  BY <1>1, <1>3
<1>12. \A b \in Authors, i \in Nat :
         Holds(pending', b, i) <=> Holds(pending, b, i) \/ (b = a /\ i = changes)
  <2> TAKE b \in Authors, i \in Nat
  <2>1. CASE b = a
    <3>1. Holds(pending', b, i) <=> \E k \in DOMAIN more : more[k].id = i
      BY <1>6, <1>7, <2>1 DEF Holds
    <3>2. Holds(pending, b, i) <=> \E k \in DOMAIN before : before[k].id = i
      BY <2>1 DEF Holds, before
    <3> QED BY <1>3, <1>5, <2>1, <3>1, <3>2
  <2>2. CASE b # a
    BY <1>7, <2>2 DEF Holds
  <2> QED BY <2>1, <2>2
<1>13. \A b \in Authors : Sent(b)' <=> Sent(b)
  BY <1>1 DEF Sent
<1>14. ~ Sent(a) /\ \A b \in Authors : Mails!Locked(b)' <=> Mails!Locked(b)
  BY <1>1, <1>2 DEF Sent, Mails!Locked
<1>15. MailTypes'
  <2>1. \A b \in Authors :
          pending'[b] \in Notes /\ (pending'[b].row = 0 <=> pending'[b] = Mails!NoRow)
    <3> TAKE b \in Authors
    <3>1. CASE b = a
      BY <1>6, <1>7, <3>1
    <3>2. CASE b # a
      BY <1>7, <3>2 DEF MailsInv, MailTypes
    <3> QED BY <3>1, <3>2
  <2>2. \A i \in DOMAIN mailed' : i \in 1 .. changes /\ mailed'[i] \in Nat
    BY <1>3, <1>4, <1>9, <1>10, <1>11 DEF MailsInv, MailTypes
  <2>3. mixed' \in BOOLEAN
    BY <1>1
  <2>4. value' \in Values
    BY <1>1, <1>8
  <2> QED BY <1>1, <1>4, <1>7, <2>1, <2>2, <2>3, <2>4 DEF MailsInv, MailTypes
<1>16. IdsInv'
  <2>1. change' = Mails!NoChange
    BY <1>1
  <2>2. ASSUME NEW b \in Authors, NEW k \in DOMAIN pending'[b].entries
        PROVE  LET e == pending'[b].entries[k] IN
               /\ e.id <= changes'
               /\ e.comment <=> e.id \in DOMAIN mailed'
               /\ \A d \in Authors \ {b} : ~ Holds(pending', d, e.id)
    <3> DEFINE e == pending'[b].entries[k]
    <3>1. CASE b = a /\ k = last
      <4>1. e = entry
        BY <1>5, <1>6, <1>7, <3>1
      <4>2. \A d \in Authors \ {a} : ~ Holds(pending, d, changes)
        BY <1>2 DEF MailsInv, IdsInv, Holds
      <4>3. \A d \in Authors \ {a} : ~ Holds(pending', d, changes)
        BY <1>4, <1>12, <4>2
      <4> HIDE DEF e
      <4>4. e.id = changes /\ changes' = changes
        BY <1>1, <1>3, <4>1
      <4>5. e.comment <=> e.id \in DOMAIN mailed'
        BY <1>3, <1>10, <4>1
      <4> QED BY <1>4, <3>1, <4>3, <4>4, <4>5 DEF e
    <3>2. CASE ~ (b = a /\ k = last)
      <4>1. k \in DOMAIN pending[b].entries /\ e = pending[b].entries[k]
        BY <1>5, <1>6, <1>7, <3>2 DEF before
      <4>2. e \in Mails!Entries
        <5>1. pending[b].entries \in Seq(Mails!Entries)
          BY <1>4 DEF Notes
        <5> QED BY <4>1, <5>1
      <4>3. e.id \in Nat
        BY <4>2 DEF Mails!Entries
      <4>4. /\ e.id <= changes /\ e.id # changes
            /\ e.comment <=> e.id \in DOMAIN mailed
            /\ \A d \in Authors \ {b} : ~ Holds(pending, d, e.id)
        BY <1>2, <4>1 DEF MailsInv, IdsInv
      <4> HIDE DEF e
      <4>5. \A d \in Authors \ {b} : ~ Holds(pending', d, e.id)
        BY <1>12, <4>3, <4>4
      <4> QED BY <1>1, <1>10, <4>4, <4>5 DEF e
    <3> QED BY <3>1, <3>2
  <2> QED BY <2>1, <2>2 DEF IdsInv
<1>17. LockInv'
  <2>1. change'.step # "noted"
    BY <1>1, NoMail
  <2>2. \A b \in Authors : Mails!Locked(b)' => pending'[b] # Mails!NoRow
    BY <1>6, <1>7, <1>14 DEF MailsInv, LockInv
  <2> QED BY <2>1, <2>2 DEF LockInv
<1>18. CountInv'
  <2>1. ASSUME NEW i \in DOMAIN mailed'
        PROVE  /\ mailed'[i] <= interruptions' + 1
               /\ mailed'[i] > 0 \/ i \in lost' \/ \E b \in Authors : Holds(pending', b, i)
               /\ \A b \in Authors : Holds(pending', b, i) =>
                    IF Sent(b)' THEN mailed'[i] > 0 \/ i \in lost' ELSE mailed'[i] <= interruptions'
    <3>0. i \in Nat /\ interruptions \in Nat /\ interruptions' = interruptions /\ lost' = lost
      <4>1. \A n \in DOMAIN mailed : n \in Nat
        BY DEF MailsInv, MailTypes
      <4>2. interruptions \in Nat
        BY DEF MailsInv, MailTypes
      <4> QED BY <1>1, <1>4, <1>10, <2>1, <4>1, <4>2
    <3>1. CASE i \in DOMAIN mailed
      <4>1. mailed'[i] = mailed[i] /\ i # changes
        BY <1>9, <3>1
      <4>2. \A b \in Authors : Holds(pending', b, i) <=> Holds(pending, b, i)
        BY <1>12, <3>0, <4>1
      <4>3. /\ mailed[i] <= interruptions + 1
            /\ mailed[i] > 0 \/ i \in lost \/ \E b \in Authors : Holds(pending, b, i)
            /\ \A b \in Authors : Holds(pending, b, i) =>
                 IF Sent(b) THEN mailed[i] > 0 \/ i \in lost ELSE mailed[i] <= interruptions
        BY <3>1 DEF MailsInv, CountInv
      <4> QED BY <1>13, <3>0, <4>1, <4>2, <4>3
    <3>2. CASE i \notin DOMAIN mailed
      <4>1. i = changes /\ mailed'[i] = 0
        BY <1>10, <1>11, <2>1, <3>2
      <4>2. Holds(pending', a, i) /\ \A b \in Authors : Holds(pending', b, i) => b = a
        <5>1. \A b \in Authors \ {a} : ~ Holds(pending, b, changes)
          BY <1>2 DEF MailsInv, IdsInv, Holds
        <5> QED BY <1>12, <3>0, <4>1, <5>1
      <4> QED BY <1>13, <1>14, <3>0, <4>1, <4>2
    <3> QED BY <3>1, <3>2
  <2> QED BY <2>1 DEF CountInv
<1>19. ToldInv'
  <2> SUFFICES ASSUME ~ mixed', interruptions' = 0
               PROVE  /\ \A b, d \in Authors : pending'[b] # Mails!NoRow /\ pending'[d] # Mails!NoRow => b = d
                      /\ ~ \A b \in Authors : pending'[b] = Mails!NoRow
                      /\ \A b \in Authors : pending'[b] # Mails!NoRow =>
                           ~ Sent(b)' /\ Summed(pending[b].entries)'
    BY DEF ToldInv
  <2>1. ~ mixed /\ interruptions = 0 /\ \A b \in Authors \ {a} : pending[b] = Mails!NoRow
    BY <1>1
  <2>2. entry.comment /\ entry.from # entry.to => \A i \in DOMAIN more : ~ Mails!Plain(more[i])
    BY <1>1
  <2>3. pending'[a] # Mails!NoRow /\ \A b \in Authors \ {a} : pending'[b] = Mails!NoRow
    BY <1>6, <1>7, <2>1
  <2>4. before # <<>> => Summed(before)
    BY <1>14, <2>1, NoMail DEF MailsInv, ToldInv, before
  <2>5. before = <<>> => told \in {value, Missed}
    <3>1. CASE pending[a] = Mails!NoRow
      BY <2>1, <3>1 DEF MailsInv, ToldInv
    <3>2. CASE pending[a] # Mails!NoRow
      <4>1. Summed(before)
        BY <1>14, <2>1, <3>2 DEF MailsInv, ToldInv, before
      <4> QED BY <1>5, <4>1 DEF Summed, Plains, Commented
    <3> QED BY <3>1, <3>2
  <2>6. \A i \in DOMAIN before : Mails!Plain(before[i]) <=> Mails!Plain(more[i])
    BY <1>5
  <2>7. Summed(pending[a].entries)'
    <3>1. PICK s \in Seq(Mails!Entries) : s = before
      BY <1>4
    <3>2. PICK e \in Mails!Entries : e = entry
      BY <1>2
    <3>3. Summed(Append(s, e))'
      BY <1>1, <1>3, <1>5, <2>2, <2>4, <2>5, <2>6, <3>1, <3>2, SummedMore
    <3>4. Append(s, e) = more
      BY <3>1, <3>2 DEF more
    <3>5. (pending[a].entries)' = Append(s, e)
      BY <1>6, <1>7, <3>4
    <3>6. PICK m : m = Append(s, e)
      OBVIOUS
    <3>7. Summed(m)'
      BY <3>3, <3>6
    <3> QED BY <3>5, <3>6, <3>7 DEF Summed, Plains, Commented
  <2>8. ~ Sent(a)'
    BY <1>13, <1>14
  <2> QED BY <2>3, <2>7, <2>8
<1> QED BY <1>15, <1>16, <1>17, <1>18, <1>19 DEF MailsInv

(***************************************************************************)
(* Time and the batch.                                                     *)
(***************************************************************************)
LEMMA TickStep ==
  ASSUME MaxChanges \in Nat, Day \in Nat \ {0}, MailsInv, Mails!Tick
  PROVE  MailsInv'
<1>1. /\ pending' = [a \in Authors |-> IF pending[a] = Mails!NoRow THEN Mails!NoRow
                                       ELSE [pending[a] EXCEPT !.age = (@ + 1) % Day]]
      /\ change' = IF change.step = "noted" THEN [change EXCEPT !.age = (@ + 1) % Day] ELSE change
      /\ UNCHANGED <<value, changes, batch, told, mailed, lost, interruptions, mixed>>
  BY DEF Mails!Tick
<1>2. \A n \in 0 .. Day - 1 : (n + 1) % Day \in 0 .. Day - 1
  OBVIOUS
<1>3. \A note \in Notes : /\ [note EXCEPT !.age = (@ + 1) % Day] \in Notes
                          /\ [note EXCEPT !.age = (@ + 1) % Day].row = note.row
                          /\ [note EXCEPT !.age = (@ + 1) % Day].entries = note.entries
  BY <1>2 DEF Notes
<1>4. \A under \in Under : LET next == [under EXCEPT !.age = (@ + 1) % Day] IN
        next \in Under /\ next.step = under.step /\ next.author = under.author
        /\ next.entry = under.entry /\ next.row = under.row
  BY <1>2 DEF Under
<1>5. \A a \in Authors :
        /\ pending'[a] \in Notes /\ (pending'[a].row = 0 <=> pending'[a] = Mails!NoRow)
        /\ pending'[a].entries = pending[a].entries
        /\ (pending'[a] = Mails!NoRow <=> pending[a] = Mails!NoRow)
  <2> TAKE a \in Authors
  <2>1. pending[a] \in Notes /\ (pending[a].row = 0 <=> pending[a] = Mails!NoRow)
    BY DEF MailsInv, MailTypes
  <2>2. CASE pending[a] = Mails!NoRow
    BY <1>1, <2>1, <2>2
  <2>3. CASE pending[a] # Mails!NoRow
    <3>1. pending'[a] = [pending[a] EXCEPT !.age = (@ + 1) % Day]
      BY <1>1, <2>3
    <3>2. pending'[a] \in Notes /\ pending'[a].row = pending[a].row /\ pending'[a].entries = pending[a].entries
      BY <1>3, <2>1, <3>1
    <3> QED BY <2>1, <2>3, <3>2, NoMail
  <2> QED BY <2>2, <2>3
<1>6. /\ change' = Mails!NoChange \/ change' \in Under
      /\ change'.step = change.step /\ (change' = Mails!NoChange <=> change = Mails!NoChange)
      /\ change # Mails!NoChange => /\ change'.author = change.author /\ change'.entry = change.entry
                              /\ change'.row = change.row
  <2>1. CASE change.step = "noted"
    <3>1. change \in Under /\ change # Mails!NoChange
      BY <2>1, NoMail DEF MailsInv, MailTypes
    <3>2. change' = [change EXCEPT !.age = (@ + 1) % Day]
      BY <1>1, <2>1
    <3>3. /\ change' \in Under /\ change'.step = change.step /\ change'.author = change.author
          /\ change'.entry = change.entry /\ change'.row = change.row
      BY <1>4, <3>1, <3>2
    <3> QED BY <2>1, <3>1, <3>3, NoMail
  <2>2. CASE change.step # "noted"
    BY <1>1, <2>2 DEF MailsInv, MailTypes
  <2> QED BY <2>1, <2>2
<1>7. \A a \in Authors : \A i : Holds(pending', a, i) <=> Holds(pending, a, i)
  BY <1>5 DEF Holds
<1>8. MailTypes'
  BY <1>1, <1>5, <1>6 DEF MailsInv, MailTypes
<1>9. IdsInv'
  <2>1. change' # Mails!NoChange =>
          /\ change'.entry.id = changes' /\ change'.entry.from = value'
          /\ changes' \notin DOMAIN mailed'
          /\ changes' > 0 /\ (change'.entry.comment \/ change'.entry.to # value')
    BY <1>1, <1>6 DEF MailsInv, IdsInv
  <2>2. \A a \in Authors : \A k \in DOMAIN pending'[a].entries :
          LET e == pending'[a].entries[k] IN
            /\ e.id <= changes' /\ (change' # Mails!NoChange => e.id # changes')
            /\ e.comment <=> e.id \in DOMAIN mailed'
            /\ \A b \in Authors \ {a} : ~ Holds(pending', b, e.id)
    BY <1>1, <1>5, <1>6, <1>7 DEF MailsInv, IdsInv
  <2> QED BY <2>1, <2>2 DEF IdsInv
<1>10. LockInv'
  <2>1. \A a : Mails!Locked(a)' <=> Mails!Locked(a)
    BY <1>1 DEF Mails!Locked
  <2>2. change'.step = "noted" =>
          ~ Mails!Locked(change.author)' /\ change'.row > 0 /\ change'.author = change.author
    BY <1>6, <2>1, NoMail DEF MailsInv, LockInv
  <2>3. \A a \in Authors : Mails!Locked(a)' => pending'[a] # Mails!NoRow
    BY <1>5, <2>1 DEF MailsInv, LockInv
  <2> QED BY <1>1, <2>2, <2>3 DEF LockInv, Mails!Locked
<1>11. CountInv'
  BY <1>1, <1>7 DEF MailsInv, CountInv, Sent
<1>12. ToldInv'
  <2> SUFFICES ASSUME ~ mixed', interruptions' = 0
               PROVE  /\ \A a, b \in Authors : pending'[a] # Mails!NoRow /\ pending'[b] # Mails!NoRow => a = b
                      /\ (\A a \in Authors : pending'[a] = Mails!NoRow) => told' \in {value', Missed}
                      /\ \A a \in Authors : pending'[a] # Mails!NoRow =>
                           IF Sent(a)' THEN told' \in {value', Missed} ELSE Summed(pending[a].entries)'
    BY DEF ToldInv
  <2>1. /\ \A a, b \in Authors : pending[a] # Mails!NoRow /\ pending[b] # Mails!NoRow => a = b
        /\ (\A a \in Authors : pending[a] = Mails!NoRow) => told \in {value, Missed}
        /\ \A a \in Authors : pending[a] # Mails!NoRow =>
             IF Sent(a) THEN told \in {value, Missed} ELSE Summed(pending[a].entries)
    BY <1>1 DEF MailsInv, ToldInv
  <2>2. ASSUME NEW a \in Authors, Summed(pending[a].entries) PROVE Summed(pending[a].entries)'
    <3>1. PICK m : m = pending[a].entries
      OBVIOUS
    <3>2. Summed(m)'
      BY <1>1, <2>2, <3>1, SummedStays
    <3>3. (pending[a].entries)' = m
      BY <1>5, <3>1
    <3> QED BY <3>2, <3>3 DEF Summed, Plains, Commented
  <2>3. \A a \in Authors : Sent(a)' <=> Sent(a)
    BY <1>1 DEF Sent
  <2> QED BY <1>1, <1>5, <2>1, <2>2, <2>3
<1> QED BY <1>8, <1>9, <1>10, <1>11, <1>12 DEF MailsInv

\* A step of the batch that changes neither notifications nor mails, and locks no more than a row
\* that is there and that no change has.
LEMMA BatchKeeps ==
  ASSUME MailsInv, UNCHANGED <<value, pending, change, changes, told, mailed, lost, mixed>>,
         \/ batch' = Mails!NoBatch
         \/ batch'.step = "listed" /\ DOMAIN batch' = {"step", "pages", "page", "todo"}
         \/ /\ batch'.step = "locked" /\ batch'.author \in Authors /\ pending[batch'.author] # Mails!NoRow
            /\ DOMAIN batch' = {"step", "pages", "page", "todo", "author"}
            /\ ~ (change.step = "noted" /\ change.author = batch'.author),
         interruptions' = interruptions \/ interruptions' = interruptions + 1,
         batch.step = "sent" => interruptions' = interruptions + 1
  PROVE  MailsInv'
<1>1. \A a \in Authors : ~ Sent(a)'
  BY NoMail DEF Sent
<1>2. MailTypes'
  BY DEF MailsInv, MailTypes
<1>3. IdsInv'
  BY DEF MailsInv, IdsInv
<1>4. LockInv'
  BY NoMail DEF MailsInv, LockInv, Mails!Locked
<1>5. interruptions \in Nat /\ \A i \in DOMAIN mailed : mailed[i] \in Nat
  BY DEF MailsInv, MailTypes
<1>6. CountInv'
  <2> SUFFICES ASSUME NEW i \in DOMAIN mailed
               PROVE  /\ mailed[i] <= interruptions' + 1
                      /\ mailed[i] > 0 \/ i \in lost \/ \E a \in Authors : Holds(pending, a, i)
                      /\ \A a \in Authors : Holds(pending, a, i) => mailed[i] <= interruptions'
    BY <1>1 DEF CountInv
  <2>1. /\ mailed[i] <= interruptions + 1
        /\ mailed[i] > 0 \/ i \in lost \/ \E a \in Authors : Holds(pending, a, i)
        /\ \A a \in Authors : Holds(pending, a, i) => Sent(a) \/ mailed[i] <= interruptions
    BY DEF MailsInv, CountInv
  <2>2. \A a \in Authors : Sent(a) => interruptions' = interruptions + 1
    BY DEF Sent
  <2> QED BY <1>5, <2>1, <2>2
<1>7. ToldInv'
  <2> SUFFICES ASSUME ~ mixed, interruptions' = 0
               PROVE  /\ \A a, b \in Authors : pending[a] # Mails!NoRow /\ pending[b] # Mails!NoRow => a = b
                      /\ (\A a \in Authors : pending[a] = Mails!NoRow) => told \in {value, Missed}
                      /\ \A a \in Authors : pending[a] # Mails!NoRow => Summed(pending[a].entries)'
    BY <1>1 DEF ToldInv
  <2>1. interruptions = 0 /\ batch.step # "sent"
    BY <1>5
  <2>2. \A a \in Authors : ~ Sent(a)
    BY <2>1 DEF Sent
  <2>3. \A a \in Authors : pending[a] # Mails!NoRow => Summed(pending[a].entries)
    BY <2>1, <2>2 DEF MailsInv, ToldInv
  <2>4. ASSUME NEW a \in Authors, Summed(pending[a].entries) PROVE Summed(pending[a].entries)'
    <3>1. PICK m : m = pending[a].entries
      OBVIOUS
    <3>2. Summed(m)'
      BY <2>4, <3>1, SummedStays
    <3>3. (pending[a].entries)' = m
      BY <3>1
    <3> QED BY <3>2, <3>3 DEF Summed, Plains, Commented
  <2> QED BY <2>1, <2>3, <2>4 DEF MailsInv, ToldInv
<1> QED BY <1>2, <1>3, <1>4, <1>6, <1>7 DEF MailsInv

LEMMA SendStep ==
  ASSUME MailsInv, Mails!Send
  PROVE  MailsInv'
<1> DEFINE a == batch.author
           entries == pending[a].entries
<1>1. /\ batch.step = "locked" /\ batch' = [batch EXCEPT !.step = "sent"]
      /\ told' = Mails!Squash(entries, told)
      /\ mailed' = [i \in DOMAIN mailed |->
                      IF i \in Mails!Comments(entries) THEN mailed[i] + 1 ELSE mailed[i]]
      /\ UNCHANGED <<value, pending, change, changes, lost, interruptions, mixed>>
  BY DEF Mails!Send
<1>2. /\ a \in Authors /\ told \in Values \cup {Missed} /\ interruptions \in Nat
      /\ DOMAIN batch = {"step", "pages", "page", "todo", "author"}
      /\ \A i \in DOMAIN mailed : mailed[i] \in Nat /\ i \in 1 .. changes
  BY <1>1, NoMail DEF MailsInv, MailTypes
<1>3. entries \in Seq(Mails!Entries)
  BY <1>2 DEF MailsInv, MailTypes, Notes
<1>4. Mails!Locked(a) /\ pending[a] # Mails!NoRow
  BY <1>1, <1>2 DEF Mails!Locked, MailsInv, LockInv
<1>5. batch'.step = "sent" /\ batch'.author = a /\ DOMAIN batch' = DOMAIN batch
  BY <1>1, <1>2
<1>6. \A b : /\ Mails!Locked(b)' <=> Mails!Locked(b)
             /\ Sent(b)' <=> b = a
             /\ ~ Sent(b)
  BY <1>1, <1>5 DEF Mails!Locked, Sent
<1>7. \A i \in DOMAIN mailed : /\ mailed'[i] \in {mailed[i], mailed[i] + 1}
                               /\ Holds(pending, a, i) => mailed'[i] = mailed[i] + 1
                               /\ ~ Holds(pending, a, i) => mailed'[i] = mailed[i]
  <2> TAKE i \in DOMAIN mailed
  <2>1. Holds(pending, a, i) => i \in Mails!Comments(entries)
    <3> SUFFICES ASSUME NEW k \in DOMAIN entries, entries[k].id = i
                 PROVE  i \in Mails!Comments(entries)
      BY DEF Holds
    <3>1. entries[k].comment
      BY <1>2 DEF MailsInv, IdsInv
    <3> QED BY <3>1 DEF Mails!Comments
  <2>2. i \in Mails!Comments(entries) => Holds(pending, a, i)
    BY DEF Mails!Comments, Holds
  <2> QED BY <1>1, <2>1, <2>2
<1>8. DOMAIN mailed' = DOMAIN mailed
  BY <1>1
<1>9. told' \in Values \cup {Missed}
  <2>1. PICK s \in Seq(Mails!Entries) : s = entries
    BY <1>3
  <2> QED BY <1>1, <1>2, <2>1, SquashTyped
<1> HIDE DEF a, entries
<1>10. MailTypes'
  <2>1. \A i \in DOMAIN mailed' : i \in 1 .. changes /\ mailed'[i] \in Nat
    BY <1>2, <1>7, <1>8
  <2> QED BY <1>1, <1>2, <1>5, <1>9, <2>1 DEF MailsInv, MailTypes
<1>11. IdsInv'
  BY <1>1, <1>8 DEF MailsInv, IdsInv
<1>12. LockInv'
  BY <1>1, <1>6 DEF MailsInv, LockInv
<1>13. CountInv'
  <2> SUFFICES ASSUME NEW i \in DOMAIN mailed
               PROVE  /\ mailed'[i] <= interruptions + 1
                      /\ mailed'[i] > 0 \/ i \in lost \/ \E b \in Authors : Holds(pending, b, i)
                      /\ \A b \in Authors : Holds(pending, b, i) =>
                           IF b = a THEN mailed'[i] > 0 \/ i \in lost ELSE mailed'[i] <= interruptions
    BY <1>1, <1>6, <1>8 DEF CountInv
  <2>1. /\ mailed[i] <= interruptions + 1
        /\ mailed[i] > 0 \/ i \in lost \/ \E b \in Authors : Holds(pending, b, i)
        /\ \A b \in Authors : Holds(pending, b, i) => mailed[i] <= interruptions
    BY <1>6 DEF MailsInv, CountInv
  <2>2. CASE Holds(pending, a, i)
    <3>1. \A b \in Authors \ {a} : ~ Holds(pending, b, i)
      <4>1. PICK k \in DOMAIN pending[a].entries : pending[a].entries[k].id = i
        BY <2>2 DEF Holds
      <4> QED BY <1>2, <4>1 DEF MailsInv, IdsInv
    <3>2. mailed'[i] = mailed[i] + 1 /\ mailed[i] \in Nat /\ mailed[i] <= interruptions
      BY <1>2, <1>7, <2>1, <2>2
    <3> QED BY <1>2, <3>1, <3>2
  <2>3. CASE ~ Holds(pending, a, i)
    BY <1>2, <1>7, <2>1, <2>3
  <2> QED BY <2>2, <2>3
<1>14. ToldInv'
  <2> SUFFICES ASSUME ~ mixed, interruptions = 0
               PROVE  /\ \A b, d \in Authors : pending[b] # Mails!NoRow /\ pending[d] # Mails!NoRow => b = d
                      /\ told' \in {value, Missed}
    BY <1>1, <1>2, <1>4, <1>6 DEF ToldInv
  <2>1. /\ \A b, d \in Authors : pending[b] # Mails!NoRow /\ pending[d] # Mails!NoRow => b = d
        /\ Summed(entries)
    BY <1>2, <1>4, <1>6 DEF MailsInv, ToldInv, entries
  <2>2. PICK s \in Seq(Mails!Entries) : s = entries
    BY <1>3
  <2>3. Mails!Squash(s, told) \in {value, Missed}
    BY <2>1, <2>2, SquashRight
  <2> QED BY <1>1, <2>1, <2>2, <2>3
<1> QED BY <1>10, <1>11, <1>12, <1>13, <1>14 DEF MailsInv

\* A mail that fails: its comments are lost, and what it would have said of the field.
LEMMA SendFailsStep ==
  ASSUME MailsInv, Missed \notin Values, Mails!SendFails
  PROVE  MailsInv'
<1> DEFINE a == batch.author
           entries == pending[a].entries
<1>1. /\ batch.step = "locked" /\ batch' = [batch EXCEPT !.step = "sent"]
      /\ told' = IF Mails!Squash(entries, Missed) = Missed THEN told ELSE Missed
      /\ lost' = lost \cup Mails!Comments(entries)
      /\ UNCHANGED <<value, pending, change, changes, mailed, interruptions, mixed>>
  BY DEF Mails!SendFails
<1>2. /\ a \in Authors /\ told \in Values \cup {Missed} /\ lost \subseteq DOMAIN mailed
      /\ interruptions \in Nat /\ \A i \in DOMAIN mailed : mailed[i] \in Nat
      /\ DOMAIN batch = {"step", "pages", "page", "todo", "author"}
  BY <1>1, NoMail DEF MailsInv, MailTypes
<1>3. entries \in Seq(Mails!Entries)
  BY <1>2 DEF MailsInv, MailTypes, Notes
<1>4. Mails!Locked(a) /\ pending[a] # Mails!NoRow
  BY <1>1, <1>2 DEF Mails!Locked, MailsInv, LockInv
<1>5. batch'.step = "sent" /\ batch'.author = a /\ DOMAIN batch' = DOMAIN batch
  BY <1>1, <1>2
<1>6. \A b : /\ Mails!Locked(b)' <=> Mails!Locked(b)
             /\ Sent(b)' <=> b = a
             /\ ~ Sent(b)
  BY <1>1, <1>5 DEF Mails!Locked, Sent
<1>7. Mails!Comments(entries) \subseteq DOMAIN mailed
  <2>1. \A k \in DOMAIN entries : entries[k].comment => entries[k].id \in DOMAIN mailed
    BY <1>2 DEF MailsInv, IdsInv
  <2> QED BY <2>1 DEF Mails!Comments
<1>8. \A i \in DOMAIN mailed : Holds(pending, a, i) => i \in lost'
  <2> SUFFICES ASSUME NEW i \in DOMAIN mailed, NEW k \in DOMAIN entries, entries[k].id = i
               PROVE  i \in Mails!Comments(entries)
    BY <1>1 DEF Holds
  <2>1. entries[k].comment
    BY <1>2 DEF MailsInv, IdsInv
  <2> QED BY <2>1 DEF Mails!Comments
<1> HIDE DEF a, entries
<1>9. MailTypes'
  <2>1. told' \in Values \cup {Missed} /\ lost' \subseteq DOMAIN mailed
    BY <1>1, <1>2, <1>7
  <2> QED BY <1>1, <1>2, <1>5, <2>1 DEF MailsInv, MailTypes
<1>10. IdsInv'
  BY <1>1 DEF MailsInv, IdsInv
<1>11. LockInv'
  BY <1>1, <1>6 DEF MailsInv, LockInv
<1>12. CountInv'
  <2> SUFFICES ASSUME NEW i \in DOMAIN mailed
               PROVE  /\ mailed[i] <= interruptions + 1
                      /\ mailed[i] > 0 \/ i \in lost' \/ \E b \in Authors : Holds(pending, b, i)
                      /\ \A b \in Authors : Holds(pending, b, i) =>
                           IF b = a THEN i \in lost' ELSE mailed[i] <= interruptions
    BY <1>1, <1>6 DEF CountInv
  <2>1. /\ mailed[i] <= interruptions + 1
        /\ mailed[i] > 0 \/ i \in lost \/ \E b \in Authors : Holds(pending, b, i)
        /\ \A b \in Authors : Holds(pending, b, i) => mailed[i] <= interruptions
    BY <1>6 DEF MailsInv, CountInv
  <2> QED BY <1>1, <1>8, <2>1
<1>13. ToldInv'
  <2> SUFFICES ASSUME ~ mixed, interruptions = 0
               PROVE  /\ \A b, d \in Authors : pending[b] # Mails!NoRow /\ pending[d] # Mails!NoRow => b = d
                      /\ told' \in {value, Missed}
    BY <1>1, <1>2, <1>4, <1>6 DEF ToldInv
  <2>1. /\ \A b, d \in Authors : pending[b] # Mails!NoRow /\ pending[d] # Mails!NoRow => b = d
        /\ Summed(entries)
    BY <1>2, <1>4, <1>6 DEF MailsInv, ToldInv, entries
  <2>2. PICK s \in Seq(Mails!Entries) : s = entries
    BY <1>3
  <2>3. Mails!Squash(s, Missed) = Missed => told \in {value, Missed}
    BY <2>1, <2>2, SquashSilent
  <2> QED BY <1>1, <2>1, <2>2, <2>3
<1> QED BY <1>9, <1>10, <1>11, <1>12, <1>13 DEF MailsInv

LEMMA FinishStep ==
  ASSUME MaxChanges \in Nat, Day \in Nat \ {0}, MailsInv, Mails!Finish
  PROVE  MailsInv'
<1> DEFINE a == batch.author
<1>1. /\ batch.step = "sent" /\ pending' = [pending EXCEPT ![a] = Mails!NoRow]
      /\ batch' = Mails!Listed(batch, batch.todo)
      /\ UNCHANGED <<value, change, changes, told, mailed, lost, interruptions, mixed>>
  BY DEF Mails!Finish
<1>2. /\ a \in Authors /\ interruptions \in Nat /\ DOMAIN pending = Authors
      /\ \A i \in DOMAIN mailed : mailed[i] \in Nat
  BY <1>1, NoMail DEF MailsInv, MailTypes
<1>3. batch'.step = "listed" /\ DOMAIN batch' = {"step", "pages", "page", "todo"}
  BY <1>1 DEF Mails!Listed
<1>4. /\ \A b : ~ Mails!Locked(b)' /\ ~ Sent(b)'
      /\ Sent(a) /\ \A b : Sent(b) => b = a
      /\ pending[a] # Mails!NoRow
  BY <1>1, <1>2, <1>3 DEF Mails!Locked, Sent, MailsInv, LockInv
<1> HIDE DEF a
<1>5. /\ pending'[a] = Mails!NoRow /\ DOMAIN pending' = Authors
      /\ \A b \in Authors \ {a} : pending'[b] = pending[b]
  BY <1>1, <1>2
<1>6. /\ \A b \in Authors \ {a} : \A i : Holds(pending', b, i) <=> Holds(pending, b, i)
      /\ \A i : ~ Holds(pending', a, i)
  BY <1>5, NoMail DEF Holds
<1>7. MailTypes'
  <2>1. \A b \in Authors :
          pending'[b] \in Notes /\ (pending'[b].row = 0 <=> pending'[b] = Mails!NoRow)
    <3> TAKE b \in Authors
    <3>1. CASE b = a
      BY <1>5, <3>1, NoMail, NoRowTyped
    <3>2. CASE b # a
      BY <1>5, <3>2 DEF MailsInv, MailTypes
    <3> QED BY <3>1, <3>2
  <2> QED BY <1>1, <1>3, <1>5, <2>1 DEF MailsInv, MailTypes
<1>8. IdsInv'
  <2>1. ASSUME NEW b \in Authors, NEW k \in DOMAIN pending'[b].entries
        PROVE  /\ b # a /\ pending'[b] = pending[b] /\ k \in DOMAIN pending[b].entries
               /\ \A d \in Authors \ {b} : ~ Holds(pending', d, pending[b].entries[k].id)
    <3>1. b # a
      BY <1>5, <2>1, NoMail
    <3>2. pending'[b] = pending[b] /\ k \in DOMAIN pending[b].entries
      BY <1>5, <2>1, <3>1
    <3>3. \A d \in Authors \ {b} : ~ Holds(pending, d, pending[b].entries[k].id)
      BY <3>2 DEF MailsInv, IdsInv
    <3> QED BY <1>6, <3>1, <3>2, <3>3
  <2>2. change # Mails!NoChange =>
          /\ change.entry.id = changes /\ change.entry.from = value /\ changes \notin DOMAIN mailed
          /\ changes > 0 /\ (change.entry.comment \/ change.entry.to # value)
    BY DEF MailsInv, IdsInv
  <2>3. ASSUME NEW b \in Authors, NEW k \in DOMAIN pending'[b].entries
        PROVE  LET e == pending'[b].entries[k] IN
               /\ e.id <= changes /\ (change # Mails!NoChange => e.id # changes)
               /\ e.comment <=> e.id \in DOMAIN mailed
               /\ \A d \in Authors \ {b} : ~ Holds(pending', d, e.id)
    <3>1. /\ pending'[b].entries[k] = pending[b].entries[k] /\ k \in DOMAIN pending[b].entries
          /\ \A d \in Authors \ {b} : ~ Holds(pending', d, pending[b].entries[k].id)
      BY <2>1, <2>3
    <3> QED BY <3>1 DEF MailsInv, IdsInv
  <2> QED BY <1>1, <2>2, <2>3 DEF IdsInv
<1>9. LockInv'
  BY <1>1, <1>4 DEF MailsInv, LockInv
<1>10. CountInv'
  <2> SUFFICES ASSUME NEW i \in DOMAIN mailed
               PROVE  /\ mailed[i] <= interruptions + 1
                      /\ mailed[i] > 0 \/ i \in lost \/ \E b \in Authors : Holds(pending', b, i)
                      /\ \A b \in Authors : Holds(pending', b, i) => mailed[i] <= interruptions
    BY <1>1, <1>4 DEF CountInv
  <2>1. /\ mailed[i] <= interruptions + 1
        /\ mailed[i] > 0 \/ i \in lost \/ \E b \in Authors : Holds(pending, b, i)
        /\ Holds(pending, a, i) => mailed[i] > 0 \/ i \in lost
        /\ \A b \in Authors \ {a} : Holds(pending, b, i) => mailed[i] <= interruptions
    BY <1>2, <1>4 DEF MailsInv, CountInv
  <2> QED BY <1>2, <1>6, <2>1
<1>11. ToldInv'
  <2> SUFFICES ASSUME ~ mixed, interruptions = 0
               PROVE  told \in {value, Missed} /\ \A b \in Authors : pending'[b] = Mails!NoRow
    BY <1>1 DEF ToldInv
  <2>1. /\ \A b, d \in Authors : pending[b] # Mails!NoRow /\ pending[d] # Mails!NoRow => b = d
        /\ told \in {value, Missed}
    BY <1>2, <1>4 DEF MailsInv, ToldInv
  <2> QED BY <1>2, <1>4, <1>5, <2>1
<1> QED BY <1>7, <1>8, <1>9, <1>10, <1>11 DEF MailsInv

LEMMA BatchSteps ==
  ASSUME MailsInv,
         Mails!StartBatch \/ Mails!NextPage \/ Mails!LockRow \/ Mails!PutOff \/ Mails!Interrupt
  PROVE  MailsInv'
<1>1. CASE Mails!StartBatch
  <2>1. batch'.step = "listed" /\ DOMAIN batch' = {"step", "pages", "page", "todo"} /\ batch.step # "sent"
    BY <1>1, NoMail DEF Mails!StartBatch
  <2> QED BY <1>1, <2>1, BatchKeeps DEF Mails!StartBatch
<1>2. CASE Mails!NextPage
  <2>1. batch # Mails!NoBatch /\ DOMAIN batch = {"step", "pages", "page", "todo"} /\ batch.step = "listed"
    BY <1>2, NoMail DEF Mails!NextPage, MailsInv, MailTypes
  <2>2. \/ batch' = Mails!NoBatch
        \/ batch'.step = "listed" /\ DOMAIN batch' = {"step", "pages", "page", "todo"}
    BY <1>2, <2>1 DEF Mails!NextPage
  <2> QED BY <1>2, <2>1, <2>2, BatchKeeps DEF Mails!NextPage
<1>3. CASE Mails!LockRow
  <2> DEFINE owners == {a \in Authors : pending[a] # Mails!NoRow /\ pending[a].row = Head(batch.todo)}
  <2>1. batch # Mails!NoBatch /\ DOMAIN batch = {"step", "pages", "page", "todo"} /\ batch.step = "listed"
    BY <1>3, NoMail DEF Mails!LockRow, MailsInv, MailTypes
  <2>2. CASE owners = {}
    <3>1. batch'.step = "listed" /\ DOMAIN batch' = {"step", "pages", "page", "todo"}
      BY <1>3, <2>1, <2>2 DEF Mails!LockRow
    <3> QED BY <1>3, <2>1, <3>1, BatchKeeps DEF Mails!LockRow
  <2>3. CASE owners # {}
    <3>1. PICK owner \in owners : owner = CHOOSE a \in owners : TRUE
      BY <2>3
    <3>2. batch' = [step |-> "locked", pages |-> batch.pages, page |-> batch.page,
                    todo |-> Tail(batch.todo), author |-> owner]
      BY <1>3, <2>3, <3>1 DEF Mails!LockRow
    <3>3. /\ batch'.step = "locked" /\ batch'.author = owner /\ owner \in Authors
          /\ pending[owner] # Mails!NoRow
          /\ DOMAIN batch' = {"step", "pages", "page", "todo", "author"}
      BY <3>1, <3>2
    <3>4. ~ (change.step = "noted" /\ change.author = owner)
      BY <1>3, <3>1 DEF Mails!LockRow
    <3> QED BY <1>3, <2>1, <3>3, <3>4, BatchKeeps DEF Mails!LockRow
  <2> QED BY <2>2, <2>3
<1>4. CASE Mails!PutOff
  <2>1. batch.step = "locked" /\ batch'.step = "listed" /\ DOMAIN batch' = {"step", "pages", "page", "todo"}
    BY <1>4 DEF Mails!PutOff, Mails!Listed
  <2> QED BY <1>4, <2>1, BatchKeeps DEF Mails!PutOff
<1>5. CASE Mails!Interrupt
  BY <1>5, BatchKeeps DEF Mails!Interrupt
<1> QED BY <1>1, <1>2, <1>3, <1>4, <1>5

LEMMA NextMails ==
  ASSUME MaxChanges \in Nat, Day \in Nat \ {0}, Missed \notin Values, MailsInv,
         [Mails!Next]_(Mails!vars)
  PROVE  MailsInv'
<1>1. CASE UNCHANGED Mails!vars
  <2>1. UNCHANGED <<value, pending, change, changes, batch, told, mailed, lost, interruptions, mixed>>
    BY <1>1 DEF Mails!vars
  <2> QED BY <2>1, SummedStays DEF MailsInv, MailTypes, IdsInv, LockInv, CountInv, ToldInv,
                                   Mails!Locked, Sent
<1>2. CASE Mails!Next
  BY <1>2, TickStep, NoteStep, CommitStep, SaveStep, SendStep, SendFailsStep, FinishStep,
     BatchSteps DEF Mails!Next
<1> QED BY <1>1, <1>2

LEMMA MailsExplained ==
  ASSUME MailsInv
  PROVE  Mails!CommentsAreMailed /\ Mails!WatchersKnow
<1>1. Mails!CommentsAreMailed
  <2> SUFFICES ASSUME NEW i \in DOMAIN mailed
               PROVE  /\ \/ mailed[i] > 0 \/ i \in lost
                         \/ \E a \in Authors : \E e \in Mails!ToSet(pending[a].entries) : e.id = i
                      /\ mailed[i] <= 1 + interruptions
    BY DEF Mails!CommentsAreMailed
  <2>1. mailed[i] <= interruptions + 1 /\ (mailed[i] > 0 \/ i \in lost \/ \E a \in Authors : Holds(pending, a, i))
    BY DEF MailsInv, CountInv
  <2>2. interruptions \in Nat /\ mailed[i] \in Nat
    BY DEF MailsInv, MailTypes
  <2> QED BY <2>1, <2>2 DEF Holds, Mails!ToSet
<1>2. Mails!WatchersKnow
  BY DEF MailsInv, ToldInv, Mails!WatchersKnow
<1> QED BY <1>1, <1>2

LEMMA MailsTyped ==
  ASSUME MaxChanges \in Nat, MailsInv
  PROVE  Mails!TypeOK
<1>1. /\ value \in Values /\ told \in Values \cup {Missed} /\ lost \subseteq DOMAIN mailed
      /\ \A a \in Authors : pending[a] \in Notes /\ (pending[a].row = 0 <=> pending[a] = Mails!NoRow)
      /\ change = Mails!NoChange \/ change \in Under
      /\ batch # Mails!NoBatch => batch.step \in {"listed", "locked", "sent"}
      /\ changes \in 0 .. MaxChanges /\ \A i \in DOMAIN mailed : i \in 1 .. changes
  BY DEF MailsInv, MailTypes
<1>2. DOMAIN mailed \subseteq 1 .. MaxChanges
  BY <1>1
<1> QED BY <1>1, <1>2 DEF Mails!TypeOK, Notes, Under

-----------------------------------------------------------------------------
MailsHold == what = "mails" => MailsInv

LEMMA MailsInvariant == Spec => []MailsHold
<1>1. Init => MailsHold
  BY MailsAssumption, InitMails DEF Init, MailsHold
<1>2. MailsHold /\ [Next]_serverVars => MailsHold'
  <2> SUFFICES ASSUME MailsHold, [Next]_serverVars, what' = "mails" PROVE MailsInv'
    BY DEF MailsHold
  <2>1. what = "mails" /\ [Mails!Next]_(Mails!vars)
    BY DEF Next, serverVars, mailVars, Mails!vars
  <2> QED BY <2>1, MailsAssumption, NextMails DEF MailsHold
<1> QED BY <1>1, <1>2, PTL DEF Spec, serverVars

\* Every comment waits for its mail, was mailed or was in a mail that failed, and was mailed again
\* only after an interruption, for any number of authors, changes and interruptions and any size
\* of the pages.
THEOREM EveryCommentMailed == Spec => []CommentsAreMailed
<1>1. MailsHold => CommentsAreMailed
  BY MailsExplained DEF MailsHold, CommentsAreMailed
<1> QED BY <1>1, MailsInvariant, PTL

\* A watcher knows the value of the field when nothing is pending, or the mail that gave it failed,
\* for any number of authors, values and changes, but for the accidents that the property names.
THEOREM WatchersAreTold == Spec => []WatchersKnow
<1>1. MailsHold => WatchersKnow
  BY MailsExplained DEF MailsHold, WatchersKnow
<1> QED BY <1>1, MailsInvariant, PTL

-----------------------------------------------------------------------------
(***************************************************************************)
(* The taskboard.  Lists are compared by the order their elements have in  *)
(* them, AsIn: of a list sorted in an order it is that order again.        *)
(***************************************************************************)
LEMMA PlacesAre ==
  ASSUME NEW S, IsFiniteSet(S), NEW R, StrictOrder(S, R)
  PROVE  LET q == Taskboard!Sorted(S, R) IN
         /\ q \in Seq(S) /\ Len(q) = Cardinality(S) /\ Cardinality(S) \in Nat
         /\ \A i \in 1 .. Cardinality(S) : q[i] \in S /\ RankIn(S, R, q[i]) = i
         /\ \A s \in S : /\ Taskboard!At(q, s) = RankIn(S, R, s)
                         /\ Taskboard!At(q, s) \in 1 .. Cardinality(S) /\ q[Taskboard!At(q, s)] = s
<1> DEFINE n == Cardinality(S)
           q == Taskboard!Sorted(S, R)
<1>1. q = [i \in 1 .. n |-> CHOOSE s \in S : i = RankIn(S, R, s)]
  BY DEF Taskboard!Sorted, RankIn, Below, Cardinality, Taskboard!Cardinality
<1>2. \A i \in 1 .. n : \E s \in S : RankIn(S, R, s) = i
  BY RanksTaken
<1>3. \A i \in 1 .. n : q[i] \in S /\ RankIn(S, R, q[i]) = i
  BY <1>1, <1>2
<1>4. q \in [1 .. n -> S]
  BY <1>1, <1>3
<1> HIDE DEF q
<1>5. SortedList(q, S, R) /\ Len(q) = Cardinality(S)
  BY <1>3, <1>4, RanksSort
<1>6. Cardinality(S) \in Nat /\ \A s \in S : RankIn(S, R, s) \in 1 .. n
  BY RankGrows
<1>7. ASSUME NEW s \in S
      PROVE  Taskboard!At(q, s) = RankIn(S, R, s) /\ q[RankIn(S, R, s)] = s
  <2> DEFINE r == RankIn(S, R, s)
  <2>1. r \in 1 .. n /\ DOMAIN q = 1 .. n
    BY <1>4, <1>6
  <2>2. q[r] \in S /\ RankIn(S, R, q[r]) = RankIn(S, R, s)
    BY <1>3, <2>1
  <2>3. q[r] = s
    BY <2>2, RanksTaken
  <2>4. \A i \in DOMAIN q : q[i] = s => i = r
    BY <1>3, <2>1
  <2>5. Taskboard!At(q, s) \in DOMAIN q /\ q[Taskboard!At(q, s)] = s
    BY <2>1, <2>3 DEF Taskboard!At
  <2> QED BY <2>3, <2>4, <2>5
<1>8. q \in Seq(S)
  BY <1>5 DEF SortedList
<1> QED BY <1>3, <1>5, <1>6, <1>7, <1>8 DEF q

LEMMA SortedAsIn ==
  ASSUME NEW R, StrictOrder(Tasks, R)
  PROVE  LET q == Taskboard!Sorted(Tasks, R) IN
         /\ q \in Seq(Tasks) /\ Len(q) = Cardinality(Tasks)
         /\ \A s \in Tasks : \E i \in 1 .. Len(q) : q[i] = s
         /\ Taskboard!AsIn(q) \subseteq Tasks \X Tasks
         /\ \A s, t \in Tasks : <<s, t>> \in Taskboard!AsIn(q) <=> <<s, t>> \in R
         /\ StrictOrder(Tasks, Taskboard!AsIn(q))
<1> DEFINE q == Taskboard!Sorted(Tasks, R)
<1>1. IsFiniteSet(Tasks)
  BY TaskboardAssumption
<1>2. /\ q \in Seq(Tasks) /\ Len(q) = Cardinality(Tasks)
      /\ \A s \in Tasks : /\ Taskboard!At(q, s) = RankIn(Tasks, R, s)
                          /\ Taskboard!At(q, s) \in 1 .. Cardinality(Tasks)
                          /\ q[Taskboard!At(q, s)] = s
  BY <1>1, PlacesAre
<1> HIDE DEF q
<1>3. /\ \A s, t \in Tasks : <<s, t>> \in R => RankIn(Tasks, R, s) < RankIn(Tasks, R, t)
      /\ \A s \in Tasks : RankIn(Tasks, R, s) \in 1 .. Cardinality(Tasks)
      /\ Cardinality(Tasks) \in Nat
  BY <1>1, RankGrows
<1>4. ASSUME NEW s \in Tasks, NEW t \in Tasks
      PROVE  RankIn(Tasks, R, s) < RankIn(Tasks, R, t) <=> <<s, t>> \in R
  <2>1. RankIn(Tasks, R, s) \in Nat /\ RankIn(Tasks, R, t) \in Nat
    BY <1>3
  <2>2. s = t \/ <<s, t>> \in R \/ <<t, s>> \in R
    BY DEF StrictOrder
  <2>3. <<s, t>> \in R => RankIn(Tasks, R, s) < RankIn(Tasks, R, t)
    BY <1>3
  <2>4. <<t, s>> \in R => RankIn(Tasks, R, t) < RankIn(Tasks, R, s)
    BY <1>3
  <2>5. s = t => <<s, t>> \notin R
    BY DEF StrictOrder
  <2> QED BY <2>1, <2>2, <2>3, <2>4, <2>5
<1>5. /\ Taskboard!AsIn(q) \subseteq Tasks \X Tasks
      /\ \A s, t \in Tasks : <<s, t>> \in Taskboard!AsIn(q)
                               <=> Taskboard!At(q, s) < Taskboard!At(q, t)
  BY DEF Taskboard!AsIn
<1>6. \A s, t \in Tasks : <<s, t>> \in Taskboard!AsIn(q) <=> <<s, t>> \in R
  <2> TAKE s, t \in Tasks
  <2>1. Taskboard!At(q, s) = RankIn(Tasks, R, s) /\ Taskboard!At(q, t) = RankIn(Tasks, R, t)
    BY <1>2
  <2>2. <<s, t>> \in Taskboard!AsIn(q) <=> Taskboard!At(q, s) < Taskboard!At(q, t)
    BY <1>5
  <2> QED BY <1>4, <2>1, <2>2
<1>7. StrictOrder(Tasks, Taskboard!AsIn(q))
  BY <1>6 DEF StrictOrder
<1>8. \A s \in Tasks : \E i \in 1 .. Len(q) : q[i] = s
  BY <1>2
<1> QED BY <1>2, <1>5, <1>6, <1>7, <1>8 DEF q

\* Sorting looks only at the order among the elements.
LEMMA SortedSame ==
  ASSUME NEW S, IsFiniteSet(S), NEW R, StrictOrder(S, R), NEW Q,
         \A s, t \in S : <<s, t>> \in R <=> <<s, t>> \in Q
  PROVE  Taskboard!Sorted(S, R) = Taskboard!Sorted(S, Q)
<1> DEFINE q == Taskboard!Sorted(S, R)
           p == Taskboard!Sorted(S, Q)
<1>1. StrictOrder(S, Q)
  BY DEF StrictOrder
<1>2. \A s \in S : Below(S, R, s) = Below(S, Q, s)
  BY DEF Below
<1>3. \A s \in S : RankIn(S, R, s) = RankIn(S, Q, s)
  BY <1>2 DEF RankIn
<1>4. /\ q \in Seq(S) /\ Len(q) = Cardinality(S) /\ Cardinality(S) \in Nat
      /\ \A i \in 1 .. Cardinality(S) : q[i] \in S /\ RankIn(S, R, q[i]) = i
  BY PlacesAre
<1>5. /\ p \in Seq(S) /\ Len(p) = Cardinality(S)
      /\ \A i \in 1 .. Cardinality(S) : p[i] \in S /\ RankIn(S, Q, p[i]) = i
  BY <1>1, PlacesAre
<1> HIDE DEF p, q
<1>6. \A i \in 1 .. Cardinality(S) : q[i] = p[i]
  BY <1>3, <1>4, <1>5, RanksTaken
<1>7. q = p
  BY <1>4, <1>5, <1>6
<1> QED BY <1>7 DEF p, q

LEMMA StrictPart ==
  ASSUME NEW S, NEW R, StrictOrder(S, R), NEW T \in SUBSET S
  PROVE  StrictOrder(T, R)
BY DEF StrictOrder

LEMMA ByPositionIs ==
  ASSUME NEW S \in SUBSET Tasks, NEW position \in [S -> Nat]
  PROVE  LET R == Taskboard!ByPosition(position) IN
         /\ \A s, t \in S : <<s, t>> \in R <=>
              position[s] < position[t] \/ (position[s] = position[t] /\ s < t)
         /\ R \subseteq S \X S
         /\ StrictOrder(S, R)
<1> DEFINE R == Taskboard!ByPosition(position)
<1>1. /\ \A s, t \in S : <<s, t>> \in R <=>
           position[s] < position[t] \/ (position[s] = position[t] /\ s < t)
      /\ R \subseteq S \X S
  BY DEF Taskboard!ByPosition
<1>2. \A s \in S : s \in Nat /\ position[s] \in Nat
  BY TaskboardAssumption
<1> HIDE DEF R
<1>3. StrictOrder(S, R)
  <2>1. \A s \in S : <<s, s>> \notin R
    BY <1>1, <1>2
  <2>2. ASSUME NEW s \in S, NEW t \in S, NEW u \in S, <<s, t>> \in R, <<t, u>> \in R
        PROVE  <<s, u>> \in R
    <3>1. /\ s \in Nat /\ t \in Nat /\ u \in Nat
          /\ position[s] \in Nat /\ position[t] \in Nat /\ position[u] \in Nat
      BY <1>2
    <3>2. /\ position[s] < position[t] \/ (position[s] = position[t] /\ s < t)
          /\ position[t] < position[u] \/ (position[t] = position[u] /\ t < u)
      BY <1>1, <2>2
    <3>3. position[s] < position[u] \/ (position[s] = position[u] /\ s < u)
      BY <3>1, <3>2
    <3> QED BY <1>1, <3>3
  <2>3. ASSUME NEW s \in S, NEW t \in S, s # t
        PROVE  <<s, t>> \in R \/ <<t, s>> \in R
    <3>1. s \in Nat /\ t \in Nat /\ position[s] \in Nat /\ position[t] \in Nat
      BY <1>2
    <3>2. \/ position[s] < position[t] \/ (position[s] = position[t] /\ s < t)
          \/ position[t] < position[s] \/ (position[t] = position[s] /\ t < s)
      BY <2>3, <3>1
    <3> QED BY <1>1, <3>2
  <2> QED BY <2>1, <2>2, <2>3 DEF StrictOrder
<1> QED BY <1>1, <1>3 DEF R

\* q is a list of all the tasks, sorted by the positions.
IsList(q, position) ==
  /\ q \in Seq(Tasks) /\ Len(q) = Cardinality(Tasks)
  /\ \A s \in Tasks : \E i \in 1 .. Len(q) : q[i] = s
  /\ StrictOrder(Tasks, Taskboard!AsIn(q))
  /\ \A s, t \in Tasks : position[s] < position[t] => <<s, t>> \in Taskboard!AsIn(q)

LEMMA StableIs ==
  ASSUME NEW q, StrictOrder(Tasks, Taskboard!AsIn(q)), NEW position \in [Tasks -> Nat]
  PROVE  LET l == Taskboard!Stable(q, position) IN
         /\ IsList(l, position)
         /\ \A s, t \in Tasks : <<s, t>> \in Taskboard!AsIn(l) <=>
              position[s] < position[t] \/ (position[s] = position[t] /\ <<s, t>> \in Taskboard!AsIn(q))
<1> DEFINE A == Taskboard!AsIn(q)
           R == {p \in Tasks \X Tasks :
                   position[p[1]] < position[p[2]] \/ (position[p[1]] = position[p[2]] /\ p \in A)}
           l == Taskboard!Sorted(Tasks, R)
<1>1. \A s, t \in Tasks : <<s, t>> \in R <=>
        position[s] < position[t] \/ (position[s] = position[t] /\ <<s, t>> \in A)
  OBVIOUS
<1>2. Taskboard!Stable(q, position) = l
  BY DEF Taskboard!Stable
<1>3. StrictOrder(Tasks, A) /\ \A s \in Tasks : position[s] \in Nat
  OBVIOUS
<1> HIDE DEF A, R, l
<1>4. StrictOrder(Tasks, R)
  <2>1. ASSUME NEW s \in Tasks PROVE <<s, s>> \notin R
    <3>1. <<s, s>> \notin A /\ position[s] \in Nat
      BY <1>3 DEF StrictOrder
    <3>2. ~ (position[s] < position[s])
      BY <3>1
    <3> QED BY <1>1, <3>1, <3>2
  <2>2. ASSUME NEW s \in Tasks, NEW t \in Tasks, NEW u \in Tasks, <<s, t>> \in R, <<t, u>> \in R
        PROVE  <<s, u>> \in R
    <3>1. position[s] \in Nat /\ position[t] \in Nat /\ position[u] \in Nat
      BY <1>3
    <3>2. /\ position[s] < position[t] \/ (position[s] = position[t] /\ <<s, t>> \in A)
          /\ position[t] < position[u] \/ (position[t] = position[u] /\ <<t, u>> \in A)
      BY <1>1, <2>2
    <3>3. <<s, t>> \in A /\ <<t, u>> \in A => <<s, u>> \in A
      BY <1>3 DEF StrictOrder
    <3>4. position[s] < position[u] \/ (position[s] = position[u] /\ <<s, u>> \in A)
      BY <3>1, <3>2, <3>3
    <3> QED BY <1>1, <3>4
  <2>3. ASSUME NEW s \in Tasks, NEW t \in Tasks, s # t
        PROVE  <<s, t>> \in R \/ <<t, s>> \in R
    <3>1. position[s] \in Nat /\ position[t] \in Nat /\ (<<s, t>> \in A \/ <<t, s>> \in A)
      BY <1>3, <2>3 DEF StrictOrder
    <3>2. \/ position[s] < position[t] \/ (position[s] = position[t] /\ <<s, t>> \in A)
          \/ position[t] < position[s] \/ (position[t] = position[s] /\ <<t, s>> \in A)
      BY <3>1
    <3> QED BY <1>1, <3>2
  <2> QED BY <2>1, <2>2, <2>3 DEF StrictOrder
<1>5. /\ l \in Seq(Tasks) /\ Len(l) = Cardinality(Tasks)
      /\ \A s \in Tasks : \E i \in 1 .. Len(l) : l[i] = s
      /\ \A s, t \in Tasks : <<s, t>> \in Taskboard!AsIn(l) <=> <<s, t>> \in R
      /\ StrictOrder(Tasks, Taskboard!AsIn(l))
  BY <1>4, SortedAsIn DEF l
<1>6. IsList(l, position)
  BY <1>1, <1>5 DEF IsList
<1> QED BY <1>1, <1>2, <1>5, <1>6 DEF A

\* Sorting again a list that is sorted changes nothing.
LEMMA StableKeeps ==
  ASSUME NEW position \in [Tasks -> Nat], NEW q, IsList(q, position),
         NEW s \in Tasks, NEW t \in Tasks
  PROVE  <<s, t>> \in Taskboard!AsIn(Taskboard!Stable(q, position)) <=> <<s, t>> \in Taskboard!AsIn(q)
<1> DEFINE A == Taskboard!AsIn(q)
<1>1. <<s, t>> \in Taskboard!AsIn(Taskboard!Stable(q, position)) <=>
        position[s] < position[t] \/ (position[s] = position[t] /\ <<s, t>> \in A)
  BY StableIs DEF IsList
<1>2. /\ position[s] < position[t] => <<s, t>> \in A
      /\ position[t] < position[s] => <<t, s>> \in A
      /\ ~ (<<s, t>> \in A /\ <<t, s>> \in A)
  BY DEF IsList, StrictOrder
<1>3. position[s] \in Nat /\ position[t] \in Nat
  OBVIOUS
<1> HIDE DEF A
<1>4. <<s, t>> \in A => position[s] < position[t] \/ position[s] = position[t]
  BY <1>2, <1>3
<1> QED BY <1>1, <1>2, <1>4 DEF A

\* A list sorted by the positions, and by the ids where those leave a choice.
LEMMA SortedIs ==
  ASSUME NEW position \in [Tasks -> Nat]
  PROVE  LET l == Taskboard!Sorted(Tasks, Taskboard!ByPosition(position)) IN
         /\ IsList(l, position)
         /\ Taskboard!AsIn(l) = Taskboard!ByPosition(position)
<1> DEFINE R == Taskboard!ByPosition(position)
           l == Taskboard!Sorted(Tasks, R)
<1>1. /\ \A s, t \in Tasks : <<s, t>> \in R <=>
           position[s] < position[t] \/ (position[s] = position[t] /\ s < t)
      /\ R \subseteq Tasks \X Tasks /\ StrictOrder(Tasks, R)
  BY ByPositionIs
<1> HIDE DEF R
<1>2. /\ l \in Seq(Tasks) /\ Len(l) = Cardinality(Tasks)
      /\ \A s \in Tasks : \E i \in 1 .. Len(l) : l[i] = s
      /\ Taskboard!AsIn(l) \subseteq Tasks \X Tasks
      /\ \A s, t \in Tasks : <<s, t>> \in Taskboard!AsIn(l) <=> <<s, t>> \in R
      /\ StrictOrder(Tasks, Taskboard!AsIn(l))
  BY <1>1, SortedAsIn
<1> HIDE DEF l
<1>3. Taskboard!AsIn(l) = R
  <2>1. /\ R \subseteq Tasks \X Tasks /\ Taskboard!AsIn(l) \subseteq Tasks \X Tasks
        /\ \A s, t \in Tasks : <<s, t>> \in Taskboard!AsIn(l) <=> <<s, t>> \in R
    BY <1>1, <1>2
  <2>2. \A p \in Tasks \X Tasks : p \in Taskboard!AsIn(l) <=> p \in R
    <3> TAKE p \in Tasks \X Tasks
    <3>1. p[1] \in Tasks /\ p[2] \in Tasks /\ p = <<p[1], p[2]>>
      OBVIOUS
    <3> QED BY <2>1, <3>1
  <2> QED BY <2>1, <2>2
<1>4. IsList(l, position)
  BY <1>1, <1>2 DEF IsList
<1> QED BY <1>3, <1>4 DEF R, l

(* Making room.                                                            *)

\* f[n] is what the positions are after n of the moves.
Shifts(f, orders, queue, new, N) ==
  f = [n \in 0 .. N |-> IF n = 0 THEN orders ELSE Taskboard!Shift(f[n - 1], queue[n], new[queue[n]])]

LEMMA ShiftsExist ==
  ASSUME NEW orders, NEW queue, NEW new, NEW N \in Nat
  PROVE  \E f : Shifts(f, orders, queue, new, N)
<1> DEFINE Next1(o, n) == Taskboard!Shift(o, queue[n], new[queue[n]])
           G == {n \in Nat : \E f : f = [k \in 0 .. n |-> IF k = 0 THEN orders ELSE Next1(f[k - 1], k)]}
<1>1. 0 \in G
  <2> DEFINE f == [k \in 0 .. 0 |-> orders]
  <2>1. f = [k \in 0 .. 0 |-> IF k = 0 THEN orders ELSE Next1(f[k - 1], k)]
    OBVIOUS
  <2> HIDE DEF f, Next1
  <2> QED BY <2>1
<1>2. ASSUME NEW n \in Nat, n \in G PROVE n + 1 \in G
  <2> HIDE DEF Next1
  <2>1. PICK f : f = [k \in 0 .. n |-> IF k = 0 THEN orders ELSE Next1(f[k - 1], k)]
    BY <1>2
  <2> DEFINE g == [i \in 0 .. n + 1 |-> IF i = n + 1 THEN Next1(f[n], n + 1) ELSE f[i]]
  <2>2. \A i \in 0 .. n : g[i] = f[i] /\ f[i] = IF i = 0 THEN orders ELSE Next1(f[i - 1], i)
    BY <2>1
  <2>3. \A i \in 0 .. n + 1 : g[i] = IF i = 0 THEN orders ELSE Next1(g[i - 1], i)
    <3> TAKE i \in 0 .. n + 1
    <3>1. CASE i = n + 1
      <4>0. g[n + 1] = Next1(f[n], n + 1)
        OBVIOUS
      <4>1. g[i] = Next1(f[n], n + 1) /\ i # 0 /\ i - 1 = n
        <5> HIDE DEF g
        <5> QED BY <3>1, <4>0
      <4>2. g[n] = f[n] /\ n \in 0 .. n
        BY <2>2
      <4> HIDE DEF g
      <4> QED BY <3>1, <4>1, <4>2
    <3>2. CASE i # n + 1
      <4>1. i \in 0 .. n /\ (i # 0 => i - 1 \in 0 .. n)
        BY <3>2
      <4>2. g[i] = f[i] /\ (i # 0 => g[i - 1] = f[i - 1])
        BY <2>2, <4>1
      <4> HIDE DEF g
      <4> QED BY <2>2, <4>1, <4>2
    <3> QED BY <3>1, <3>2
  <2>4. DOMAIN g = 0 .. n + 1 /\ g = [i \in 0 .. n + 1 |-> g[i]]
    OBVIOUS
  <2> HIDE DEF g
  <2>5. g = [k \in 0 .. n + 1 |-> IF k = 0 THEN orders ELSE Next1(g[k - 1], k)]
    BY <2>3, <2>4
  <2> QED BY <2>5
<1> HIDE DEF G
<1>3. N \in G
  BY <1>1, <1>2, NatSteps
<1> QED BY <1>3 DEF G, Next1, Shifts

\* What the elements of S end up with when one of them, s, is put at `mine`, and those right in
\* front of it, E, are asked to stay.
Room(orders, s, mine) ==
  [u \in DOMAIN orders |-> IF u = s THEN mine
                           ELSE IF orders[u] >= mine THEN orders[u] + 1 ELSE orders[u]]

Asked(E, s, mine) == [u \in E \cup {s} |-> IF u = s THEN mine ELSE mine - 1]

\* The order of the moves, and what is answered when the last of them has led to `last`.
Queue(new) == Taskboard!Sorted(DOMAIN new, Taskboard!ByPosition(new))
Touched(orders, new, last) ==
  [s \in {t \in DOMAIN orders : last[t] # orders[t] \/ (t \in DOMAIN new /\ new[t] # last[t])} |->
     IF s \in DOMAIN new THEN new[s] ELSE last[s]]

LEMMA UpdatesAre ==
  ASSUME NEW orders, NEW new, Len(Queue(new)) \in Nat
  PROVE  \E f : /\ Shifts(f, orders, Queue(new), new, Len(Queue(new)))
               /\ Taskboard!ApplyOrderUpdates(orders, new) = Touched(orders, new, f[Len(Queue(new))])
<1>1. \E f : Shifts(f, orders, Queue(new), new, Len(Queue(new)))
  BY ShiftsExist
<1> QED BY <1>1 DEF Shifts, Queue, Touched, Taskboard!ApplyOrderUpdates

\* One move.
LEMMA ShiftOnce ==
  ASSUME NEW S, NEW orders \in [S -> Nat], NEW s \in S, NEW to \in Nat
  PROVE  /\ orders[s] = to =>
              Taskboard!Shift(orders, s, to) = [u \in S |-> IF orders[u] >= to THEN orders[u] + 1 ELSE orders[u]]
         /\ orders[s] = to + 1 =>
              Taskboard!Shift(orders, s, to) = [u \in S |-> IF orders[u] = to THEN orders[u] + 1 ELSE orders[u]]
<1>1. \A u \in S : orders[u] \in Nat
  OBVIOUS
<1>2. DOMAIN orders = S
  OBVIOUS
<1>3. ASSUME orders[s] = to
      PROVE  Taskboard!Shift(orders, s, to) = [u \in S |-> IF orders[u] >= to THEN orders[u] + 1 ELSE orders[u]]
  <2>1. \A u \in S : u \in Taskboard!Shifted(orders, orders[s], to) <=> orders[u] >= to
    BY <1>1, <1>2, <1>3 DEF Taskboard!Shifted
  <2> QED BY <1>2, <2>1 DEF Taskboard!Shift
<1>4. ASSUME orders[s] = to + 1
      PROVE  Taskboard!Shift(orders, s, to) = [u \in S |-> IF orders[u] = to THEN orders[u] + 1 ELSE orders[u]]
  <2>1. \A u \in S : u \in Taskboard!Shifted(orders, orders[s], to) <=> orders[u] = to
    BY <1>1, <1>2, <1>4 DEF Taskboard!Shifted
  <2> QED BY <1>2, <2>1 DEF Taskboard!Shift
<1> QED BY <1>3, <1>4

\* The order of the moves: those who stay, then s.
LEMMA QueueIs ==
  ASSUME NEW E \in SUBSET Tasks, NEW s \in Tasks \ E, NEW mine \in Nat, E # {} => mine > 0
  PROVE  LET new == Asked(E, s, mine)
             q == Queue(new)
         IN /\ Len(q) = Cardinality(E) + 1 /\ Cardinality(E) \in Nat
            /\ q[Cardinality(E) + 1] = s
            /\ \A i \in 1 .. Cardinality(E) : q[i] \in E
            /\ E = {} <=> Cardinality(E) = 0
<1> DEFINE new == Asked(E, s, mine)
           S == E \cup {s}
           R == Taskboard!ByPosition(new)
           q == Taskboard!Sorted(S, R)
<1>1. DOMAIN new = S /\ S \in SUBSET Tasks /\ IsFiniteSet(S) /\ IsFiniteSet(E)
  <2>1. IsFiniteSet(Tasks)
    BY TaskboardAssumption
  <2>2. S \in SUBSET Tasks /\ E \in SUBSET Tasks
    OBVIOUS
  <2>3. IsFiniteSet(S) /\ IsFiniteSet(E)
    BY <2>1, <2>2, FS_Subset
  <2> QED BY <2>2, <2>3 DEF Asked
<1>2. new \in [S -> Nat] /\ new[s] = mine /\ \A u \in E : new[u] = mine - 1 /\ mine - 1 \in Nat
  BY DEF Asked
<1> HIDE DEF new
<1>3. /\ \A u, v \in S : <<u, v>> \in R <=> new[u] < new[v] \/ (new[u] = new[v] /\ u < v)
      /\ StrictOrder(S, R)
  BY <1>1, <1>2, ByPositionIs
<1> HIDE DEF R
<1>4. Below(S, R, s) = E
  <2>1. \A u \in E : <<u, s>> \in R
    BY <1>2, <1>3
  <2>2. <<s, s>> \notin R
    BY <1>3 DEF StrictOrder
  <2> QED BY <2>1, <2>2 DEF Below
<1>5. Cardinality(E) \in Nat /\ Cardinality(S) = Cardinality(E) + 1
  BY <1>1, FS_CardinalityType, FS_AddElement
<1>6. RankIn(S, R, s) = Cardinality(E) + 1
  BY <1>4, <1>5 DEF RankIn
<1>7. /\ Len(q) = Cardinality(S)
      /\ \A i \in 1 .. Cardinality(S) : q[i] \in S /\ RankIn(S, R, q[i]) = i
      /\ \A u \in S : Taskboard!At(q, u) = RankIn(S, R, u) /\ q[Taskboard!At(q, u)] = u
  <2>1. s \in S /\ S = S
    OBVIOUS
  <2> HIDE DEF S
  <2>2. Len(q) = Cardinality(S)
    BY <1>1, <1>3, PlacesAre
  <2>3. \A i \in 1 .. Cardinality(S) : q[i] \in S /\ RankIn(S, R, q[i]) = i
    BY <1>1, <1>3, PlacesAre
  <2>4. \A u \in S : Taskboard!At(q, u) = RankIn(S, R, u) /\ q[Taskboard!At(q, u)] = u
    BY <1>1, <1>3, PlacesAre
  <2> QED BY <2>2, <2>3, <2>4
<1> HIDE DEF q
<1>8. q[Cardinality(E) + 1] = s
  BY <1>6, <1>7
<1>9. ASSUME NEW i \in 1 .. Cardinality(E) PROVE q[i] \in E
  <2>1. i \in 1 .. Cardinality(S) /\ i # Cardinality(E) + 1
    BY <1>5
  <2>2. q[i] \in S /\ RankIn(S, R, q[i]) = i
    BY <1>7, <2>1
  <2>3. q[i] # s
    BY <1>6, <2>1, <2>2
  <2> QED BY <2>2, <2>3
<1>10. E = {} <=> Cardinality(E) = 0
  BY <1>1, FS_EmptySet
<1>11. q = Queue(new)
  BY <1>1 DEF q, R, Queue
<1> QED BY <1>5, <1>7, <1>8, <1>9, <1>10, <1>11 DEF new

\* With the positions of v, s is at `mine` and has room.
MakesRoom(v, orders, S, s, mine) ==
  /\ DOMAIN v \subseteq S
  /\ \A u \in S : Room(orders, s, mine)[u] = IF u \in DOMAIN v THEN v[u] ELSE orders[u]

\* apply_order_updates as it comes out for a drag.
LEMMA UpdatesRight ==
  ASSUME NEW S \in SUBSET Tasks, NEW orders \in [S -> Nat], NEW s \in S, NEW mine \in Nat,
         orders[s] = mine, NEW E \in SUBSET (S \ {s}),
         E # {} => mine > 0 /\ E = {u \in S : orders[u] = mine - 1}
  PROVE  MakesRoom(Taskboard!ApplyOrderUpdates(orders, Asked(E, s, mine)), orders, S, s, mine)
<1> DEFINE new == Asked(E, s, mine)
           q == Queue(new)
           v == Taskboard!ApplyOrderUpdates(orders, new)
           n == Cardinality(E)
           g == [u \in S |-> IF orders[u] >= mine - 1 THEN orders[u] + 1 ELSE orders[u]]
<1>1. DOMAIN orders = S /\ \A u \in S : orders[u] \in Nat
  OBVIOUS
<1>2. /\ DOMAIN new = E \cup {s} /\ new[s] = mine
      /\ \A u \in E : new[u] = mine - 1
  BY DEF Asked
<1>3. /\ Len(q) = n + 1 /\ n \in Nat /\ q[n + 1] = s
      /\ \A i \in 1 .. n : q[i] \in E
      /\ E = {} <=> n = 0
  BY QueueIs
<1> HIDE DEF new
<1>4. PICK f : Shifts(f, orders, q, new, Len(q)) /\ v = Touched(orders, new, f[Len(q)])
  <2>1. Len(q) \in Nat
    BY <1>3
  <2> QED BY <2>1, UpdatesAre
<1> HIDE DEF q, v
<1>5. /\ f[0] = orders
      /\ \A i \in 1 .. n + 1 : f[i] = Taskboard!Shift(f[i - 1], q[i], new[q[i]])
  BY <1>3, <1>4 DEF Shifts
<1>6. ASSUME E # {} PROVE f[n] = g
  <2>1. /\ mine - 1 \in Nat /\ \A u \in E : u \in S /\ orders[u] = mine - 1
        /\ mine > 0
    BY <1>6
  <2>2. g \in [S -> Nat] /\ \A u \in E : g[u] = (mine - 1) + 1
    BY <1>1, <2>1
  <2>3. \A u \in S : g[u] # mine - 1
    BY <1>1, <2>1
  <2> DEFINE G == {i \in Nat : i + 1 <= n => f[i + 1] = g}
  <2>4. 0 \in G
    <3>1. 1 \in 1 .. n + 1 /\ 1 \in 1 .. n
      BY <1>3, <1>6
    <3>2. q[1] \in E /\ new[q[1]] = mine - 1
      BY <1>2, <1>3, <3>1
    <3>3. f[1] = Taskboard!Shift(orders, q[1], mine - 1)
      BY <1>5, <3>1, <3>2
    <3>4. Taskboard!Shift(orders, q[1], mine - 1) = g
      BY <2>1, <3>2, ShiftOnce
    <3> QED BY <3>3, <3>4
  <2>5. ASSUME NEW i \in Nat, i \in G PROVE i + 1 \in G
    <3> SUFFICES ASSUME (i + 1) + 1 <= n PROVE f[(i + 1) + 1] = g
      OBVIOUS
    <3> DEFINE k == (i + 1) + 1
    <3>1. k \in 1 .. n + 1 /\ k \in 1 .. n /\ k - 1 = i + 1 /\ f[i + 1] = g
      BY <1>3, <2>5
    <3> HIDE DEF k, G, g
    <3>2. q[k] \in E /\ new[q[k]] = mine - 1
      BY <1>2, <1>3, <3>1
    <3>3. f[k] = Taskboard!Shift(g, q[k], mine - 1)
      BY <1>5, <3>1, <3>2
    <3>4. Taskboard!Shift(g, q[k], mine - 1)
            = [u \in S |-> IF g[u] = mine - 1 THEN g[u] + 1 ELSE g[u]]
      BY <2>1, <2>2, <3>2, ShiftOnce
    <3>5. g = [u \in S |-> IF g[u] = mine - 1 THEN g[u] + 1 ELSE g[u]]
      BY <2>2, <2>3
    <3> QED BY <3>3, <3>4, <3>5 DEF k
  <2> HIDE DEF G, g
  <2>6. \A i \in Nat : i \in G
    BY <2>4, <2>5, NatSteps
  <2>7. n - 1 \in Nat /\ (n - 1) + 1 = n
    BY <1>3, <1>6
  <2>8. n - 1 \in G
    BY <2>6, <2>7
  <2> QED BY <2>7, <2>8, <1>3 DEF G
<1>7. f[n + 1] = Taskboard!Shift(f[n], s, mine)
  BY <1>2, <1>3, <1>5
<1> DEFINE h == f[n + 1]
<1>8. ASSUME E = {}
      PROVE  \A u \in S : h[u] = IF orders[u] >= mine THEN orders[u] + 1 ELSE orders[u]
  <2>1. f[n] = orders
    BY <1>3, <1>5, <1>8
  <2>2. h = [u \in S |-> IF orders[u] >= mine THEN orders[u] + 1 ELSE orders[u]]
    BY <1>7, <2>1, ShiftOnce
  <2> QED BY <2>2
<1>9. ASSUME E # {}
      PROVE  \A u \in S : u \notin E => h[u] = IF orders[u] >= mine THEN orders[u] + 1 ELSE orders[u]
  <2>1. f[n] = g /\ g \in [S -> Nat] /\ mine > 0
    BY <1>1, <1>6, <1>9
  <2>2. g[s] = mine + 1
    BY <1>1
  <2>3. h = [u \in S |-> IF g[u] = mine THEN g[u] + 1 ELSE g[u]]
    <3> HIDE DEF g
    <3> QED BY <1>7, <2>1, <2>2, ShiftOnce
  <2> TAKE u \in S
  <2>4. h[u] = IF g[u] = mine THEN g[u] + 1 ELSE g[u]
    BY <2>3
  <2>5. g[u] = IF orders[u] >= mine - 1 THEN orders[u] + 1 ELSE orders[u]
    OBVIOUS
  <2>6. u \notin E => orders[u] # mine - 1
    BY <1>9
  <2> HIDE DEF g, h
  <2> QED BY <1>1, <2>1, <2>4, <2>5, <2>6
<1>10. /\ DOMAIN v = {t \in S : h[t] # orders[t] \/ (t \in DOMAIN new /\ new[t] # h[t])}
       /\ \A u \in DOMAIN v : v[u] = IF u \in DOMAIN new THEN new[u] ELSE h[u]
  BY <1>1, <1>3, <1>4 DEF Touched
<1> HIDE DEF h, g
<1>11. ASSUME NEW u \in S
       PROVE  Room(orders, s, mine)[u] = IF u \in DOMAIN v THEN v[u] ELSE orders[u]
  <2>1. Room(orders, s, mine)[u] = IF u = s THEN mine
                                   ELSE IF orders[u] >= mine THEN orders[u] + 1 ELSE orders[u]
    BY <1>1 DEF Room
  <2>2. CASE u = s
    <3>1. u \in DOMAIN new /\ new[u] = mine /\ orders[u] = mine
      BY <1>2, <2>2
    <3> QED BY <1>10, <2>1, <2>2, <3>1
  <2>3. CASE u \in E
    <3>1. u # s /\ u \in DOMAIN new /\ new[u] = mine - 1 /\ orders[u] = mine - 1 /\ mine > 0
      BY <1>2, <2>3
    <3>2. Room(orders, s, mine)[u] = orders[u]
      BY <1>1, <2>1, <3>1
    <3> QED BY <1>10, <3>1, <3>2
  <2>4. CASE u # s /\ u \notin E
    <3>1. u \notin DOMAIN new
      BY <1>2, <2>4
    <3>2. h[u] = IF orders[u] >= mine THEN orders[u] + 1 ELSE orders[u]
      BY <1>8, <1>9, <2>4
    <3>3. Room(orders, s, mine)[u] = h[u]
      BY <2>1, <2>4, <3>2
    <3> QED BY <1>10, <3>1, <3>3
  <2> QED BY <2>2, <2>3, <2>4
<1>12. DOMAIN v \subseteq S
  BY <1>10
<1>13. MakesRoom(v, orders, S, s, mine)
  BY <1>11, <1>12 DEF MakesRoom
<1> QED BY <1>13 DEF v, new

(* A drag in a tab.                                                        *)

PartOf == UNION {[S -> Nat] : S \in SUBSET Tasks}

\* The drag puts s right behind the one at `index`, which no other of its position follows.
Splits(position, rest, index) ==
  index \in 1 .. Len(rest) - 1 /\ position[rest[index]] = position[rest[index + 1]]

LEMMA MoveTyped ==
  ASSUME NEW A, StrictOrder(Tasks, A), NEW position \in [Tasks -> Nat], NEW S \in SUBSET Tasks,
         NEW s \in Tasks, NEW index \in Nat, index <= Len(Taskboard!Sorted(S, A))
  PROVE  LET m == Taskboard!Move(position, Taskboard!Sorted(S, A), s, index) IN
         /\ m.order \in [Tasks -> Nat]
         /\ DOMAIN m.setOrders \subseteq S
         /\ m.setOrders \in PartOf
<1> DEFINE rest == Taskboard!Sorted(S, A)
           m == Taskboard!Move(position, rest, s, index)
           previous == position[rest[index]]
           mine == IF index = 0 THEN 0 ELSE previous + 1
<1>1. IsFiniteSet(S) /\ StrictOrder(S, A)
  BY TaskboardAssumption, FS_Subset, StrictPart
<1>2. /\ rest \in Seq(S) /\ Len(rest) = Cardinality(S) /\ Cardinality(S) \in Nat
      /\ \A i \in 1 .. Cardinality(S) : rest[i] \in S
      /\ \A u \in S : Taskboard!At(rest, u) \in 1 .. Cardinality(S)
  BY <1>1, PlacesAre
<1>3. index # 0 => index \in 1 .. Cardinality(S) /\ previous \in Nat
  <2>1. index # 0 => index \in 1 .. Cardinality(S)
    BY <1>2
  <2> QED BY <1>2, <2>1
<1> HIDE DEF rest
<1>4. Taskboard!ToSet(rest) \subseteq S
  BY <1>2 DEF Taskboard!ToSet
<1>5. m = [order |-> [u \in Tasks |->
                CASE u = s -> mine
                  [] u # s /\ u \in Taskboard!ToSet(rest) /\ Taskboard!At(rest, u) > index ->
                       mine + Taskboard!At(rest, u) - index
                  [] OTHER -> position[u]],
           setOrders |-> m.setOrders]
  BY DEF Taskboard!Move
<1>6. mine \in Nat
  BY <1>3
<1>7. m.order \in [Tasks -> Nat]
  <2> SUFFICES ASSUME NEW u \in Tasks PROVE m.order[u] \in Nat /\ DOMAIN m.order = Tasks /\ m.order = [v \in Tasks |-> m.order[v]]
    BY <1>5
  <2> DEFINE at == Taskboard!At(rest, u)
  <2>1. u \in Taskboard!ToSet(rest) => at \in Nat
    BY <1>2, <1>4
  <2>2. m.order[u] = CASE u = s -> mine
                       [] u # s /\ u \in Taskboard!ToSet(rest) /\ at > index -> mine + at - index
                       [] OTHER -> position[u]
    BY <1>5
  <2> HIDE DEF m, mine, at
  <2>3. CASE u = s
    <3>1. m.order[u] = mine
      BY <2>2, <2>3
    <3> QED BY <1>5, <1>6, <3>1
  <2>4. CASE u # s /\ u \in Taskboard!ToSet(rest) /\ at > index
    <3>1. m.order[u] = mine + at - index /\ at \in Nat
      BY <2>1, <2>2, <2>4
    <3>2. mine + at - index \in Nat
      BY <1>6, <2>4, <3>1
    <3> QED BY <1>5, <3>1, <3>2
  <2>5. CASE u # s /\ ~ (u \in Taskboard!ToSet(rest) /\ at > index)
    <3>1. m.order[u] = position[u]
      BY <2>2, <2>5
    <3> QED BY <1>5, <3>1
  <2> QED BY <2>3, <2>4, <2>5
<1> DEFINE equals == {u \in Taskboard!ToSet(rest) : Taskboard!At(rest, u) <= index /\ position[u] = previous}
<1>8. m.setOrders = IF Taskboard!Cardinality(equals) > 1 THEN [u \in equals |-> previous]
                    ELSE [u \in {} |-> 0]
  BY DEF Taskboard!Move
<1>9. equals \subseteq S /\ (equals # {} => previous \in Nat)
  <2>1. equals \subseteq S
    BY <1>4
  <2>2. ASSUME NEW u \in equals PROVE previous \in Nat
    <3>1. position[u] = previous /\ u \in Tasks
      BY <2>1
    <3> QED BY <3>1
  <2> QED BY <2>1, <2>2
<1>10. DOMAIN m.setOrders \subseteq S /\ m.setOrders \in PartOf
  <2> HIDE DEF m, equals, previous
  <2>1. CASE Taskboard!Cardinality(equals) > 1 /\ equals # {}
    <3>1. m.setOrders = [u \in equals |-> previous] /\ equals \in SUBSET Tasks
      BY <1>8, <1>9, <2>1
    <3>2. m.setOrders \in [equals -> Nat]
      BY <1>9, <2>1, <3>1
    <3> QED BY <1>9, <3>1, <3>2 DEF PartOf
  <2>2. CASE ~ (Taskboard!Cardinality(equals) > 1) \/ equals = {}
    <3>1. m.setOrders \in [{} -> Nat] /\ DOMAIN m.setOrders = {}
      BY <1>8, <2>2
    <3> QED BY <3>1 DEF PartOf
  <2> QED BY <2>1, <2>2
<1> QED BY <1>7, <1>10 DEF m, rest

\* Those of S that are behind s keep their order, and nothing else changes; asked to stay are
\* those right in front of s.
IsMove(m, position, S, s, A) ==
  LET mine == m.order[s]
      E == DOMAIN m.setOrders
  IN /\ \A u \in Tasks : u # s /\ u \notin S => m.order[u] = position[u]
     /\ \A u \in S : IF position[u] >= mine THEN m.order[u] > mine ELSE m.order[u] = position[u]
     /\ \A u, v \in S : position[u] >= mine /\ position[v] >= mine =>
          (m.order[u] < m.order[v] <=> <<u, v>> \in A)
     /\ \A u, v \in S : position[u] >= mine /\ position[v] >= mine /\ u # v =>
          m.order[u] # m.order[v]
     /\ \A u \in E : m.setOrders[u] = mine - 1
     /\ E \subseteq S
     /\ E # {} => mine > 0 /\ E = {u \in S : position[u] = mine - 1}

\* Those of S that are behind the place of s are those whose position is not below that of s.
LEMMA MoveIs ==
  ASSUME NEW A, StrictOrder(Tasks, A), NEW position \in [Tasks -> Nat],
         \A u, v \in Tasks : position[u] < position[v] => <<u, v>> \in A,
         NEW S \in SUBSET Tasks, NEW s \in Tasks \ S, NEW index \in Nat,
         index <= Len(Taskboard!Sorted(S, A)), ~ Splits(position, Taskboard!Sorted(S, A), index)
  PROVE  IsMove(Taskboard!Move(position, Taskboard!Sorted(S, A), s, index), position, S, s, A)
<1> DEFINE rest == Taskboard!Sorted(S, A)
           m == Taskboard!Move(position, rest, s, index)
           n == Cardinality(S)
           at(u) == Taskboard!At(rest, u)
           previous == position[rest[index]]
           mine == IF index = 0 THEN 0 ELSE previous + 1
           equals == {u \in Taskboard!ToSet(rest) : Taskboard!At(rest, u) <= index /\ position[u] = previous}
<1>1. IsFiniteSet(S) /\ StrictOrder(S, A)
  BY TaskboardAssumption, FS_Subset, StrictPart
<1>2. /\ rest \in Seq(S) /\ Len(rest) = n /\ n \in Nat
      /\ \A i \in 1 .. n : rest[i] \in S /\ RankIn(S, A, rest[i]) = i
      /\ \A u \in S : at(u) = RankIn(S, A, u) /\ at(u) \in 1 .. n /\ rest[at(u)] = u
  BY <1>1, PlacesAre
<1>3. \A u, v \in S : <<u, v>> \in A => at(u) < at(v)
  BY <1>1, <1>2, RankGrows
<1>4. \A u, v \in S : u # v => at(u) # at(v)
  BY <1>2
<1>5. \A i \in 1 .. n : at(rest[i]) = i
  BY <1>2
<1> HIDE DEF rest
<1>6. Taskboard!ToSet(rest) = S
  <2>1. \A u \in S : at(u) \in DOMAIN rest /\ rest[at(u)] = u
    BY <1>2
  <2>2. \A i \in DOMAIN rest : rest[i] \in S
    BY <1>2
  <2> HIDE DEF at
  <2> QED BY <2>1, <2>2 DEF Taskboard!ToSet
<1>7. /\ m.order = [u \in Tasks |->
                CASE u = s -> mine
                  [] u # s /\ u \in S /\ at(u) > index -> mine + at(u) - index
                  [] OTHER -> position[u]]
      /\ m.setOrders = IF Taskboard!Cardinality(equals) > 1 THEN [u \in equals |-> previous]
                    ELSE [u \in {} |-> 0]
  BY <1>6 DEF Taskboard!Move
<1> HIDE DEF m
<1>8. m.order[s] = mine /\ s \notin S
  BY <1>7
<1>9. \A u \in S : m.order[u] = IF at(u) > index THEN mine + at(u) - index ELSE position[u]
  <2> TAKE u \in S
  <2>1. u # s /\ u \in Tasks
    OBVIOUS
  <2> HIDE DEF at, mine
  <2> QED BY <1>7, <2>1
<1>10. \A u \in Tasks : u # s /\ u \notin S => m.order[u] = position[u]
  <2> HIDE DEF at, mine
  <2> QED BY <1>7
<1>11. index # 0 => index \in 1 .. n /\ rest[index] \in S /\ previous \in Nat
  <2>1. index # 0 => index \in 1 .. n
    BY <1>2 DEF rest
  <2> QED BY <1>2, <2>1
<1>12. mine \in Nat
  BY <1>11
<1>13. \A u, v \in S : position[u] < position[v] => at(u) < at(v)
  BY <1>3
<1>14. \A u \in S : at(u) \in 1 .. n /\ position[u] \in Nat
  BY <1>2
<1> HIDE DEF at
<1>15. ASSUME NEW u \in S, at(u) <= index
       PROVE  position[u] < mine /\ mine = previous + 1 /\ previous \in Nat /\ index # 0
  <2>1. index # 0 /\ at(u) \in Nat
    BY <1>14, <1>15
  <2>2. at(rest[index]) = index /\ rest[index] \in S
    BY <1>5, <1>11, <2>1
  <2>3. ~ (position[rest[index]] < position[u])
    BY <1>13, <1>14, <1>15, <2>2
  <2> QED BY <1>11, <1>14, <2>1, <2>3
<1>16. ASSUME NEW u \in S, at(u) > index
       PROVE  position[u] >= mine
  <2>1. CASE index = 0
    BY <1>14, <2>1
  <2>2. CASE index # 0
    <3> DEFINE w == rest[index + 1]
    <3>1. index \in 1 .. n /\ rest[index] \in S /\ previous \in Nat /\ index \in 1 .. n - 1
      BY <1>2, <1>11, <1>14, <1>16, <2>2
    <3>2. index + 1 \in 1 .. n /\ w \in S /\ at(w) = index + 1 /\ at(rest[index]) = index
      BY <1>2, <1>5, <3>1
    <3>3. position[w] # previous
      BY <1>2, <3>1 DEF Splits, rest
    <3> HIDE DEF w
    <3>4. ~ (position[w] < previous)
      BY <1>13, <3>1, <3>2
    <3>5. ~ (position[u] < position[w])
      BY <1>13, <1>14, <1>16, <3>2
    <3> QED BY <1>14, <2>2, <3>1, <3>2, <3>3, <3>4, <3>5
  <2> QED BY <2>1, <2>2
<1>17. \A u \in S : at(u) > index <=> position[u] >= mine
  <2> TAKE u \in S
  <2>1. at(u) \in Nat /\ position[u] \in Nat /\ (at(u) > index \/ at(u) <= index)
    BY <1>14
  <2> HIDE DEF mine
  <2> QED BY <1>12, <1>15, <1>16, <2>1
<1>18. ASSUME NEW u \in S
       PROVE  IF position[u] >= mine THEN m.order[u] > mine ELSE m.order[u] = position[u]
  <2>1. at(u) \in Nat
    BY <1>14
  <2> HIDE DEF mine
  <2>2. CASE at(u) > index
    BY <1>9, <1>12, <1>17, <2>1, <2>2
  <2>3. CASE ~ (at(u) > index)
    BY <1>9, <1>12, <1>17, <2>1, <2>3
  <2> QED BY <2>2, <2>3
<1>19. ASSUME NEW u \in S, NEW v \in S, position[u] >= mine, position[v] >= mine
       PROVE  /\ m.order[u] < m.order[v] <=> <<u, v>> \in A
              /\ u # v => m.order[u] # m.order[v]
  <2>1. m.order[u] = mine + at(u) - index /\ m.order[v] = mine + at(v) - index
    BY <1>9, <1>17, <1>19
  <2>2. at(u) \in Nat /\ at(v) \in Nat
    BY <1>14
  <2>3. at(u) < at(v) <=> <<u, v>> \in A
    <3>1. u = v \/ <<u, v>> \in A \/ <<v, u>> \in A
      BY <1>1 DEF StrictOrder
    <3>2. u = v => <<u, v>> \notin A
      BY <1>1 DEF StrictOrder
    <3> QED BY <1>3, <2>2, <3>1, <3>2
  <2>4. u # v => at(u) # at(v)
    BY <1>4 DEF at
  <2> HIDE DEF mine
  <2> QED BY <1>12, <2>1, <2>2, <2>3, <2>4
<1>20. equals \subseteq S
  BY <1>6
<1>21. ASSUME equals # {}
       PROVE  previous = mine - 1 /\ mine > 0 /\ equals = {u \in S : position[u] = mine - 1}
  <2>1. PICK w \in equals : TRUE
    BY <1>21
  <2>2. w \in S /\ at(w) <= index
    BY <1>20, <2>1 DEF at
  <2>3. mine = previous + 1 /\ previous \in Nat
    BY <1>15, <2>2
  <2>4. ASSUME NEW u \in S, position[u] = previous PROVE at(u) <= index
    <3>1. ~ (position[u] >= mine)
      BY <2>3, <2>4
    <3>2. ~ (at(u) > index) /\ at(u) \in Nat
      BY <1>14, <1>17, <3>1
    <3> QED BY <3>2
  <2>5. equals = {u \in S : position[u] = previous}
    BY <1>6, <1>20, <2>4 DEF at
  <2> HIDE DEF equals, mine, previous
  <2>6. previous = mine - 1 /\ mine > 0
    BY <2>3
  <2> QED BY <2>5, <2>6
<1>22. /\ DOMAIN m.setOrders = {} \/ (DOMAIN m.setOrders = equals /\ equals # {})
       /\ \A u \in DOMAIN m.setOrders : m.setOrders[u] = previous /\ equals # {}
  <2> HIDE DEF equals, previous
  <2>1. CASE equals = {}
    BY <1>7, <2>1
  <2>2. CASE equals # {}
    BY <1>7, <2>2
  <2> QED BY <2>1, <2>2
<1> HIDE DEF equals, previous, mine
<1>23. /\ \A u \in DOMAIN m.setOrders : m.setOrders[u] = mine - 1
       /\ DOMAIN m.setOrders \subseteq S
       /\ DOMAIN m.setOrders # {} => mine > 0 /\ DOMAIN m.setOrders = {u \in S : position[u] = mine - 1}
  BY <1>20, <1>21, <1>22
<1>24. IsMove(m, position, S, s, A)
  BY <1>8, <1>10, <1>18, <1>19, <1>23 DEF IsMove
<1> QED BY <1>24 DEF m, rest

(* The state, and what a tab in which nothing went wrong shows.            *)

TabRecords ==
  [tab : Tabs, task : Tasks, cell : Cells, order : Nat, setOrders : PartOf, version : Nat,
   newCell : BOOLEAN, newOrder : BOOLEAN, held : BOOLEAN,
   step : {"sent", "saved", "published", "done", "refused"}, row : Taskboard!Row, values : PartOf]
LoadRecords == [rows : Taskboard!Rows \cup {Taskboard!NoRows}, clean : BOOLEAN]
CardRecords == [attrs : Taskboard!Row, cell : Cells, order : Nat, modified : BOOLEAN]

BoardTypes ==
  /\ rows \in Taskboard!Rows
  /\ drops \in Seq(TabRecords)
  /\ informed \subseteq Tabs
  /\ loads \in [Tabs -> Seq(LoadRecords)]
  /\ cards \in [Tabs -> [Tasks -> CardRecords]]
  /\ order \in [Tabs -> [Tasks -> Nat]]
  /\ DOMAIN list = Tabs /\ \A t \in Tabs : IsList(list[t], order[t])
  /\ suspect \subseteq Tabs
  /\ faults \in Nat /\ faults + Len(drops) <= MaxEvents

Over(r) == r.step \in {"done", "refused"}

\* What a clean load has read is what there is, and stays so.
LoadsInv ==
  \A t \in Tabs : \A i \in DOMAIN loads[t] : loads[t][i].clean =>
    /\ loads[t][i].rows = rows
    /\ \A j \in DOMAIN drops : drops[j].step # "published" /\ (drops[j].tab = t => Over(drops[j]))

\* The cards, positions and list of a tab are those of a load that has read db.
Fresh(its, positions, l, db) ==
  /\ its = Taskboard!Models(db)
  /\ positions = Taskboard!Orders(db)
  /\ Taskboard!AsIn(l) = Taskboard!ByPosition(Taskboard!Orders(db))

\* The rows and their positions as the request will leave them.
Target(db, r) ==
  [db EXCEPT ![r.task] = IF r.step = "sent" THEN Taskboard!Saved(db, r)
                         ELSE IF r.step = "saved" THEN r.row ELSE @]
Wanted(db, r) ==
  IF r.step = "sent" THEN Taskboard!Reordered(db, r)
  ELSE IF r.step \in {"saved", "published"} THEN r.values ELSE Taskboard!NoRows
Final(db, r) ==
  [s \in Tasks |-> IF s \in DOMAIN Wanted(db, r) THEN Wanted(db, r)[s] ELSE Target(db, r)[s].order]

\* The cards are in the cells of db, and in the list in the order of the positions.
Agrees(its, l, db, position) ==
  /\ \A s \in Tasks : its[s].cell = db[s].cell
  /\ \A s, u \in Tasks : db[s].cell = db[u].cell =>
       (<<s, u>> \in Taskboard!AsIn(l) <=> <<s, u>> \in Taskboard!ByPosition(position))

Quiet(t) == t \notin suspect /\ Taskboard!Settled(t)

HeldBy(reqs, t, i) == reqs[i].tab = t /\ reqs[i].held

\* A tab in which nothing went wrong and nothing is on its way to: it is as it was loaded, or
\* there is one drag since, and the tab shows what that will lead to.
QuietOK(t, reqs, db, its, positions, l) ==
  /\ \A j \in DOMAIN reqs : reqs[j].step = "published" => reqs[j].tab = t
  /\ \A j \in DOMAIN reqs : reqs[j].tab = t /\ ~ reqs[j].held => Over(reqs[j])
  /\ (\E i \in DOMAIN reqs : HeldBy(reqs, t, i)) \/ Fresh(its, positions, l, db)
  /\ \A i \in DOMAIN reqs : HeldBy(reqs, t, i) =>
       /\ reqs[i].step # "refused"
       /\ reqs[i].step = "published" => reqs[i].row = db[reqs[i].task]
       /\ \A j \in DOMAIN reqs : HeldBy(reqs, t, j) => i = j
       /\ Agrees(its, l, Target(db, reqs[i]), Final(db, reqs[i]))

TabInv ==
  /\ BoardTypes /\ LoadsInv
  /\ \A t \in Tabs : Quiet(t) => QuietOK(t, drops, rows, cards[t], order[t], list[t])

LEMMA OrdersTyped ==
  ASSUME NEW db \in Taskboard!Rows
  PROVE  /\ Taskboard!Orders(db) \in [Tasks -> Nat]
         /\ \A s \in Tasks : Taskboard!Orders(db)[s] = db[s].order
<1>1. \A s \in Tasks : db[s].order \in Nat
  BY DEF Taskboard!Rows, Taskboard!Row
<1> QED BY <1>1 DEF Taskboard!Orders

LEMMA RowTyped ==
  ASSUME NEW db \in Taskboard!Rows, NEW s \in Tasks
  PROVE  /\ db[s] = [cell |-> db[s].cell, order |-> db[s].order, version |-> db[s].version]
         /\ db[s] \in Taskboard!Row
         /\ db[s].cell \in Cells /\ db[s].order \in Nat /\ db[s].version \in Nat
<1>1. db[s] \in Taskboard!Row
  BY DEF Taskboard!Rows
<1> QED BY <1>1 DEF Taskboard!Row

\* A drag of s to `index` of a cell, with the others of the cell in S, in a tab that shows db.
IsDrag(db, q, A, S, s, cell, index, m, r) ==
  /\ db \in Taskboard!Rows /\ A = Taskboard!ByPosition(Taskboard!Orders(db))
  /\ IsList(q, Taskboard!Orders(db)) /\ Taskboard!AsIn(q) = A
  /\ S = {u \in Tasks : db[u].cell = cell} \ {s}
  /\ index <= Len(Taskboard!Sorted(S, A))
  /\ ~ Splits(Taskboard!Orders(db), Taskboard!Sorted(S, A), index)
  /\ m = Taskboard!Move(Taskboard!Orders(db), Taskboard!Sorted(S, A), s, index)
  /\ r \in TabRecords /\ r.task = s /\ r.cell = cell
  /\ r.order = m.order[s] /\ r.setOrders = m.setOrders
  /\ r.newCell = (cell # db[s].cell) /\ r.newOrder = (m.order[s] # db[s].order)
  /\ r.newCell \/ r.newOrder
  /\ r.step = "sent"

\* Where the tab puts the cards is where the server will put them.
IsRight(db, r, s, cell, l) ==
  /\ \A u \in Tasks : Target(db, r)[u].cell = IF u = s THEN cell ELSE db[u].cell
  /\ \A u, v \in Tasks : Target(db, r)[u].cell = Target(db, r)[v].cell =>
       (<<u, v>> \in Taskboard!AsIn(l) <=> <<u, v>> \in Taskboard!ByPosition(Final(db, r)))

LEMMA DragRight ==
  ASSUME NEW A, NEW q, NEW S, NEW s \in Tasks, NEW cell \in Cells, NEW index \in Nat, NEW m, NEW r,
         IsDrag(rows, q, A, S, s, cell, index, m, r)
  PROVE  IsRight(rows, r, s, cell, Taskboard!Stable(q, m.order))
<1>0. /\ rows \in Taskboard!Rows /\ A = Taskboard!ByPosition(Taskboard!Orders(rows))
      /\ IsList(q, Taskboard!Orders(rows)) /\ Taskboard!AsIn(q) = A
      /\ S = {u \in Tasks : rows[u].cell = cell} \ {s}
      /\ index <= Len(Taskboard!Sorted(S, A))
      /\ ~ Splits(Taskboard!Orders(rows), Taskboard!Sorted(S, A), index)
      /\ m = Taskboard!Move(Taskboard!Orders(rows), Taskboard!Sorted(S, A), s, index)
      /\ r \in TabRecords /\ r.task = s /\ r.cell = cell
      /\ r.order = m.order[s] /\ r.setOrders = m.setOrders
      /\ r.newCell = (cell # rows[s].cell) /\ r.newOrder = (m.order[s] # rows[s].order)
      /\ r.newCell \/ r.newOrder
      /\ r.step = "sent"
  BY DEF IsDrag
<1> USE <1>0
<1> DEFINE position == Taskboard!Orders(rows)
           mine == m.order[s]
           saved == Taskboard!Saved(rows, r)
           after == [rows EXCEPT ![s] = saved]
           C == S \cup {s}
           E == DOMAIN m.setOrders
           orders == [u \in C |-> after[u].order]
           v0 == Taskboard!ApplyOrderUpdates(orders, Asked(E, s, mine))
<1>1. position \in [Tasks -> Nat] /\ \A u \in Tasks : position[u] = rows[u].order
  BY OrdersTyped
<1>2. /\ StrictOrder(Tasks, A)
      /\ \A u, v \in Tasks : <<u, v>> \in A <=>
           position[u] < position[v] \/ (position[u] = position[v] /\ u < v)
  BY <1>1, ByPositionIs
<1>3. S \in SUBSET Tasks /\ s \notin S
  OBVIOUS
<1>4. m.order \in [Tasks -> Nat] /\ DOMAIN m.setOrders \subseteq S
  <2> HIDE DEF position
  <2> QED BY <1>1, <1>2, <1>3, MoveTyped DEF position
<1>5. /\ \A u \in Tasks : u # s /\ u \notin S => m.order[u] = position[u]
      /\ \A u \in S : IF position[u] >= mine THEN m.order[u] > mine ELSE m.order[u] = position[u]
      /\ \A u, v \in S : position[u] >= mine /\ position[v] >= mine =>
           (m.order[u] < m.order[v] <=> <<u, v>> \in A)
      /\ \A u, v \in S : position[u] >= mine /\ position[v] >= mine /\ u # v => m.order[u] # m.order[v]
      /\ \A u \in E : m.setOrders[u] = mine - 1
      /\ E # {} => mine > 0 /\ E = {u \in S : position[u] = mine - 1}
  <2>1. \A u, v \in Tasks : position[u] < position[v] => <<u, v>> \in A
    BY <1>2
  <2>2. s \in Tasks \ S /\ ~ Splits(position, Taskboard!Sorted(S, A), index)
        /\ m = Taskboard!Move(position, Taskboard!Sorted(S, A), s, index)
    BY <1>3
  <2> HIDE DEF position
  <2>3. IsMove(m, position, S, s, A)
    BY <1>1, <1>2, <1>3, <2>1, <2>2, MoveIs
  <2> QED BY <2>3 DEF IsMove
<1>6. /\ saved = [cell |-> cell, order |-> mine, version |-> rows[s].version + 1]
      /\ mine \in Nat
  <2>1. saved.cell = cell /\ saved.order = mine
    BY DEF Taskboard!Saved
  <2> QED BY <1>4, <2>1 DEF Taskboard!Saved
<1>7. /\ DOMAIN rows = Tasks /\ after[s] = saved
      /\ \A u \in Tasks \ {s} : after[u] = rows[u]
  BY DEF Taskboard!Rows
<1> HIDE DEF after, saved, position
<1>8. Target(rows, r) = after
  BY DEF Target, after, saved
<1>9. \A u \in Tasks : after[u].cell = cell <=> u \in C
  BY <1>6, <1>7
<1>10. Wanted(rows, r) = v0
  <2>1. Wanted(rows, r) = Taskboard!Reordered(rows, r)
    BY DEF Wanted
  <2>2. {u \in Tasks : after[u].cell = cell} = C
    BY <1>3, <1>9
  <2>3. DOMAIN r.setOrders \cap C = E
    BY <1>4
  <2>4. [u \in E \cup {s} |-> IF u = s THEN mine ELSE r.setOrders[u]] = Asked(E, s, mine)
    BY <1>5 DEF Asked
  <2>5. ~ (saved.cell = rows[s].cell /\ saved.order = rows[s].order)
    BY <1>6
  <2>6. saved.cell = cell /\ saved.order = mine
    BY <1>6
  <2> HIDE DEF E, C, mine
  <2>7. Taskboard!Reordered(rows, r) =
          LET mine1 == after[s]
              inCell == {u \in Tasks : after[u].cell = mine1.cell}
              asked == [u \in (DOMAIN r.setOrders \cap inCell) \cup {s} |->
                          IF u = s THEN mine1.order ELSE r.setOrders[u]]
          IN IF mine1.cell = rows[s].cell /\ mine1.order = rows[s].order
             THEN [u \in {} |-> 0]
             ELSE Taskboard!ApplyOrderUpdates([u \in inCell |-> after[u].order], asked)
    BY DEF Taskboard!Reordered, after, saved
  <2>8. Taskboard!Reordered(rows, r) =
          Taskboard!ApplyOrderUpdates([u \in C |-> after[u].order],
             [u \in E \cup {s} |-> IF u = s THEN mine ELSE r.setOrders[u]])
    <3>1. after[s].cell = cell /\ after[s].order = mine
      BY <1>7, <2>6
    <3>2. {u \in Tasks : after[u].cell = after[s].cell} = C
      BY <2>2, <3>1
    <3>3. ~ (after[s].cell = rows[s].cell /\ after[s].order = rows[s].order)
      BY <1>7, <2>5
    <3> QED BY <2>3, <2>7, <3>1, <3>2, <3>3
  <2> QED BY <2>1, <2>4, <2>8
<1>11. /\ orders \in [C -> Nat] /\ orders[s] = mine
       /\ \A u \in S : orders[u] = position[u]
  <2>1. \A u \in S : after[u].order = position[u] /\ position[u] \in Nat
    BY <1>1, <1>7
  <2>2. after[s].order = mine
    BY <1>6, <1>7
  <2> QED BY <1>6, <2>1, <2>2
<1>12. E # {} => mine > 0 /\ E = {u \in C : orders[u] = mine - 1}
  <2> HIDE DEF E, mine, orders
  <2> QED BY <1>5, <1>6, <1>11
<1>13. MakesRoom(v0, orders, C, s, mine)
  <2>1. C \in SUBSET Tasks /\ s \in C /\ E \in SUBSET (C \ {s})
    BY <1>3, <1>4
  <2> HIDE DEF C, orders, mine, E
  <2> QED BY <1>6, <1>11, <1>12, <2>1, UpdatesRight
<1> DEFINE F == Final(rows, r)
<1>14. /\ F[s] = mine
       /\ \A u \in S : F[u] = IF position[u] >= mine THEN position[u] + 1 ELSE position[u]
       /\ \A u \in Tasks \ C : F[u] = position[u]
  <2>1. \A u \in Tasks : F[u] = IF u \in DOMAIN v0 THEN v0[u] ELSE after[u].order
    BY <1>8, <1>10 DEF Final
  <2>2. \A u \in C : F[u] = Room(orders, s, mine)[u]
    <3>1. \A u \in C : orders[u] = after[u].order
      OBVIOUS
    <3> HIDE DEF orders, F, v0, mine
    <3>2. \A u \in C : Room(orders, s, mine)[u] = IF u \in DOMAIN v0 THEN v0[u] ELSE orders[u]
      BY <1>13 DEF MakesRoom
    <3>3. C \subseteq Tasks
      BY <1>3
    <3> HIDE DEF C
    <3> QED BY <2>1, <3>1, <3>2, <3>3
  <2>3. \A u \in C : Room(orders, s, mine)[u] = IF u = s THEN mine
                       ELSE IF orders[u] >= mine THEN orders[u] + 1 ELSE orders[u]
    <3>1. DOMAIN orders = C
      OBVIOUS
    <3> HIDE DEF orders
    <3> QED BY <3>1 DEF Room
  <2>4. \A u \in Tasks \ C : F[u] = position[u]
    <3>1. DOMAIN v0 \subseteq C
      BY <1>13 DEF MakesRoom
    <3>2. \A u \in Tasks \ C : u \in Tasks \ {s}
      OBVIOUS
    <3> HIDE DEF F, v0, C, orders
    <3> QED BY <1>1, <1>7, <2>1, <3>1, <3>2
  <2> HIDE DEF F, orders, mine
  <2>5. F[s] = mine
    BY <2>2, <2>3
  <2>6. \A u \in S : F[u] = IF position[u] >= mine THEN position[u] + 1 ELSE position[u]
    BY <1>3, <1>11, <2>2, <2>3
  <2> QED BY <2>4, <2>5, <2>6
<1>15. F \in [Tasks -> Nat]
  <2>1. F = [u \in Tasks |-> F[u]]
    BY DEF Final
  <2>2. ASSUME NEW u \in Tasks PROVE F[u] \in Nat
    <3>1. position[u] \in Nat
      BY <1>1
    <3>2. u = s \/ u \in S \/ u \in Tasks \ C
      OBVIOUS
    <3> HIDE DEF F
    <3> QED BY <1>6, <1>14, <3>1, <3>2
  <2> HIDE DEF F
  <2> QED BY <2>1, <2>2
<1> HIDE DEF F, mine, v0, orders
<1>16. \A u, v \in Tasks : <<u, v>> \in Taskboard!ByPosition(F) <=> F[u] < F[v] \/ (F[u] = F[v] /\ u < v)
  BY <1>15, ByPositionIs
<1> DEFINE B == Taskboard!AsIn(Taskboard!Stable(q, m.order))
<1>17. \A u, v \in Tasks : <<u, v>> \in B <=>
         m.order[u] < m.order[v] \/ (m.order[u] = m.order[v] /\ <<u, v>> \in A)
  <2>1. StrictOrder(Tasks, Taskboard!AsIn(q)) /\ A = Taskboard!AsIn(q)
    BY <1>2
  <2>2. m.order \in [Tasks -> Nat]
    BY <1>4
  <2> HIDE DEF mine
  <2>3. \A u, v \in Tasks : <<u, v>> \in B <=>
          m.order[u] < m.order[v] \/ (m.order[u] = m.order[v] /\ <<u, v>> \in Taskboard!AsIn(q))
    BY <2>1, <2>2, StableIs
  <2> QED BY <2>1, <2>3
<1> HIDE DEF B
<1>18. \A u \in Tasks : /\ position[u] \in Nat /\ m.order[u] \in Nat /\ F[u] \in Nat /\ u \in Nat
                        /\ mine = m.order[s]
  BY <1>1, <1>4, <1>15, TaskboardAssumption DEF mine
<1>19. ASSUME NEW u \in Tasks, NEW v \in Tasks, after[u].cell = after[v].cell
       PROVE  <<u, v>> \in B <=> <<u, v>> \in Taskboard!ByPosition(F)
  <2>1. /\ <<u, v>> \in B <=> m.order[u] < m.order[v] \/ (m.order[u] = m.order[v] /\ <<u, v>> \in A)
        /\ <<u, v>> \in Taskboard!ByPosition(F) <=> F[u] < F[v] \/ (F[u] = F[v] /\ u < v)
        /\ <<u, v>> \in A <=> position[u] < position[v] \/ (position[u] = position[v] /\ u < v)
    BY <1>2, <1>16, <1>17
  <2>2. /\ position[u] \in Nat /\ m.order[u] \in Nat /\ F[u] \in Nat /\ u \in Nat
        /\ position[v] \in Nat /\ m.order[v] \in Nat /\ F[v] \in Nat /\ v \in Nat
        /\ mine = m.order[s] /\ mine \in Nat
    BY <1>6, <1>18
  <2>3. u \in C <=> v \in C
    BY <1>9, <1>19
  <2>4. u = v => <<u, v>> \notin A
    BY <1>2 DEF StrictOrder
  <2>5. CASE u \notin C
    <3>1. m.order[u] = position[u] /\ m.order[v] = position[v] /\ F[u] = position[u] /\ F[v] = position[v]
      BY <1>5, <1>14, <2>3, <2>5
    <3> QED BY <2>1, <2>2, <3>1
  <2>6. CASE u = s /\ v = s
    BY <2>1, <2>2, <2>4, <2>6
  <2>7. CASE u = s /\ v \in S
    <3>1. /\ m.order[u] = mine /\ F[u] = mine
          /\ IF position[v] >= mine THEN m.order[v] > mine ELSE m.order[v] = position[v]
          /\ F[v] = IF position[v] >= mine THEN position[v] + 1 ELSE position[v]
      BY <1>5, <1>14, <2>2, <2>7
    <3> QED BY <2>1, <2>2, <3>1
  <2>8. CASE u \in S /\ v = s
    <3>1. /\ m.order[v] = mine /\ F[v] = mine
          /\ IF position[u] >= mine THEN m.order[u] > mine ELSE m.order[u] = position[u]
          /\ F[u] = IF position[u] >= mine THEN position[u] + 1 ELSE position[u]
      BY <1>5, <1>14, <2>2, <2>8
    <3> QED BY <2>1, <2>2, <3>1
  <2>9. CASE u \in S /\ v \in S
    <3>1. /\ IF position[u] >= mine THEN m.order[u] > mine ELSE m.order[u] = position[u]
          /\ F[u] = IF position[u] >= mine THEN position[u] + 1 ELSE position[u]
          /\ IF position[v] >= mine THEN m.order[v] > mine ELSE m.order[v] = position[v]
          /\ F[v] = IF position[v] >= mine THEN position[v] + 1 ELSE position[v]
      BY <1>5, <1>14, <2>9
    <3>2. position[u] >= mine /\ position[v] >= mine =>
            (m.order[u] < m.order[v] <=> <<u, v>> \in A)
      BY <1>5, <2>9
    <3>3. position[u] >= mine /\ position[v] >= mine /\ u # v => m.order[u] # m.order[v]
      BY <1>5, <2>9
    <3>4. CASE position[u] >= mine /\ position[v] >= mine
      <4>1. <<u, v>> \in B <=> <<u, v>> \in A
        BY <2>1, <2>4, <3>2, <3>3, <3>4
      <4>2. F[u] = position[u] + 1 /\ F[v] = position[v] + 1
        BY <3>1, <3>4
      <4> QED BY <2>1, <2>2, <4>1, <4>2
    <3>5. CASE ~ (position[u] >= mine) /\ position[v] >= mine
      BY <2>1, <2>2, <3>1, <3>5
    <3>6. CASE position[u] >= mine /\ ~ (position[v] >= mine)
      BY <2>1, <2>2, <3>1, <3>6
    <3>7. CASE ~ (position[u] >= mine) /\ ~ (position[v] >= mine)
      BY <2>1, <2>2, <3>1, <3>7
    <3> QED BY <3>4, <3>5, <3>6, <3>7
  <2> QED BY <1>3, <2>3, <2>5, <2>6, <2>7, <2>8, <2>9
<1>20. \A u \in Tasks : after[u].cell = IF u = s THEN cell ELSE rows[u].cell
  BY <1>6, <1>7
<1> QED BY <1>8, <1>19, <1>20 DEF B, F, IsRight

(* Types.                                                                  *)

LEMMA UpdatesTyped ==
  ASSUME NEW S \in SUBSET Tasks, NEW orders \in [S -> Nat], NEW D \in SUBSET Tasks, NEW new \in [D -> Nat]
  PROVE  Taskboard!ApplyOrderUpdates(orders, new) \in PartOf
<1> DEFINE q == Queue(new)
           v == Taskboard!ApplyOrderUpdates(orders, new)
<1>1. IsFiniteSet(D) /\ DOMAIN new = D
  BY TaskboardAssumption, FS_Subset
<1>2. StrictOrder(D, Taskboard!ByPosition(new))
  BY ByPositionIs
<1>3. Len(q) \in Nat
  <2>1. Len(Taskboard!Sorted(D, Taskboard!ByPosition(new))) = Cardinality(D) /\ Cardinality(D) \in Nat
    BY <1>1, <1>2, PlacesAre
  <2> QED BY <1>1, <2>1 DEF Queue
<1> HIDE DEF q
<1>4. PICK f : Shifts(f, orders, q, new, Len(q)) /\ v = Touched(orders, new, f[Len(q)])
  BY <1>3, UpdatesAre DEF q
<1> HIDE DEF v
<1> DEFINE G == {i \in Nat : i <= Len(q) => f[i] \in [S -> Nat]}
<1>5. 0 \in G
  BY <1>3, <1>4 DEF Shifts
<1>6. ASSUME NEW i \in Nat, i \in G PROVE i + 1 \in G
  <2> SUFFICES ASSUME i + 1 <= Len(q) PROVE f[i + 1] \in [S -> Nat]
    OBVIOUS
  <2>1. f[i] \in [S -> Nat] /\ i + 1 \in 0 .. Len(q) /\ i + 1 # 0 /\ (i + 1) - 1 = i
    BY <1>3, <1>6
  <2> HIDE DEF G
  <2>2. f[i + 1] = Taskboard!Shift(f[i], q[i + 1], new[q[i + 1]])
    BY <1>4, <2>1 DEF Shifts
  <2>3. \A to, s : Taskboard!Shift(f[i], s, to) \in [S -> Nat]
    BY <2>1 DEF Taskboard!Shift
  <2> QED BY <2>2, <2>3
<1> HIDE DEF G
<1>7. \A i \in Nat : i \in G
  BY <1>5, <1>6, NatSteps
<1>8. f[Len(q)] \in [S -> Nat]
  BY <1>3, <1>7 DEF G
<1> DEFINE last == f[Len(q)]
           T == {t \in S : last[t] # orders[t] \/ (t \in D /\ new[t] # last[t])}
<1> HIDE DEF last
<1>9. last \in [S -> Nat] /\ v = [s \in T |-> IF s \in D THEN new[s] ELSE last[s]]
  BY <1>1, <1>4, <1>8 DEF Touched, last
<1>10. T \in SUBSET Tasks /\ v \in [T -> Nat]
  BY <1>9
<1> HIDE DEF T
<1>11. v \in PartOf
  BY <1>10 DEF PartOf
<1> QED BY <1>11 DEF v

LEMMA SavedTyped ==
  ASSUME NEW db \in Taskboard!Rows, NEW r \in TabRecords
  PROVE  Taskboard!Saved(db, r) \in Taskboard!Row
<1>1. r.task \in Tasks /\ r.cell \in Cells /\ r.order \in Nat
  BY DEF TabRecords
<1>2. db[r.task].cell \in Cells /\ db[r.task].order \in Nat /\ db[r.task].version \in Nat
  BY <1>1, RowTyped
<1> QED BY <1>1, <1>2 DEF Taskboard!Saved, Taskboard!Row

LEMMA ReorderedTyped ==
  ASSUME NEW db \in Taskboard!Rows, NEW r \in TabRecords
  PROVE  Taskboard!Reordered(db, r) \in PartOf
<1> DEFINE saved == [db EXCEPT ![r.task] = Taskboard!Saved(db, r)]
           mine == saved[r.task]
           inCell == {s \in Tasks : saved[s].cell = mine.cell}
           D == (DOMAIN r.setOrders \cap inCell) \cup {r.task}
           asked == [s \in D |-> IF s = r.task THEN mine.order ELSE r.setOrders[s]]
           orders == [s \in inCell |-> saved[s].order]
<1>1. r.task \in Tasks /\ r.setOrders \in PartOf
  BY DEF TabRecords
<1>2. \A s \in DOMAIN r.setOrders : r.setOrders[s] \in Nat
  BY <1>1 DEF PartOf
<1>3. saved \in Taskboard!Rows
  BY <1>1, SavedTyped DEF Taskboard!Rows
<1> HIDE DEF saved
<1>4. \A s \in Tasks : saved[s].order \in Nat
  BY <1>3, RowTyped
<1>5. inCell \in SUBSET Tasks /\ orders \in [inCell -> Nat]
  BY <1>4
<1>6. D \in SUBSET Tasks /\ asked \in [D -> Nat]
  BY <1>1, <1>2, <1>4
<1> HIDE DEF inCell, orders, D, asked
<1>7. Taskboard!ApplyOrderUpdates(orders, asked) \in PartOf
  BY <1>5, <1>6, UpdatesTyped
<1>8. [s \in {} |-> 0] \in PartOf
  <2>1. [s \in {} |-> 0] \in [{} -> Nat]
    OBVIOUS
  <2> QED BY <2>1 DEF PartOf
<1>9. Taskboard!Reordered(db, r) = IF mine.cell = db[r.task].cell /\ mine.order = db[r.task].order
                                   THEN [s \in {} |-> 0]
                                   ELSE Taskboard!ApplyOrderUpdates(orders, asked)
  BY DEF Taskboard!Reordered, saved, inCell, orders, D, asked
<1> QED BY <1>7, <1>8, <1>9

LEMMA Removed ==
  ASSUME NEW T, NEW q \in Seq(T), NEW i \in DOMAIN q
  PROVE  /\ Taskboard!RemoveAt(q, i) \in Seq(T)
         /\ \A k \in DOMAIN Taskboard!RemoveAt(q, i) :
              \E m \in DOMAIN q : Taskboard!RemoveAt(q, i)[k] = q[m]
<1> DEFINE n == Len(q)
           a == SubSeq(q, 1, i - 1)
           b == SubSeq(q, i + 1, n)
<1>1. n \in Nat /\ i \in 1 .. n
  OBVIOUS
<1>2. a \in Seq(T) /\ Len(a) = i - 1 /\ \A k \in 1 .. i - 1 : a[k] = q[k]
  BY <1>1
<1>3. b \in Seq(T) /\ Len(b) = n - i /\ \A k \in 1 .. n - i : b[k] = q[i + k]
  BY <1>1
<1>4. Taskboard!RemoveAt(q, i) = a \o b
  BY DEF Taskboard!RemoveAt
<1> HIDE DEF a, b
<1>5. /\ a \o b \in Seq(T) /\ Len(a \o b) = n - 1
      /\ \A k \in 1 .. n - 1 : (a \o b)[k] = IF k <= i - 1 THEN a[k] ELSE b[k - (i - 1)]
  BY <1>1, <1>2, <1>3
<1>6. ASSUME NEW k \in 1 .. n - 1 PROVE \E m \in 1 .. n : (a \o b)[k] = q[m]
  <2>1. CASE k <= i - 1
    <3>1. k \in 1 .. i - 1 /\ k \in 1 .. n
      BY <1>1, <2>1
    <3> QED BY <1>2, <1>5, <2>1, <3>1
  <2>2. CASE ~ (k <= i - 1)
    <3>1. k - (i - 1) \in 1 .. n - i /\ i + (k - (i - 1)) = k + 1 /\ k + 1 \in 1 .. n
      BY <1>1, <2>2
    <3>2. (a \o b)[k] = b[k - (i - 1)] /\ b[k - (i - 1)] = q[i + (k - (i - 1))]
      BY <1>3, <1>5, <2>2, <3>1
    <3> QED BY <3>1, <3>2
  <2> QED BY <2>1, <2>2
<1>7. DOMAIN (a \o b) = 1 .. n - 1 /\ DOMAIN q = 1 .. n
  BY <1>1, <1>5
<1> QED BY <1>4, <1>5, <1>6, <1>7

(* The steps.                                                              *)

LEMMA ModelsTyped ==
  ASSUME NEW db \in Taskboard!Rows
  PROVE  /\ Taskboard!Models(db) \in [Tasks -> CardRecords]
         /\ \A s \in Tasks : Taskboard!Models(db)[s] =
              [attrs |-> db[s], cell |-> db[s].cell, order |-> db[s].order, modified |-> FALSE]
<1>1. \A s \in Tasks : Taskboard!Models(db)[s] =
        [attrs |-> db[s], cell |-> db[s].cell, order |-> db[s].order, modified |-> FALSE]
  BY DEF Taskboard!Models, Taskboard!Model
<1>2. \A s \in Tasks : db[s] \in Taskboard!Row /\ db[s].cell \in Cells /\ db[s].order \in Nat
  BY RowTyped
<1>3. Taskboard!Models(db) \in [Tasks -> CardRecords]
  BY <1>2 DEF Taskboard!Models, Taskboard!Model, CardRecords
<1> QED BY <1>1, <1>3

LEMMA ModelsAre ==
  ASSUME NEW db, NEW s \in Tasks
  PROVE  /\ Taskboard!Models(db)[s].attrs = db[s] /\ Taskboard!Models(db)[s].cell = db[s].cell
         /\ Taskboard!Models(db)[s].modified = FALSE
BY DEF Taskboard!Models, Taskboard!Model

LEMMA ModelTyped ==
  ASSUME NEW x \in Taskboard!Row
  PROVE  Taskboard!Model(x) \in CardRecords /\ Taskboard!Model(x).cell = x.cell
BY DEF Taskboard!Model, CardRecords, Taskboard!Row

LEMMA InitTab == Taskboard!Init => TabInv
<1> SUFFICES ASSUME Taskboard!Init PROVE TabInv
  OBVIOUS
<1>1. PICK start \in Starts :
        rows = [s \in Tasks |-> [cell |-> start[s].cell, order |-> start[s].order, version |-> 0]]
  BY DEF Taskboard!Init
<1>2. start \in [Tasks -> [cell : Cells, order : Nat]]
  BY TaskboardAssumption
<1>3. rows \in Taskboard!Rows
  BY <1>1, <1>2 DEF Taskboard!Rows, Taskboard!Row
<1>4. Taskboard!Orders(rows) \in [Tasks -> Nat] /\ Taskboard!Models(rows) \in [Tasks -> CardRecords]
  BY <1>3, OrdersTyped, ModelsTyped
<1> DEFINE l == Taskboard!Sorted(Tasks, Taskboard!ByPosition(Taskboard!Orders(rows)))
<1>5. IsList(l, Taskboard!Orders(rows)) /\ Taskboard!AsIn(l) = Taskboard!ByPosition(Taskboard!Orders(rows))
  BY <1>4, SortedIs
<1> HIDE DEF l
<1>6. /\ drops = <<>> /\ informed = {} /\ loads = [t \in Tabs |-> <<>>]
      /\ cards = [t \in Tabs |-> Taskboard!Models(rows)]
      /\ order = [t \in Tabs |-> Taskboard!Orders(rows)]
      /\ list = [t \in Tabs |-> l]
      /\ suspect = {} /\ faults = 0
  BY DEF Taskboard!Init, l
<1>7. BoardTypes
  <2>1. drops \in Seq(TabRecords) /\ Len(drops) = 0 /\ 0 + 0 <= MaxEvents
    BY <1>6, TaskboardAssumption
  <2>2. loads \in [Tabs -> Seq(LoadRecords)]
    BY <1>6
  <2>3. DOMAIN list = Tabs /\ \A t \in Tabs : IsList(list[t], order[t])
    BY <1>5, <1>6
  <2>4. cards \in [Tabs -> [Tasks -> CardRecords]] /\ order \in [Tabs -> [Tasks -> Nat]]
    BY <1>4, <1>6
  <2> QED BY <1>3, <1>6, <2>1, <2>2, <2>3, <2>4 DEF BoardTypes
<1>8. LoadsInv
  BY <1>6 DEF LoadsInv
<1>9. ASSUME NEW t \in Tabs PROVE QuietOK(t, drops, rows, cards[t], order[t], list[t])
  <2>1. Fresh(cards[t], order[t], list[t], rows)
    BY <1>5, <1>6 DEF Fresh
  <2>2. DOMAIN drops = {}
    BY <1>6
  <2> QED BY <2>1, <2>2 DEF QuietOK
<1> QED BY <1>7, <1>8, <1>9 DEF TabInv

\* A tab is not disturbed by what others ask for, until it is saved.
LEMMA OtherKeeps ==
  ASSUME NEW t, NEW reqs, NEW new, NEW db, NEW its, NEW positions, NEW l,
         QuietOK(t, reqs, db, its, positions, l),
         \A j \in DOMAIN new : \/ j \in DOMAIN reqs /\ new[j] = reqs[j]
                               \/ new[j].tab # t /\ new[j].step # "published",
         \A j \in DOMAIN reqs : reqs[j].tab = t => j \in DOMAIN new /\ new[j] = reqs[j]
  PROVE  QuietOK(t, new, db, its, positions, l)
<1>1. \A j \in DOMAIN new : new[j].step = "published" => new[j].tab = t
  BY DEF QuietOK
<1>2. \A j \in DOMAIN new : new[j].tab = t /\ ~ new[j].held => Over(new[j])
  BY DEF QuietOK
<1>3. \A j \in DOMAIN new : HeldBy(new, t, j) => j \in DOMAIN reqs /\ new[j] = reqs[j] /\ HeldBy(reqs, t, j)
  BY DEF HeldBy
<1>4. (\E i \in DOMAIN new : HeldBy(new, t, i)) \/ Fresh(its, positions, l, db)
  <2>1. \A i \in DOMAIN reqs : HeldBy(reqs, t, i) => i \in DOMAIN new /\ HeldBy(new, t, i)
    BY DEF HeldBy
  <2> QED BY <2>1 DEF QuietOK
<1>5. ASSUME NEW i \in DOMAIN new, HeldBy(new, t, i)
      PROVE  /\ new[i].step # "refused"
             /\ new[i].step = "published" => new[i].row = db[new[i].task]
             /\ \A j \in DOMAIN new : HeldBy(new, t, j) => i = j
             /\ Agrees(its, l, Target(db, new[i]), Final(db, new[i]))
  <2>1. i \in DOMAIN reqs /\ new[i] = reqs[i] /\ HeldBy(reqs, t, i)
    BY <1>3, <1>5
  <2> QED BY <1>3, <2>1 DEF QuietOK
<1> QED BY <1>1, <1>2, <1>4, <1>5 DEF QuietOK

LEMMA LoadKeeps ==
  ASSUME TabInv, NEW t \in Tabs, Taskboard!Load(t)
  PROVE  TabInv'
<1>1. /\ loads' = [loads EXCEPT ![t] = Append(loads[t], [rows |-> Taskboard!NoRows, clean |-> FALSE])]
      /\ informed' = informed \ {t} /\ t \in informed
      /\ rows' = rows /\ drops' = drops /\ cards' = cards /\ order' = order /\ list' = list
      /\ suspect' = suspect /\ faults' = faults
  BY DEF Taskboard!Load
<1>2. loads \in [Tabs -> Seq(LoadRecords)]
  BY DEF TabInv, BoardTypes
<1> DEFINE new == [rows |-> Taskboard!NoRows, clean |-> FALSE]
<1>3. new \in LoadRecords
  BY DEF LoadRecords
<1>4. loads' \in [Tabs -> Seq(LoadRecords)]
  BY <1>1, <1>2, <1>3
<1>5. BoardTypes'
  BY <1>1, <1>4 DEF TabInv, BoardTypes
<1>6. ASSUME NEW u \in Tabs, NEW i \in DOMAIN loads'[u], loads'[u][i].clean
      PROVE  i \in DOMAIN loads[u] /\ loads[u][i] = loads'[u][i]
  <2>1. CASE u # t
    BY <1>1, <1>2, <1>6, <2>1
  <2>2. CASE u = t
    <3>1. loads'[u] = Append(loads[u], new) /\ loads[u] \in Seq(LoadRecords)
      BY <1>1, <1>2, <2>2
    <3> HIDE DEF new
    <3>2. i \in 1 .. Len(loads[u]) + 1
      BY <1>3, <3>1
    <3>3. i # Len(loads[u]) + 1
      BY <1>3, <1>6, <3>1 DEF new
    <3> QED BY <1>3, <3>1, <3>2, <3>3
  <2> QED BY <2>1, <2>2
<1>7. LoadsInv'
  BY <1>1, <1>6 DEF TabInv, LoadsInv
<1>8. ASSUME NEW u \in Tabs, Quiet(u)' PROVE Quiet(u)
  <2>1. u # t
    <3>1. loads'[t] = Append(loads[t], new) /\ loads[t] \in Seq(LoadRecords)
      BY <1>1, <1>2
    <3>2. loads'[t] # <<>>
      BY <3>1
    <3> QED BY <1>8, <3>2 DEF Quiet, Taskboard!Settled
  <2> QED BY <1>1, <1>2, <1>8, <2>1 DEF Quiet, Taskboard!Settled
<1>9. \A u \in Tabs : Quiet(u)' => QuietOK(u, drops', rows', cards'[u], order'[u], list'[u])
  BY <1>1, <1>8 DEF TabInv
<1> QED BY <1>5, <1>7, <1>9 DEF TabInv

LEMMA QueryKeeps ==
  ASSUME TabInv, NEW t \in Tabs, NEW i \in DOMAIN loads[t], Taskboard!Query(t, i)
  PROVE  TabInv'
<1> DEFINE new == [rows |-> rows, clean |-> Taskboard!Calm]
<1>1. /\ loads' = [loads EXCEPT ![t][i] = new]
      /\ informed' = informed
      /\ rows' = rows /\ drops' = drops /\ cards' = cards /\ order' = order /\ list' = list
      /\ suspect' = suspect /\ faults' = faults
  BY DEF Taskboard!Query
<1>2. loads \in [Tabs -> Seq(LoadRecords)] /\ rows \in Taskboard!Rows
  BY DEF TabInv, BoardTypes
<1>3. new \in LoadRecords /\ new.rows = rows /\ new.clean = Taskboard!Calm
  BY <1>2 DEF LoadRecords, Taskboard!Calm
<1> HIDE DEF new
<1>4. loads' \in [Tabs -> Seq(LoadRecords)]
  BY <1>1, <1>2, <1>3
<1>5. BoardTypes'
  BY <1>1, <1>4 DEF TabInv, BoardTypes
<1>6. LoadsInv'
  <2> SUFFICES ASSUME NEW u \in Tabs, NEW k \in DOMAIN loads'[u], loads'[u][k].clean
      PROVE  /\ loads'[u][k].rows = rows'
             /\ \A j \in DOMAIN drops' : drops'[j].step # "published" /\ (drops'[j].tab = u => Over(drops'[j]))
    BY DEF LoadsInv, Over
  <2>1. CASE u = t /\ k = i
    <3>1. loads'[u][k] = new
      BY <1>1, <1>2, <2>1
    <3>2. Taskboard!Calm
      BY <1>3, <3>1
    <3> QED BY <1>1, <1>3, <3>1, <3>2 DEF Taskboard!Calm, Over
  <2>2. CASE ~ (u = t /\ k = i)
    <3>1. k \in DOMAIN loads[u] /\ loads'[u][k] = loads[u][k]
      BY <1>1, <1>2, <2>2
    <3> QED BY <1>1, <3>1 DEF TabInv, LoadsInv
  <2> QED BY <2>1, <2>2
<1>7. ASSUME NEW u \in Tabs, Quiet(u)' PROVE Quiet(u)
  <2>1. DOMAIN loads'[u] = DOMAIN loads[u]
    BY <1>1, <1>2
  <2>2. loads'[u] = <<>>
    BY <1>7 DEF Quiet, Taskboard!Settled
  <2>3. DOMAIN loads[u] = {} /\ loads[u] \in Seq(LoadRecords)
    BY <1>2, <2>1, <2>2
  <2>4. loads[u] = <<>>
    <3>1. Len(loads[u]) \in Nat /\ DOMAIN loads[u] = 1 .. Len(loads[u])
      BY <2>3
    <3>2. Len(loads[u]) = 0
      <4>1. 1 \notin 1 .. Len(loads[u])
        BY <2>3, <3>1
      <4> QED BY <3>1, <4>1
    <3> QED BY <2>3, <3>2
  <2> QED BY <1>1, <1>7, <2>4 DEF Quiet, Taskboard!Settled
<1>8. \A u \in Tabs : Quiet(u)' => QuietOK(u, drops', rows', cards'[u], order'[u], list'[u])
  BY <1>1, <1>7 DEF TabInv
<1> QED BY <1>5, <1>6, <1>8 DEF TabInv

LEMMA LoadFailsKeeps ==
  ASSUME TabInv, NEW t \in Tabs, NEW i \in DOMAIN loads[t], Taskboard!LoadFails(t, i)
  PROVE  TabInv'
<1>1. /\ loads' = [loads EXCEPT ![t] = Taskboard!RemoveAt(loads[t], i)]
      /\ informed' = informed
      /\ rows' = rows /\ drops' = drops /\ cards' = cards /\ order' = order /\ list' = list
      /\ suspect' = suspect \cup {t} /\ faults' = faults + 1
      /\ Len(drops) + faults < MaxEvents
  BY DEF Taskboard!LoadFails
<1>2. loads \in [Tabs -> Seq(LoadRecords)]
  BY DEF TabInv, BoardTypes
<1>3. /\ Taskboard!RemoveAt(loads[t], i) \in Seq(LoadRecords)
      /\ \A k \in DOMAIN Taskboard!RemoveAt(loads[t], i) :
           \E m \in DOMAIN loads[t] : Taskboard!RemoveAt(loads[t], i)[k] = loads[t][m]
  BY <1>2, Removed
<1>4. loads' \in [Tabs -> Seq(LoadRecords)]
  BY <1>1, <1>2, <1>3
<1>5. BoardTypes'
  <2>1. faults' \in Nat /\ faults' + Len(drops') <= MaxEvents
    <3>1. faults \in Nat /\ Len(drops) \in Nat /\ MaxEvents \in Nat
      BY TaskboardAssumption DEF TabInv, BoardTypes
    <3> QED BY <1>1, <3>1
  <2> QED BY <1>1, <1>4, <2>1 DEF TabInv, BoardTypes
<1>6. LoadsInv'
  <2> SUFFICES ASSUME NEW u \in Tabs, NEW k \in DOMAIN loads'[u], loads'[u][k].clean
      PROVE  /\ loads'[u][k].rows = rows'
             /\ \A j \in DOMAIN drops' : drops'[j].step # "published" /\ (drops'[j].tab = u => Over(drops'[j]))
    BY DEF LoadsInv, Over
  <2>1. \E m \in DOMAIN loads[u] : loads'[u][k] = loads[u][m]
    <3>1. CASE u = t
      BY <1>1, <1>2, <1>3, <3>1
    <3>2. CASE u # t
      BY <1>1, <1>2, <3>2
    <3> QED BY <3>1, <3>2
  <2> QED BY <1>1, <2>1 DEF TabInv, LoadsInv
<1>7. ASSUME NEW u \in Tabs, Quiet(u)' PROVE Quiet(u)
  <2>1. u # t
    BY <1>1, <1>7 DEF Quiet
  <2> QED BY <1>1, <1>2, <1>7, <2>1 DEF Quiet, Taskboard!Settled
<1>8. \A u \in Tabs : Quiet(u)' => QuietOK(u, drops', rows', cards'[u], order'[u], list'[u])
  BY <1>1, <1>7 DEF TabInv
<1> QED BY <1>5, <1>6, <1>8 DEF TabInv

LEMMA HeldTyped ==
  ASSUME NEW r \in TabRecords, NEW b \in BOOLEAN
  PROVE  LET new == [r EXCEPT !.held = b] IN
         /\ new \in TabRecords /\ new.tab = r.tab /\ new.step = r.step /\ new.held = b
         /\ b = r.held => new = r
BY DEF TabRecords

LEMMA CleanTyped ==
  ASSUME NEW r \in LoadRecords, NEW b \in BOOLEAN
  PROVE  [r EXCEPT !.clean = b] \in LoadRecords /\ [r EXCEPT !.clean = b].clean = b
BY DEF LoadRecords

LEMMA AnswerKeeps ==
  ASSUME TabInv, NEW t \in Tabs, NEW i \in DOMAIN loads[t], Taskboard!Answer(t, i)
  PROVE  TabInv'
<1> DEFINE db == loads[t][i].rows
           l == Taskboard!Sorted(Tasks, Taskboard!ByPosition(Taskboard!Orders(db)))
<1>1. /\ cards' = [cards EXCEPT ![t] = Taskboard!Models(db)]
      /\ order' = [order EXCEPT ![t] = Taskboard!Orders(db)]
      /\ list' = [list EXCEPT ![t] = l]
      /\ loads' = [loads EXCEPT ![t] = Taskboard!RemoveAt(loads[t], i)]
      /\ drops' = [j \in DOMAIN drops |-> [drops[j] EXCEPT !.held = drops[j].held /\ drops[j].tab # t]]
      /\ suspect' = IF loads[t][i].clean THEN suspect \ {t} ELSE suspect \cup {t}
      /\ rows' = rows /\ informed' = informed /\ faults' = faults
      /\ db # Taskboard!NoRows
  BY DEF Taskboard!Answer
<1>2. /\ loads \in [Tabs -> Seq(LoadRecords)] /\ rows \in Taskboard!Rows /\ drops \in Seq(TabRecords)
      /\ cards \in [Tabs -> [Tasks -> CardRecords]] /\ order \in [Tabs -> [Tasks -> Nat]]
      /\ DOMAIN list = Tabs /\ \A u \in Tabs : IsList(list[u], order[u])
      /\ suspect \subseteq Tabs /\ informed \subseteq Tabs
      /\ faults \in Nat /\ faults + Len(drops) <= MaxEvents
  BY DEF TabInv, BoardTypes
<1>3. db \in Taskboard!Rows
  <2>1. loads[t][i] \in LoadRecords
    BY <1>2
  <2> QED BY <1>1, <2>1 DEF LoadRecords
<1> HIDE DEF db
<1>4. Taskboard!Orders(db) \in [Tasks -> Nat] /\ Taskboard!Models(db) \in [Tasks -> CardRecords]
  BY <1>3, OrdersTyped, ModelsTyped
<1>5. IsList(l, Taskboard!Orders(db)) /\ Taskboard!AsIn(l) = Taskboard!ByPosition(Taskboard!Orders(db))
  BY <1>4, SortedIs
<1> HIDE DEF l
<1>6. /\ Taskboard!RemoveAt(loads[t], i) \in Seq(LoadRecords)
      /\ \A k \in DOMAIN Taskboard!RemoveAt(loads[t], i) :
           \E m \in DOMAIN loads[t] : Taskboard!RemoveAt(loads[t], i)[k] = loads[t][m]
  BY <1>2, Removed
<1>7. /\ DOMAIN drops' = DOMAIN drops
      /\ \A j \in DOMAIN drops :
           /\ drops'[j].tab = drops[j].tab /\ drops'[j].step = drops[j].step
           /\ drops'[j].held = (drops[j].held /\ drops[j].tab # t)
           /\ drops[j].tab # t => drops'[j] = drops[j]
           /\ drops'[j] \in TabRecords
  <2>1. DOMAIN drops' = DOMAIN drops
    BY <1>1
  <2>2. ASSUME NEW j \in DOMAIN drops
        PROVE  /\ drops'[j].tab = drops[j].tab /\ drops'[j].step = drops[j].step
               /\ drops'[j].held = (drops[j].held /\ drops[j].tab # t)
               /\ drops[j].tab # t => drops'[j] = drops[j]
               /\ drops'[j] \in TabRecords
    <3>1. drops[j] \in TabRecords /\ drops'[j] = [drops[j] EXCEPT !.held = drops[j].held /\ drops[j].tab # t]
      BY <1>1, <1>2
    <3> DEFINE b == (drops[j].held /\ drops[j].tab # t)
               new == [drops[j] EXCEPT !.held = b]
    <3>2. b \in BOOLEAN /\ drops[j].held \in BOOLEAN
      BY <3>1 DEF TabRecords
    <3>3. drops[j].tab # t => b = drops[j].held
      BY <3>2
    <3>4. drops'[j] = new
      BY <3>1
    <3> HIDE DEF b
    <3>5. /\ new \in TabRecords /\ new.tab = drops[j].tab /\ new.step = drops[j].step /\ new.held = b
          /\ b = drops[j].held => new = drops[j]
      BY <3>1, <3>2, HeldTyped
    <3> HIDE DEF new
    <3> QED BY <3>3, <3>4, <3>5 DEF b
  <2> QED BY <2>1, <2>2
<1>8. drops' \in Seq(TabRecords) /\ Len(drops') = Len(drops)
  <2>1. DOMAIN drops' = 1 .. Len(drops) /\ Len(drops) \in Nat
    BY <1>2, <1>7
  <2>2. drops' = [j \in 1 .. Len(drops) |-> drops'[j]]
    BY <1>1, <2>1
  <2>3. drops' \in [1 .. Len(drops) -> TabRecords]
    BY <1>7, <2>1, <2>2
  <2> QED BY <2>1, <2>3
<1>9. BoardTypes'
  <2>1. loads' \in [Tabs -> Seq(LoadRecords)]
    BY <1>1, <1>2, <1>6
  <2>2. cards' \in [Tabs -> [Tasks -> CardRecords]] /\ order' \in [Tabs -> [Tasks -> Nat]]
    BY <1>1, <1>2, <1>4
  <2>3. DOMAIN list' = Tabs /\ \A u \in Tabs : IsList(list'[u], order'[u])
    BY <1>1, <1>2, <1>5
  <2>4. suspect' \subseteq Tabs
    BY <1>1, <1>2
  <2> QED BY <1>1, <1>2, <1>8, <2>1, <2>2, <2>3, <2>4 DEF BoardTypes
<1>10. LoadsInv'
  <2> SUFFICES ASSUME NEW u \in Tabs, NEW k \in DOMAIN loads'[u], loads'[u][k].clean
      PROVE  /\ loads'[u][k].rows = rows'
             /\ \A j \in DOMAIN drops' : drops'[j].step # "published" /\ (drops'[j].tab = u => Over(drops'[j]))
    BY DEF LoadsInv, Over
  <2>1. PICK m \in DOMAIN loads[u] : loads'[u][k] = loads[u][m]
    <3>1. CASE u = t
      BY <1>1, <1>2, <1>6, <3>1
    <3>2. CASE u # t
      BY <1>1, <1>2, <3>2
    <3> QED BY <3>1, <3>2
  <2>2. loads[u][m].rows = rows
        /\ \A j \in DOMAIN drops : drops[j].step # "published" /\ (drops[j].tab = u => Over(drops[j]))
    BY <2>1 DEF TabInv, LoadsInv
  <2>3. loads'[u][k].rows = rows'
    BY <1>1, <2>1, <2>2
  <2>4. ASSUME NEW j \in DOMAIN drops'
        PROVE  drops'[j].step # "published" /\ (drops'[j].tab = u => Over(drops'[j]))
    BY <1>7, <2>2 DEF Over
  <2> QED BY <2>3, <2>4
<1>11. ASSUME NEW u \in Tabs, u # t, Quiet(u)'
       PROVE  QuietOK(u, drops', rows', cards'[u], order'[u], list'[u])
  <2>1. cards'[u] = cards[u] /\ order'[u] = order[u] /\ list'[u] = list[u] /\ loads'[u] = loads[u]
    BY <1>1, <1>2, <1>11
  <2>2. Quiet(u)
    BY <1>1, <1>11, <2>1 DEF Quiet, Taskboard!Settled
  <2>3. QuietOK(u, drops, rows, cards[u], order[u], list[u])
    BY <2>2 DEF TabInv
  <2>4. \A j \in DOMAIN drops' : \/ j \in DOMAIN drops /\ drops'[j] = drops[j]
                                 \/ drops'[j].tab # u /\ drops'[j].step # "published"
    BY <1>7, <1>11, <2>3 DEF QuietOK
  <2>5. \A j \in DOMAIN drops : drops[j].tab = u => j \in DOMAIN drops' /\ drops'[j] = drops[j]
    BY <1>7, <1>11
  <2>6. QuietOK(u, drops', rows, cards[u], order[u], list[u])
    BY <2>3, <2>4, <2>5, OtherKeeps
  <2> QED BY <1>1, <2>1, <2>6
<1>12. ASSUME Quiet(t)'
       PROVE  QuietOK(t, drops', rows', cards'[t], order'[t], list'[t])
  <2>1. loads[t][i].clean
    BY <1>1, <1>12 DEF Quiet
  <2>2. db = rows
        /\ \A j \in DOMAIN drops : drops[j].step # "published" /\ (drops[j].tab = t => Over(drops[j]))
    BY <2>1 DEF TabInv, LoadsInv, db
  <2>3. cards'[t] = Taskboard!Models(db) /\ order'[t] = Taskboard!Orders(db) /\ list'[t] = l
    BY <1>1, <1>2
  <2>4. Fresh(cards'[t], order'[t], list'[t], rows')
    BY <1>1, <1>5, <2>2, <2>3 DEF Fresh
  <2>5. \A j \in DOMAIN drops' : ~ HeldBy(drops', t, j)
    BY <1>7 DEF HeldBy
  <2>6. \A j \in DOMAIN drops' : drops'[j].step # "published" /\ (drops'[j].tab = t => Over(drops'[j]))
    BY <1>7, <2>2 DEF Over
  <2> QED BY <2>4, <2>5, <2>6 DEF QuietOK
<1> QED BY <1>9, <1>10, <1>11, <1>12 DEF TabInv

\* The request of the one drag goes a step further and the tab goes on showing what it leads to.
LEMMA OwnStep ==
  ASSUME NEW t, NEW reqs, NEW i \in DOMAIN reqs, NEW new, DOMAIN new = DOMAIN reqs,
         \A j \in DOMAIN reqs : j # i => new[j] = reqs[j],
         NEW db, NEW its, NEW positions, NEW l, QuietOK(t, reqs, db, its, positions, l),
         reqs[i].tab = t, ~ Over(reqs[i]),
         new[i].tab = t, new[i].held = reqs[i].held, new[i].step # "refused",
         NEW db2, NEW its2, NEW positions2, NEW l2,
         new[i].step = "published" => new[i].row = db2[new[i].task],
         Agrees(its, l, Target(db, reqs[i]), Final(db, reqs[i])) =>
           Agrees(its2, l2, Target(db2, new[i]), Final(db2, new[i]))
  PROVE  QuietOK(t, new, db2, its2, positions2, l2)
<1>1. HeldBy(reqs, t, i)
  BY DEF QuietOK, HeldBy
<1>2. /\ \A j \in DOMAIN reqs : HeldBy(reqs, t, j) => i = j
      /\ Agrees(its, l, Target(db, reqs[i]), Final(db, reqs[i]))
  BY <1>1 DEF QuietOK
<1>3. HeldBy(new, t, i) /\ \A j \in DOMAIN new : HeldBy(new, t, j) => i = j
  BY <1>1, <1>2 DEF HeldBy
<1>4. \A j \in DOMAIN new : new[j].step = "published" => new[j].tab = t
  BY DEF QuietOK
<1>5. \A j \in DOMAIN new : new[j].tab = t /\ ~ new[j].held => Over(new[j])
  BY <1>1 DEF QuietOK, HeldBy
<1> QED BY <1>2, <1>3, <1>4, <1>5 DEF QuietOK

LEMMA SaveKeeps ==
  ASSUME TabInv, NEW i \in DOMAIN drops, Taskboard!Save(i)
  PROVE  TabInv'
<1> DEFINE r == drops[i]
           saved == [r EXCEPT !.step = "saved", !.row = Taskboard!Saved(rows, r),
                              !.values = Taskboard!Reordered(rows, r)]
           refused == [r EXCEPT !.step = "refused"]
<1>1. /\ r.step = "sent"
      /\ \/ drops' = [drops EXCEPT ![i] = saved] /\ suspect' = suspect
         \/ drops' = [drops EXCEPT ![i] = refused] /\ suspect' = suspect \cup {r.tab}
      /\ rows' = rows /\ informed' = informed /\ loads' = loads /\ cards' = cards /\ order' = order
      /\ list' = list /\ faults' = faults
  <2>1. /\ r.step = "sent"
        /\ rows' = rows /\ informed' = informed /\ loads' = loads /\ cards' = cards /\ order' = order
        /\ list' = list /\ faults' = faults
    BY DEF Taskboard!Save
  <2>2. DOMAIN drops = 1 .. Len(drops) /\ drops \in Seq(TabRecords)
    BY DEF TabInv, BoardTypes
  <2>3. \/ /\ drops' = [drops EXCEPT ![i].step = "saved", ![i].row = Taskboard!Saved(rows, r),
                                     ![i].values = Taskboard!Reordered(rows, r)]
           /\ suspect' = suspect
        \/ /\ drops' = [drops EXCEPT ![i].step = "refused"]
           /\ suspect' = suspect \cup {r.tab}
    BY DEF Taskboard!Save, Taskboard!Progress
  <2>4. [drops EXCEPT ![i].step = "saved", ![i].row = Taskboard!Saved(rows, r),
                      ![i].values = Taskboard!Reordered(rows, r)] = [drops EXCEPT ![i] = saved]
    BY <2>2
  <2>5. [drops EXCEPT ![i].step = "refused"] = [drops EXCEPT ![i] = refused]
    OBVIOUS
  <2> QED BY <2>1, <2>3, <2>4, <2>5
<1>2. /\ drops \in Seq(TabRecords) /\ r \in TabRecords /\ rows \in Taskboard!Rows
      /\ suspect \subseteq Tabs
  BY DEF TabInv, BoardTypes
<1>3. /\ saved \in TabRecords /\ refused \in TabRecords /\ r.tab \in Tabs
      /\ saved.tab = r.tab /\ saved.step = "saved" /\ saved.held = r.held /\ saved.task = r.task
      /\ saved.row = Taskboard!Saved(rows, r) /\ saved.values = Taskboard!Reordered(rows, r)
      /\ refused.tab = r.tab /\ refused.step = "refused"
  <2>1. Taskboard!Saved(rows, r) \in Taskboard!Row
    BY <1>2, SavedTyped
  <2>2. Taskboard!Reordered(rows, r) \in PartOf
    BY <1>2, ReorderedTyped
  <2> QED BY <1>2, <2>1, <2>2 DEF TabRecords
<1> HIDE DEF saved, refused
<1>4. /\ DOMAIN drops' = DOMAIN drops /\ Len(drops') = Len(drops) /\ drops' \in Seq(TabRecords)
      /\ \A j \in DOMAIN drops : j # i => drops'[j] = drops[j]
      /\ drops'[i].tab = r.tab /\ drops'[i].step # "published"
  BY <1>1, <1>2, <1>3
<1>5. BoardTypes'
  <2>1. suspect' \subseteq Tabs
    BY <1>1, <1>2, <1>3
  <2> QED BY <1>1, <1>4, <2>1 DEF TabInv, BoardTypes
<1>6. LoadsInv'
  <2> SUFFICES ASSUME NEW u \in Tabs, NEW k \in DOMAIN loads[u], loads[u][k].clean
      PROVE  /\ loads[u][k].rows = rows
             /\ \A j \in DOMAIN drops' : drops'[j].step # "published" /\ (drops'[j].tab = u => Over(drops'[j]))
    BY <1>1 DEF LoadsInv, Over
  <2>1. /\ loads[u][k].rows = rows
        /\ \A j \in DOMAIN drops : drops[j].step # "published" /\ (drops[j].tab = u => Over(drops[j]))
    BY DEF TabInv, LoadsInv
  <2>2. r.tab # u
    BY <1>1, <2>1 DEF Over
  <2> QED BY <1>4, <2>1, <2>2 DEF Over
<1>7. ASSUME NEW u \in Tabs, Quiet(u)'
      PROVE  QuietOK(u, drops', rows', cards'[u], order'[u], list'[u])
  <2>1. Quiet(u)
    BY <1>1, <1>7 DEF Quiet, Taskboard!Settled
  <2>2. QuietOK(u, drops, rows, cards[u], order[u], list[u])
    BY <2>1 DEF TabInv
  <2>3. CASE u # r.tab
    <3>1. \A j \in DOMAIN drops' : \/ j \in DOMAIN drops /\ drops'[j] = drops[j]
                                   \/ drops'[j].tab # u /\ drops'[j].step # "published"
      BY <1>4, <2>3
    <3>2. \A j \in DOMAIN drops : drops[j].tab = u => j \in DOMAIN drops' /\ drops'[j] = drops[j]
      BY <1>4, <2>3
    <3>3. QuietOK(u, drops', rows, cards[u], order[u], list[u])
      BY <2>2, <3>1, <3>2, OtherKeeps
    <3> QED BY <1>1, <3>3
  <2>4. CASE u = r.tab
    <3>1. drops'[i] = saved
      BY <1>1, <1>2, <1>7, <2>4 DEF Quiet
    <3>2. Target(rows, saved) = Target(rows, r) /\ Wanted(rows, saved) = Wanted(rows, r)
      BY <1>1, <1>3 DEF Target, Wanted
    <3>3. Final(rows, saved) = Final(rows, r)
      BY <3>2 DEF Final
    <3>4. ~ Over(drops[i]) /\ drops'[i].held = drops[i].held /\ drops'[i].step = "saved"
      BY <1>1, <1>3, <3>1 DEF Over
    <3>5. Agrees(cards[u], list[u], Target(rows, drops[i]), Final(rows, drops[i])) =>
            Agrees(cards[u], list[u], Target(rows, drops'[i]), Final(rows, drops'[i]))
      BY <3>1, <3>2, <3>3
    <3> HIDE DEF r
    <3>6. QuietOK(u, drops', rows, cards[u], order[u], list[u])
      <4>1. drops[i].tab = u /\ drops'[i].tab = u
        BY <1>4, <2>4 DEF r
      <4> QED BY <1>4, <2>2, <3>4, <3>5, <4>1, OwnStep
    <3> QED BY <1>1, <3>6
  <2> QED BY <2>3, <2>4
<1> QED BY <1>5, <1>6, <1>7 DEF TabInv

LEMMA OutdatedIs ==
  ASSUME loads \in [Tabs -> Seq(LoadRecords)]
  PROVE  /\ Taskboard!Outdated \in [Tabs -> Seq(LoadRecords)]
         /\ \A t \in Tabs : \A i \in DOMAIN Taskboard!Outdated[t] : ~ Taskboard!Outdated[t][i].clean
         /\ \A t \in Tabs : Taskboard!Outdated[t] = <<>> => loads[t] = <<>>
<1> DEFINE o(t) == [i \in DOMAIN loads[t] |-> [loads[t][i] EXCEPT !.clean = FALSE]]
<1>1. Taskboard!Outdated = [t \in Tabs |-> o(t)]
  BY DEF Taskboard!Outdated
<1>2. ASSUME NEW t \in Tabs
      PROVE  o(t) \in Seq(LoadRecords) /\ (\A i \in DOMAIN o(t) : ~ o(t)[i].clean)
             /\ (o(t) = <<>> => loads[t] = <<>>)
  <2>1. loads[t] \in Seq(LoadRecords) /\ Len(loads[t]) \in Nat /\ DOMAIN loads[t] = 1 .. Len(loads[t])
    OBVIOUS
  <2>2. \A i \in DOMAIN loads[t] : /\ [loads[t][i] EXCEPT !.clean = FALSE] \in LoadRecords
                                   /\ ~ [loads[t][i] EXCEPT !.clean = FALSE].clean
    <3>1. \A i \in DOMAIN loads[t] : loads[t][i] \in LoadRecords /\ FALSE \in BOOLEAN
      BY <2>1
    <3> QED BY <3>1, CleanTyped
  <2>3. o(t) \in Seq(LoadRecords) /\ DOMAIN o(t) = DOMAIN loads[t]
    BY <2>1, <2>2
  <2>4. ASSUME o(t) = <<>> PROVE loads[t] = <<>>
    <3>1. DOMAIN o(t) = {}
      BY <2>4
    <3>2. 1 \notin 1 .. Len(loads[t])
      BY <2>1, <2>3, <3>1
    <3>3. Len(loads[t]) = 0
      BY <2>1, <3>2
    <3> QED BY <2>1, <3>3
  <2> QED BY <2>2, <2>3, <2>4
<1> HIDE DEF o
<1> QED BY <1>1, <1>2

LEMMA CommitKeeps ==
  ASSUME TabInv, NEW i \in DOMAIN drops, Taskboard!Commit(i)
  PROVE  TabInv'
<1> DEFINE r == drops[i]
           r2 == [r EXCEPT !.step = "published"]
<1>1. /\ r.step = "saved"
      /\ rows' = [rows EXCEPT ![r.task] = r.row]
      /\ drops' = [drops EXCEPT ![i] = r2]
      /\ loads' = Taskboard!Outdated
      /\ \/ informed' = informed \cup (Tabs \ {r.tab}) /\ suspect' = suspect /\ faults' = faults
         \/ /\ Len(drops) + faults < MaxEvents /\ faults' = faults + 1
            /\ suspect' = suspect \cup (Tabs \ {r.tab}) /\ informed' = informed
      /\ cards' = cards /\ order' = order /\ list' = list
  BY DEF Taskboard!Commit, Taskboard!Progress
<1>2. /\ drops \in Seq(TabRecords) /\ r \in TabRecords /\ rows \in Taskboard!Rows
      /\ suspect \subseteq Tabs /\ informed \subseteq Tabs /\ loads \in [Tabs -> Seq(LoadRecords)]
      /\ faults \in Nat /\ faults + Len(drops) <= MaxEvents /\ Len(drops) \in Nat /\ MaxEvents \in Nat
  BY TaskboardAssumption DEF TabInv, BoardTypes
<1>3. /\ r2 \in TabRecords /\ r2.tab = r.tab /\ r2.step = "published" /\ r2.held = r.held
      /\ r2.task = r.task /\ r2.row = r.row /\ r2.values = r.values
      /\ r.tab \in Tabs /\ r.task \in Tasks /\ r.row \in Taskboard!Row
  BY <1>2 DEF TabRecords
<1> HIDE DEF r2
<1>4. /\ DOMAIN drops' = DOMAIN drops /\ Len(drops') = Len(drops) /\ drops' \in Seq(TabRecords)
      /\ \A j \in DOMAIN drops : j # i => drops'[j] = drops[j]
      /\ drops'[i] = r2
  BY <1>1, <1>2, <1>3
<1>5. rows' \in Taskboard!Rows /\ rows'[r.task] = r.row
  BY <1>1, <1>2, <1>3 DEF Taskboard!Rows
<1>6. /\ loads' \in [Tabs -> Seq(LoadRecords)]
      /\ \A t \in Tabs : \A k \in DOMAIN loads'[t] : ~ loads'[t][k].clean
      /\ \A t \in Tabs : loads'[t] = <<>> => loads[t] = <<>>
  BY <1>1, <1>2, OutdatedIs
<1>7. BoardTypes'
  <2>1. faults' \in Nat /\ faults' + Len(drops') <= MaxEvents
    BY <1>1, <1>2, <1>4
  <2>2. suspect' \subseteq Tabs /\ informed' \subseteq Tabs
    BY <1>1, <1>2
  <2> QED BY <1>1, <1>4, <1>5, <1>6, <2>1, <2>2 DEF TabInv, BoardTypes
<1>8. LoadsInv'
  BY <1>6 DEF LoadsInv
<1>9. ASSUME NEW u \in Tabs, Quiet(u)'
      PROVE  QuietOK(u, drops', rows', cards'[u], order'[u], list'[u])
  <2>1. u = r.tab
    BY <1>1, <1>9 DEF Quiet, Taskboard!Settled
  <2>2. Quiet(u)
    BY <1>1, <1>6, <1>9 DEF Quiet, Taskboard!Settled
  <2>3. QuietOK(u, drops, rows, cards[u], order[u], list[u])
    BY <2>2 DEF TabInv
  <2>4. Target(rows', r2) = rows' /\ Target(rows, r) = rows'
    <3>1. [rows' EXCEPT ![r.task] = rows'[r.task]] = rows'
      BY <1>5 DEF Taskboard!Rows
    <3> QED BY <1>1, <1>3, <3>1 DEF Target
  <2>5. Wanted(rows', r2) = Wanted(rows, r)
    BY <1>1, <1>3 DEF Wanted
  <2>6. Final(rows', r2) = Final(rows, r)
    BY <2>4, <2>5 DEF Final
  <2>7. Agrees(cards[u], list[u], Target(rows, drops[i]), Final(rows, drops[i])) =>
          Agrees(cards[u], list[u], Target(rows', drops'[i]), Final(rows', drops'[i]))
    BY <1>4, <2>4, <2>6
  <2>8. ~ Over(drops[i]) /\ drops'[i].held = drops[i].held /\ drops'[i].step = "published"
        /\ drops'[i].row = rows'[drops'[i].task]
    BY <1>1, <1>3, <1>4, <1>5 DEF Over
  <2>9. drops[i].tab = u /\ drops'[i].tab = u
    BY <1>3, <1>4, <2>1
  <2> HIDE DEF r
  <2>10. QuietOK(u, drops', rows', cards[u], order[u], list[u])
    BY <1>4, <2>3, <2>7, <2>8, <2>9, OwnStep
  <2> QED BY <1>1, <2>10
<1> QED BY <1>7, <1>8, <1>9 DEF TabInv

LEMMA UpdateOrdersKeeps ==
  ASSUME TabInv, NEW i \in DOMAIN drops, Taskboard!UpdateOrders(i)
  PROVE  TabInv'
<1> DEFINE r == drops[i]
           t == r.tab
           r2 == [r EXCEPT !.step = "done"]
           assigned == Taskboard!Assigned(order[t], r.values)
           l == Taskboard!Stable(list[t], assigned)
           written == [s \in Tasks |-> IF s \in DOMAIN r.values THEN [rows[s] EXCEPT !.order = r.values[s]]
                                       ELSE rows[s]]
           its == IF r.held THEN [cards[t] EXCEPT ![r.task] = Taskboard!Model(r.row)] ELSE cards[t]
<1>1. /\ r.step = "published"
      /\ \/ /\ rows' = written /\ faults' = faults
            /\ suspect' = IF \E s \in DOMAIN r.values : r.values[s] \in Tasks THEN suspect \cup {t} ELSE suspect
         \/ /\ Len(drops) + faults < MaxEvents /\ faults' = faults + 1
            /\ suspect' = suspect \cup {t} /\ rows' = rows
      /\ drops' = [drops EXCEPT ![i] = r2]
      /\ loads' = Taskboard!Outdated
      /\ cards' = IF r.held THEN [cards EXCEPT ![t][r.task] = Taskboard!Model(r.row)] ELSE cards
      /\ order' = [order EXCEPT ![t] = assigned]
      /\ informed' = informed
  BY DEF Taskboard!UpdateOrders, Taskboard!Progress
<1>2. /\ drops \in Seq(TabRecords) /\ r \in TabRecords /\ rows \in Taskboard!Rows
      /\ suspect \subseteq Tabs /\ informed \subseteq Tabs /\ loads \in [Tabs -> Seq(LoadRecords)]
      /\ cards \in [Tabs -> [Tasks -> CardRecords]] /\ order \in [Tabs -> [Tasks -> Nat]]
      /\ DOMAIN list = Tabs /\ \A u \in Tabs : IsList(list[u], order[u])
      /\ faults \in Nat /\ faults + Len(drops) <= MaxEvents /\ Len(drops) \in Nat /\ MaxEvents \in Nat
  BY TaskboardAssumption DEF TabInv, BoardTypes
<1>3. /\ r2 \in TabRecords /\ r2.tab = t /\ r2.step = "done" /\ r2.held = r.held
      /\ r2.task = r.task /\ t \in Tabs /\ r.task \in Tasks /\ r.row \in Taskboard!Row
      /\ DOMAIN r.values \subseteq Tasks /\ \A s \in DOMAIN r.values : r.values[s] \in Nat
  <2>1. r.values \in PartOf /\ r.tab \in Tabs /\ r.task \in Tasks /\ r.row \in Taskboard!Row
    BY <1>2 DEF TabRecords
  <2>2. DOMAIN r.values \subseteq Tasks /\ \A s \in DOMAIN r.values : r.values[s] \in Nat
    BY <2>1 DEF PartOf
  <2>3. r2 \in TabRecords /\ r2.tab = t /\ r2.step = "done" /\ r2.held = r.held /\ r2.task = r.task
    BY <1>2 DEF TabRecords
  <2> QED BY <2>1, <2>2, <2>3
<1>4. assigned \in [Tasks -> Nat]
  <2>1. ASSUME NEW s \in Tasks
        PROVE  (IF \E u \in DOMAIN r.values : r.values[u] = s
                THEN CHOOSE u \in DOMAIN r.values : r.values[u] = s
                ELSE order[t][s]) \in Nat
    <3>1. order[t][s] \in Nat
      BY <1>2, <1>3
    <3>2. CASE \E u \in DOMAIN r.values : r.values[u] = s
      <4>1. (CHOOSE u \in DOMAIN r.values : r.values[u] = s) \in Tasks
        BY <1>3, <3>2
      <4> QED BY <3>2, <4>1, TaskboardAssumption
    <3> QED BY <3>1, <3>2
  <2> QED BY <2>1 DEF Taskboard!Assigned
<1>5. IsList(l, assigned)
  <2>1. StrictOrder(Tasks, Taskboard!AsIn(list[t]))
    BY <1>2, <1>3 DEF IsList
  <2> HIDE DEF assigned
  <2> QED BY <1>4, <2>1, StableIs
<1>6. list' = [list EXCEPT ![t] = l]
  <2>1. list' = [list EXCEPT ![t] = Taskboard!Stable(list[t], order'[t])]
    BY DEF Taskboard!UpdateOrders
  <2>2. order'[t] = assigned
    BY <1>1, <1>2, <1>3
  <2> QED BY <2>1, <2>2
<1> HIDE DEF r2, assigned, l
<1>7. /\ DOMAIN drops' = DOMAIN drops /\ Len(drops') = Len(drops) /\ drops' \in Seq(TabRecords)
      /\ \A j \in DOMAIN drops : j # i => drops'[j] = drops[j]
      /\ drops'[i] = r2
  BY <1>1, <1>2, <1>3
<1>8. /\ loads' \in [Tabs -> Seq(LoadRecords)]
      /\ \A u \in Tabs : \A k \in DOMAIN loads'[u] : ~ loads'[u][k].clean
      /\ \A u \in Tabs : loads'[u] = <<>> => loads[u] = <<>>
  BY <1>1, <1>2, OutdatedIs
<1>9. written \in Taskboard!Rows
      /\ \A s \in Tasks : /\ written[s].cell = rows[s].cell
                          /\ written[s].order = IF s \in DOMAIN r.values THEN r.values[s] ELSE rows[s].order
  <2>1. ASSUME NEW s \in Tasks
        PROVE  /\ written[s] \in Taskboard!Row /\ written[s].cell = rows[s].cell
               /\ written[s].order = IF s \in DOMAIN r.values THEN r.values[s] ELSE rows[s].order
    <3>1. rows[s] \in Taskboard!Row
      BY <1>2, RowTyped
    <3>2. CASE s \in DOMAIN r.values
      <4>1. written[s] = [rows[s] EXCEPT !.order = r.values[s]] /\ r.values[s] \in Nat
        BY <1>3, <3>2
      <4> QED BY <3>1, <3>2, <4>1 DEF Taskboard!Row
    <3>3. CASE s \notin DOMAIN r.values
      BY <3>1, <3>3
    <3> QED BY <3>2, <3>3
  <2>2. written = [s \in Tasks |-> written[s]]
    OBVIOUS
  <2> HIDE DEF written
  <2>3. written \in Taskboard!Rows
    BY <2>1, <2>2 DEF Taskboard!Rows
  <2> QED BY <2>1, <2>3
<1> HIDE DEF written
<1>10. rows' \in Taskboard!Rows
  BY <1>1, <1>2, <1>9
<1>11. Taskboard!Model(r.row) \in CardRecords /\ Taskboard!Model(r.row).cell = r.row.cell
  BY <1>3, ModelTyped
<1>12. /\ its \in [Tasks -> CardRecords]
       /\ cards' = [cards EXCEPT ![t] = its]
  <2>1. cards[t] \in [Tasks -> CardRecords]
    BY <1>2, <1>3
  <2>2. its \in [Tasks -> CardRecords]
    BY <1>11, <2>1
  <2>3. CASE r.held
    <3>1. its = [cards[t] EXCEPT ![r.task] = Taskboard!Model(r.row)]
      BY <2>3
    <3>2. cards' = [cards EXCEPT ![t] = [cards[t] EXCEPT ![r.task] = Taskboard!Model(r.row)]]
      BY <1>1, <2>3
    <3> HIDE DEF its
    <3>3. cards' = [cards EXCEPT ![t] = its]
      BY <3>1, <3>2
    <3> QED BY <2>2, <3>3
  <2>4. CASE ~ r.held
    BY <1>1, <1>2, <1>3, <2>4
  <2> QED BY <2>2, <2>3, <2>4
<1>13. r.held => its = [cards[t] EXCEPT ![r.task] = Taskboard!Model(r.row)]
  OBVIOUS
<1> HIDE DEF its
<1>14. BoardTypes'
  <2>1. faults' \in Nat /\ faults' + Len(drops') <= MaxEvents
    BY <1>1, <1>2, <1>7
  <2>2. suspect' \subseteq Tabs /\ informed' \subseteq Tabs
    BY <1>1, <1>2, <1>3
  <2>3. cards' \in [Tabs -> [Tasks -> CardRecords]] /\ order' \in [Tabs -> [Tasks -> Nat]]
    BY <1>1, <1>2, <1>3, <1>4, <1>12
  <2>4. DOMAIN list' = Tabs /\ \A u \in Tabs : IsList(list'[u], order'[u])
    <3>1. ASSUME NEW u \in Tabs PROVE IsList(list'[u], order'[u])
      <4>1. CASE u = t
        BY <1>1, <1>2, <1>3, <1>5, <1>6, <4>1
      <4>2. CASE u # t
        BY <1>1, <1>2, <1>6, <4>2
      <4> QED BY <4>1, <4>2
    <3> QED BY <1>2, <1>6, <3>1
  <2> QED BY <1>7, <1>8, <1>10, <2>1, <2>2, <2>3, <2>4 DEF BoardTypes
<1>15. LoadsInv'
  BY <1>8 DEF LoadsInv
<1>16. ASSUME NEW u \in Tabs, Quiet(u)'
       PROVE  QuietOK(u, drops', rows', cards'[u], order'[u], list'[u])
  <2>1. Quiet(u)
    BY <1>1, <1>8, <1>16 DEF Quiet, Taskboard!Settled
  <2>2. QuietOK(u, drops, rows, cards[u], order[u], list[u])
    BY <2>1 DEF TabInv
  <2>3. u = t
    BY <1>1, <2>2 DEF QuietOK
  <2>4. /\ rows' = written
        /\ \A s \in DOMAIN r.values : r.values[s] \notin Tasks
    BY <1>1, <1>16, <2>3 DEF Quiet
  <2>5. assigned = order[t]
    <3>1. \A s \in Tasks : ~ \E k \in DOMAIN r.values : r.values[k] = s
      BY <2>4
    <3>2. assigned = [s \in Tasks |-> order[t][s]]
      BY <3>1 DEF assigned, Taskboard!Assigned
    <3> QED BY <1>2, <1>3, <3>2
  <2>6. \A s, k \in Tasks : <<s, k>> \in Taskboard!AsIn(l) <=> <<s, k>> \in Taskboard!AsIn(list[t])
    <3>1. l = Taskboard!Stable(list[t], order[t]) /\ order[t] \in [Tasks -> Nat] /\ IsList(list[t], order[t])
      BY <1>2, <1>3, <2>5 DEF l
    <3> QED BY <3>1, StableKeeps
  <2>7. r.held /\ r.row = rows[r.task] /\ ~ Over(r)
    <3>1. ~ Over(r)
      BY <1>1 DEF Over
    <3>2. r.held
      BY <2>2, <2>3, <3>1 DEF QuietOK
    <3>3. HeldBy(drops, u, i)
      BY <2>3, <3>2 DEF HeldBy
    <3> QED BY <1>1, <2>2, <3>1, <3>2, <3>3 DEF QuietOK
  <2>8. Target(rows, r) = rows /\ Target(rows', r2) = rows'
    <3>1. [rows EXCEPT ![r.task] = rows[r.task]] = rows /\ [rows' EXCEPT ![r.task] = rows'[r.task]] = rows'
      BY <1>2, <1>10 DEF Taskboard!Rows
    <3> QED BY <1>1, <1>3, <3>1 DEF Target
  <2>9. Wanted(rows, r) = r.values /\ Wanted(rows', r2) = Taskboard!NoRows
    BY <1>1, <1>3 DEF Wanted
  <2>10. Final(rows', r2) = Final(rows, r)
    <3>1. DOMAIN Taskboard!NoRows = {}
      BY DEF Taskboard!NoRows
    <3>2. \A s \in Tasks : rows'[s].order = IF s \in DOMAIN r.values THEN r.values[s] ELSE rows[s].order
      BY <1>9, <2>4
    <3> QED BY <2>8, <2>9, <3>1, <3>2 DEF Final
  <2>11. \A s \in Tasks : its[s].cell = cards[t][s].cell \/ (s = r.task /\ its[s].cell = rows[s].cell)
    <3>1. cards[t] \in [Tasks -> CardRecords]
      BY <1>2, <1>3
    <3> QED BY <1>11, <1>13, <2>7, <3>1
  <2>12. Agrees(cards[u], list[u], Target(rows, r), Final(rows, r)) =>
           Agrees(its, l, Target(rows', r2), Final(rows', r2))
    <3>1. \A s \in Tasks : rows'[s].cell = rows[s].cell
      BY <1>9, <2>4
    <3> QED BY <2>3, <2>6, <2>8, <2>10, <2>11, <3>1 DEF Agrees
  <2>13. drops[i].tab = u /\ drops'[i].tab = u /\ drops'[i].held = drops[i].held /\ drops'[i].step = "done"
         /\ drops'[i] = r2 /\ drops[i] = r
    BY <1>3, <1>7, <2>3
  <2> HIDE DEF r
  <2>14. Agrees(cards[u], list[u], Target(rows, drops[i]), Final(rows, drops[i])) =>
           Agrees(its, l, Target(rows', drops'[i]), Final(rows', drops'[i]))
    BY <2>12, <2>13
  <2>15. ~ Over(drops[i]) /\ drops'[i].step # "refused" /\ drops'[i].step # "published"
    BY <2>7, <2>13
  <2>16. QuietOK(u, drops', rows', its, order'[u], l)
    BY <1>7, <2>2, <2>13, <2>14, <2>15, OwnStep
  <2>17. cards'[u] = its /\ list'[u] = l
    BY <1>2, <1>3, <1>6, <1>12, <2>3
  <2> QED BY <2>16, <2>17
<1> QED BY <1>14, <1>15, <1>16 DEF TabInv

LEMMA DropKeeps ==
  ASSUME TabInv, NEW t \in Tabs, NEW s \in Tasks, NEW cell \in Cells,
         NEW index \in 0 .. Cardinality(Tasks), Taskboard!Drop(t, s, cell, index)
  PROVE  TabInv'
<1> DEFINE A == Taskboard!AsIn(list[t])
           S == Taskboard!Among(t, cell) \ {s}
           rest == Taskboard!Sorted(S, A)
           m == Taskboard!Move(order[t], rest, s, index)
           card == cards[t][s]
           drag == [tab |-> t, task |-> s, cell |-> cell, order |-> m.order[s],
                    setOrders |-> m.setOrders, version |-> card.attrs.version,
                    newCell |-> cell # card.attrs.cell, newOrder |-> m.order[s] # card.attrs.order,
                    held |-> TRUE, step |-> "sent", row |-> card.attrs, values |-> Taskboard!NoRows]
           modified == card.modified \/ drag.newCell \/ drag.newOrder
           r == IF modified THEN drag ELSE [drag EXCEPT !.step = "done"]
           new == [attrs |-> card.attrs, cell |-> cell, order |-> m.order[s], modified |-> modified]
           l == Taskboard!Stable(list[t], m.order)
<1>1. /\ Len(drops) + faults < MaxEvents /\ index <= Len(rest)
      /\ drops' = Append(drops, r)
      /\ cards' = [cards EXCEPT ![t][s] = new]
      /\ order' = [order EXCEPT ![t] = m.order]
      /\ list' = [list EXCEPT ![t] = l]
      /\ loads' = [loads EXCEPT ![t] = Taskboard!Outdated[t]]
      /\ suspect' = IF Taskboard!Dragged(t) \/ ~ Taskboard!Calm \/ ~ Taskboard!Settled(t) \/ ~ modified
                       \/ Splits(order[t], rest, index)
                    THEN suspect \cup {t} ELSE suspect
      /\ rows' = rows /\ informed' = informed /\ faults' = faults
  BY DEF Taskboard!Drop, Splits
<1>2. /\ drops \in Seq(TabRecords) /\ rows \in Taskboard!Rows
      /\ suspect \subseteq Tabs /\ informed \subseteq Tabs /\ loads \in [Tabs -> Seq(LoadRecords)]
      /\ cards \in [Tabs -> [Tasks -> CardRecords]] /\ order \in [Tabs -> [Tasks -> Nat]]
      /\ DOMAIN list = Tabs /\ \A u \in Tabs : IsList(list[u], order[u])
      /\ faults \in Nat /\ faults + Len(drops) <= MaxEvents /\ Len(drops) \in Nat /\ MaxEvents \in Nat
  BY TaskboardAssumption DEF TabInv, BoardTypes
<1>3. /\ order[t] \in [Tasks -> Nat] /\ IsList(list[t], order[t]) /\ cards[t] \in [Tasks -> CardRecords]
      /\ card \in CardRecords /\ StrictOrder(Tasks, A) /\ index \in Nat /\ S \in SUBSET Tasks
  <2>1. Cardinality(Tasks) \in Nat
    BY TaskboardAssumption, FS_CardinalityType
  <2> QED BY <1>2, <2>1 DEF IsList, Taskboard!Among
<1>4. m.order \in [Tasks -> Nat] /\ m.setOrders \in PartOf
  <2> HIDE DEF A, S
  <2> QED BY <1>1, <1>3, MoveTyped
<1>5. IsList(l, m.order)
  <2> HIDE DEF m
  <2> QED BY <1>3, <1>4, StableIs
<1>6. /\ card.attrs \in Taskboard!Row /\ card.modified \in BOOLEAN
      /\ card.attrs.version \in Nat /\ m.order[s] \in Nat
  BY <1>3, <1>4 DEF CardRecords, Taskboard!Row
<1>7. Taskboard!NoRows \in PartOf
  <2>1. Taskboard!NoRows \in [{} -> Nat]
    BY DEF Taskboard!NoRows
  <2> QED BY <2>1 DEF PartOf
<1>8. drag \in TabRecords /\ [drag EXCEPT !.step = "done"] \in TabRecords
  <2>1. (cell # card.attrs.cell) \in BOOLEAN /\ (m.order[s] # card.attrs.order) \in BOOLEAN
    OBVIOUS
  <2> HIDE DEF m, card
  <2>2. drag \in TabRecords
    BY <1>4, <1>6, <1>7, <2>1 DEF TabRecords
  <2> HIDE DEF drag
  <2> QED BY <2>2 DEF TabRecords
<1>9. /\ drag.tab = t /\ drag.task = s /\ drag.cell = cell /\ drag.order = m.order[s]
      /\ drag.setOrders = m.setOrders /\ drag.held = TRUE /\ drag.step = "sent"
      /\ drag.newCell = (cell # card.attrs.cell) /\ drag.newOrder = (m.order[s] # card.attrs.order)
      /\ [drag EXCEPT !.step = "done"].tab = t /\ [drag EXCEPT !.step = "done"].step = "done"
  OBVIOUS
<1>10. modified \in BOOLEAN
  BY <1>6
<1> HIDE DEF drag, m, A, S, l
<1>11. new \in CardRecords /\ new.cell = cell
  <2> HIDE DEF modified, card
  <2> QED BY <1>6, <1>10 DEF CardRecords
<1> HIDE DEF new
<1>12. r \in TabRecords /\ r.tab = t /\ r.step # "published" /\ (modified => r = drag)
  <2>1. CASE modified
    BY <1>8, <1>9, <2>1
  <2>2. CASE ~ modified
    BY <1>8, <1>9, <2>2
  <2> QED BY <2>1, <2>2
<1> HIDE DEF r
<1>13. /\ drops' \in Seq(TabRecords) /\ Len(drops') = Len(drops) + 1
       /\ DOMAIN drops = 1 .. Len(drops) /\ DOMAIN drops' = 1 .. Len(drops) + 1
       /\ \A j \in DOMAIN drops : drops'[j] = drops[j]
       /\ drops'[Len(drops) + 1] = r
  BY <1>1, <1>2, <1>12
<1>14. \A j \in DOMAIN drops' : j \in DOMAIN drops \/ j = Len(drops) + 1
  BY <1>2, <1>13
<1>15. /\ Taskboard!Outdated[t] \in Seq(LoadRecords)
       /\ \A k \in DOMAIN Taskboard!Outdated[t] : ~ Taskboard!Outdated[t][k].clean
       /\ Taskboard!Outdated[t] = <<>> => loads[t] = <<>>
  BY <1>2, OutdatedIs
<1>16. loads'[t] = Taskboard!Outdated[t] /\ loads' \in [Tabs -> Seq(LoadRecords)]
       /\ \A u \in Tabs : u # t => loads'[u] = loads[u]
  <2> DEFINE o == Taskboard!Outdated[t]
  <2>1. o \in Seq(LoadRecords) /\ loads' = [loads EXCEPT ![t] = o]
    BY <1>1, <1>15
  <2> HIDE DEF o
  <2>2. loads'[t] = o /\ loads' \in [Tabs -> Seq(LoadRecords)] /\ \A u \in Tabs : u # t => loads'[u] = loads[u]
    BY <1>2, <2>1
  <2> QED BY <2>2 DEF o
<1>17. BoardTypes'
  <2>1. faults' \in Nat /\ faults' + Len(drops') <= MaxEvents
    BY <1>1, <1>2, <1>13
  <2>2. suspect' \subseteq Tabs /\ informed' \subseteq Tabs
    BY <1>1, <1>2
  <2>3. cards' \in [Tabs -> [Tasks -> CardRecords]] /\ order' \in [Tabs -> [Tasks -> Nat]]
    BY <1>1, <1>2, <1>3, <1>4, <1>11
  <2>4. DOMAIN list' = Tabs /\ \A u \in Tabs : IsList(list'[u], order'[u])
    <3>1. ASSUME NEW u \in Tabs PROVE IsList(list'[u], order'[u])
      <4>1. CASE u = t
        BY <1>1, <1>2, <1>5, <4>1
      <4>2. CASE u # t
        BY <1>1, <1>2, <4>2
      <4> QED BY <4>1, <4>2
    <3> QED BY <1>1, <1>2, <3>1
  <2> QED BY <1>1, <1>2, <1>13, <1>16, <2>1, <2>2, <2>3, <2>4 DEF BoardTypes
<1>18. LoadsInv'
  <2> SUFFICES ASSUME NEW u \in Tabs, NEW k \in DOMAIN loads'[u], loads'[u][k].clean
      PROVE  /\ loads'[u][k].rows = rows'
             /\ \A j \in DOMAIN drops' : drops'[j].step # "published" /\ (drops'[j].tab = u => Over(drops'[j]))
    BY DEF LoadsInv, Over
  <2>1. u # t
    BY <1>15, <1>16
  <2>2. loads'[u] = loads[u]
    BY <1>16, <2>1
  <2>3. loads[u][k].rows = rows
        /\ \A j \in DOMAIN drops : drops[j].step # "published" /\ (drops[j].tab = u => Over(drops[j]))
    BY <2>2 DEF TabInv, LoadsInv
  <2>4. ASSUME NEW j \in DOMAIN drops'
        PROVE  drops'[j].step # "published" /\ (drops'[j].tab = u => Over(drops'[j]))
    BY <1>12, <1>13, <1>14, <2>1, <2>3 DEF Over
  <2> QED BY <1>1, <2>2, <2>3, <2>4
<1>19. ASSUME NEW u \in Tabs, u # t, Quiet(u)'
       PROVE  QuietOK(u, drops', rows', cards'[u], order'[u], list'[u])
  <2>1. /\ cards'[u] = cards[u] /\ order'[u] = order[u] /\ list'[u] = list[u]
        /\ u \notin suspect /\ Taskboard!Settled(u)
    BY <1>1, <1>2, <1>16, <1>19 DEF Quiet, Taskboard!Settled
  <2>2. QuietOK(u, drops, rows, cards[u], order[u], list[u])
    BY <2>1 DEF TabInv, Quiet
  <2>3. \A j \in DOMAIN drops' : \/ j \in DOMAIN drops /\ drops'[j] = drops[j]
                                 \/ drops'[j].tab # u /\ drops'[j].step # "published"
    BY <1>12, <1>13, <1>14, <1>19
  <2>4. \A j \in DOMAIN drops : drops[j].tab = u => j \in DOMAIN drops' /\ drops'[j] = drops[j]
    BY <1>2, <1>13
  <2>5. QuietOK(u, drops', rows, cards[u], order[u], list[u])
    BY <2>2, <2>3, <2>4, OtherKeeps
  <2> QED BY <1>1, <2>1, <2>5
<1>20. ASSUME Quiet(t)'
       PROVE  QuietOK(t, drops', rows', cards'[t], order'[t], list'[t])
  <2>1. /\ ~ Taskboard!Dragged(t) /\ Taskboard!Calm /\ Taskboard!Settled(t) /\ modified
        /\ ~ Splits(order[t], rest, index) /\ t \notin suspect
    BY <1>1, <1>20 DEF Quiet
  <2>2. QuietOK(t, drops, rows, cards[t], order[t], list[t])
    BY <2>1 DEF TabInv, Quiet
  <2>3. \A j \in DOMAIN drops : ~ HeldBy(drops, t, j) /\ Over(drops[j])
    BY <2>1 DEF Taskboard!Dragged, Taskboard!Calm, HeldBy, Over
  <2>4. Fresh(cards[t], order[t], list[t], rows)
    BY <2>2, <2>3 DEF QuietOK
  <2>5. /\ order[t] = Taskboard!Orders(rows) /\ A = Taskboard!ByPosition(Taskboard!Orders(rows))
        /\ cards[t] = Taskboard!Models(rows)
    BY <2>4 DEF Fresh, A
  <2>6. \A u \in Tasks : /\ cards[t][u].attrs = rows[u] /\ cards[t][u].cell = rows[u].cell
                         /\ cards[t][u].modified = FALSE
    <3> DEFINE its == Taskboard!Models(rows)
    <3>1. \A u \in Tasks : its[u].attrs = rows[u] /\ its[u].cell = rows[u].cell /\ its[u].modified = FALSE
      BY ModelsAre
    <3>2. cards[t] = its
      BY <2>5
    <3> HIDE DEF its
    <3> QED BY <3>1, <3>2
  <2>7. card.attrs = rows[s] /\ ~ card.modified
    BY <2>6
  <2>8. S = {u \in Tasks : rows[u].cell = cell} \ {s}
    BY <2>6 DEF S, Taskboard!Among
  <2>9. r = drag /\ (drag.newCell \/ drag.newOrder)
    BY <1>12, <2>1, <2>7
  <2>10. m = Taskboard!Move(Taskboard!Orders(rows), Taskboard!Sorted(S, A), s, index)
    BY <2>5 DEF m
  <2>11. drag.newCell = (cell # rows[s].cell) /\ drag.newOrder = (m.order[s] # rows[s].order)
    BY <1>9, <2>7
  <2>12. IsList(list[t], Taskboard!Orders(rows)) /\ Taskboard!AsIn(list[t]) = A
    BY <1>3, <2>5 DEF A
  <2>13. index <= Len(Taskboard!Sorted(S, A)) /\ ~ Splits(Taskboard!Orders(rows), Taskboard!Sorted(S, A), index)
    BY <1>1, <2>1, <2>5
  <2> HIDE DEF card, modified
  <2>14. IsDrag(rows, list[t], A, S, s, cell, index, m, drag)
    BY <1>2, <1>8, <1>9, <2>5, <2>8, <2>9, <2>10, <2>11, <2>12, <2>13 DEF IsDrag
  <2>25. IsRight(rows, drag, s, cell, l)
    BY <1>3, <2>14, DragRight DEF l
  <2>15. cards'[t] = [cards[t] EXCEPT ![s] = new] /\ order'[t] = m.order /\ list'[t] = l
    BY <1>1, <1>2
  <2>16. \A u \in Tasks : cards'[t][u].cell = IF u = s THEN cell ELSE rows[u].cell
    BY <1>3, <1>11, <2>6, <2>15
  <2>17. Agrees(cards'[t], list'[t], Target(rows, drag), Final(rows, drag))
    BY <2>15, <2>16, <2>25 DEF Agrees, IsRight
  <2> DEFINE n == Len(drops) + 1
  <2>18. n \in DOMAIN drops' /\ drops'[n] = drag
    BY <1>2, <1>13, <2>9
  <2>19. \A j \in DOMAIN drops' : j # n => ~ HeldBy(drops', t, j) /\ Over(drops'[j])
    BY <1>13, <1>14, <2>3 DEF HeldBy
  <2> HIDE DEF n
  <2>20. HeldBy(drops', t, n)
    BY <1>9, <2>18 DEF HeldBy
  <2>21. \A j \in DOMAIN drops' : drops'[j].step # "published"
    BY <1>9, <2>18, <2>19 DEF Over
  <2>22. \A j \in DOMAIN drops' : drops'[j].tab = t /\ ~ drops'[j].held => Over(drops'[j])
    BY <1>9, <2>18, <2>19
  <2>23. \A j \in DOMAIN drops' : HeldBy(drops', t, j) => j = n
    BY <2>19
  <2>24. drag.step # "refused" /\ drag.step # "published"
    BY <1>9
  <2> QED BY <1>1, <2>17, <2>18, <2>20, <2>21, <2>22, <2>23, <2>24 DEF QuietOK
<1> QED BY <1>17, <1>18, <1>19, <1>20 DEF TabInv

LEMMA NextTab ==
  ASSUME TabInv, [Taskboard!Next]_(Taskboard!vars)
  PROVE  TabInv'
<1>1. CASE UNCHANGED Taskboard!vars
  <2>1. /\ rows' = rows /\ drops' = drops /\ informed' = informed /\ loads' = loads /\ cards' = cards
        /\ order' = order /\ list' = list /\ suspect' = suspect /\ faults' = faults
    BY <1>1 DEF Taskboard!vars
  <2>2. BoardTypes'
    BY <2>1 DEF TabInv, BoardTypes
  <2>3. LoadsInv'
    BY <2>1 DEF TabInv, LoadsInv
  <2>4. \A t \in Tabs : Quiet(t)' => QuietOK(t, drops', rows', cards'[t], order'[t], list'[t])
    BY <2>1 DEF TabInv, Quiet, Taskboard!Settled
  <2> QED BY <2>2, <2>3, <2>4 DEF TabInv
<1>2. CASE Taskboard!Next
  <2>1. CASE \E t \in Tabs, s \in Tasks, cell \in Cells, index \in 0 .. Cardinality(Tasks) :
               Taskboard!Drop(t, s, cell, index)
    BY <2>1, DropKeeps
  <2>2. CASE \E i \in DOMAIN drops : Taskboard!Save(i) \/ Taskboard!Commit(i) \/ Taskboard!UpdateOrders(i)
    BY <2>2, SaveKeeps, CommitKeeps, UpdateOrdersKeeps
  <2>3. CASE \E t \in Tabs : Taskboard!Load(t)
    BY <2>3, LoadKeeps
  <2>4. CASE \E t \in Tabs : \E i \in DOMAIN loads[t] :
               Taskboard!Query(t, i) \/ Taskboard!Answer(t, i) \/ Taskboard!LoadFails(t, i)
    BY <2>4, QueryKeeps, AnswerKeeps, LoadFailsKeeps
  <2>5. Cardinality(Tasks) = Taskboard!Cardinality(Tasks)
    BY DEF Cardinality, Taskboard!Cardinality
  <2> QED BY <1>2, <2>1, <2>2, <2>3, <2>4, <2>5 DEF Taskboard!Next
<1> QED BY <1>1, <1>2

LEMMA TabExplained ==
  ASSUME TabInv
  PROVE  Taskboard!TabShowsOrder
<1> SUFFICES ASSUME NEW t \in Tabs, Taskboard!Calm, Taskboard!Settled(t), t \notin suspect, NEW cell \in Cells
             PROVE  Taskboard!Shown(t, cell) = Taskboard!Column(rows, cell)
  BY DEF Taskboard!TabShowsOrder
<1> DEFINE A == Taskboard!AsIn(list[t])
           B == Taskboard!ByPosition(Taskboard!Orders(rows))
           S == Taskboard!Among(t, cell)
<1>1. QuietOK(t, drops, rows, cards[t], order[t], list[t])
  BY DEF TabInv, Quiet
<1>2. /\ rows \in Taskboard!Rows /\ StrictOrder(Tasks, A)
  BY DEF TabInv, BoardTypes, IsList
<1>3. /\ \A s \in Tasks : cards[t][s].cell = rows[s].cell
      /\ \A s, u \in Tasks : rows[s].cell = rows[u].cell => (<<s, u>> \in A <=> <<s, u>> \in B)
  <2>1. CASE Fresh(cards[t], order[t], list[t], rows)
    <3> DEFINE its == Taskboard!Models(rows)
    <3>1. \A s \in Tasks : its[s].cell = rows[s].cell
      BY ModelsAre
    <3>2. cards[t] = its /\ A = B
      BY <2>1 DEF Fresh
    <3> HIDE DEF its
    <3> QED BY <3>1, <3>2
  <2>2. CASE \E i \in DOMAIN drops : HeldBy(drops, t, i)
    <3>1. PICK i \in DOMAIN drops : HeldBy(drops, t, i)
      BY <2>2
    <3> DEFINE r == drops[i]
    <3>2. /\ r.step = "done"
          /\ Agrees(cards[t], list[t], Target(rows, r), Final(rows, r))
      BY <1>1, <3>1 DEF QuietOK, Taskboard!Calm
    <3> HIDE DEF r
    <3>3. Target(rows, r) = rows
      <4>1. [rows EXCEPT ![r.task] = rows[r.task]] = rows
        BY <1>2 DEF Taskboard!Rows
      <4> QED BY <3>2, <4>1 DEF Target
    <3>4. Final(rows, r) = Taskboard!Orders(rows)
      <4>1. DOMAIN Wanted(rows, r) = {}
        BY <3>2 DEF Wanted, Taskboard!NoRows
      <4> QED BY <3>3, <4>1 DEF Final, Taskboard!Orders
    <3> QED BY <3>2, <3>3, <3>4 DEF Agrees
  <2> QED BY <1>1, <2>1, <2>2 DEF QuietOK
<1>4. S = {s \in Tasks : rows[s].cell = cell}
  BY <1>3 DEF Taskboard!Among
<1>5. \A s, u \in S : <<s, u>> \in A <=> <<s, u>> \in B
  BY <1>3, <1>4
<1>6. StrictOrder(S, A) /\ IsFiniteSet(S)
  BY <1>2, <1>4, StrictPart, FS_Subset, TaskboardAssumption
<1>7. Taskboard!Shown(t, cell) = Taskboard!Sorted(S, A)
  BY DEF Taskboard!Shown
<1>8. Taskboard!Column(rows, cell) = Taskboard!Sorted(S, B)
  BY <1>4 DEF Taskboard!Column
<1> HIDE DEF S, A, B
<1> QED BY <1>5, <1>6, <1>7, <1>8, SortedSame

-----------------------------------------------------------------------------
TabHolds == what = "taskboard" => TabInv

LEMMA TabInvariant == Spec => []TabHolds
<1>1. Init => TabHolds
  BY InitTab DEF Init, TabHolds
<1>2. TabHolds /\ [Next]_serverVars => TabHolds'
  <2> SUFFICES ASSUME TabHolds, [Next]_serverVars, what' = "taskboard" PROVE TabInv'
    BY DEF TabHolds
  <2>1. what = "taskboard" /\ [Taskboard!Next]_(Taskboard!vars)
    BY DEF Next, serverVars, taskboardVars, Taskboard!vars
  <2> QED BY <2>1, NextTab DEF TabHolds
<1> QED BY <1>1, <1>2, PTL DEF Spec, serverVars

\* Where a tab puts the cards of a drag is where apply_order_updates will put the tasks, for any
\* number of tasks, cells, tabs and drags and any positions, with ties and gaps: a tab shows what is
\* in the database when everything sent has been handled, but for what the property names.
THEOREM TabsShowRows == Spec => []TabShowsOrder
<1>1. TabHolds => TabShowsOrder
  BY TabExplained DEF TabHolds, TabShowsOrder
<1> QED BY <1>1, TabInvariant, PTL

-----------------------------------------------------------------------------
(***************************************************************************)
(* The types of the five modules: of the handlers and the taskboard...     *)
(***************************************************************************)
LEMMA HandledTyped ==
  ASSUME NEW task \in Handlers!TaskRows, NEW closed \in BOOLEAN, NEW handled \in SUBSET Handlers!Handlers
  PROVE  LET new == ~ task.exists
             x == [closed |-> closed, exists |-> TRUE,
                   finished |-> IF "finish task" \in handled THEN closed ELSE task.finished,
                   values |-> IF new THEN "values of task" \in handled ELSE task.values,
                   told |-> "close story of task" \in handled
                            \/ (task.told /\ ~ new /\ closed = task.closed)]
         IN x \in Handlers!TaskRows
<1> DEFINE finished == IF "finish task" \in handled THEN closed ELSE task.finished
           values == IF ~ task.exists THEN "values of task" \in handled ELSE task.values
           knows == "close story of task" \in handled
                   \/ (task.told /\ ~ ~ task.exists /\ closed = task.closed)
<1>1. task.finished \in BOOLEAN /\ task.values \in BOOLEAN
  BY DEF Handlers!TaskRows
<1>2. finished \in BOOLEAN /\ values \in BOOLEAN /\ knows \in BOOLEAN
  <2>1. finished \in BOOLEAN
    BY <1>1
  <2>2. values \in BOOLEAN
    <3>1. CASE task.exists
      BY <1>1, <3>1
    <3>2. CASE ~ task.exists
      <4>1. ("values of task" \in handled) \in BOOLEAN
        OBVIOUS
      <4> QED BY <3>2, <4>1
    <3> QED BY <3>1, <3>2
  <2>3. knows \in BOOLEAN
    OBVIOUS
  <2> QED BY <2>1, <2>2, <2>3
<1> HIDE DEF finished, values, knows
<1>3. [closed |-> closed, exists |-> TRUE, finished |-> finished, values |-> values, told |-> knows]
        \in Handlers!TaskRows
  BY <1>2 DEF Handlers!TaskRows
<1> QED BY <1>3 DEF finished, values, knows

LEMMA RowSaved ==
  ASSUME Handlers!TypeOK, NEW p \in Processes, NEW t \in HandledTasks, NEW closed \in BOOLEAN
  PROVE  Handlers!Saved(p, t, closed) \in Handlers!TaskRows
<1>1. tasks[t] \in Handlers!TaskRows /\ on[p] \in SUBSET Handlers!Handlers
  BY DEF Handlers!TypeOK
<1> QED BY <1>1, HandledTyped DEF Handlers!Saved

LEMMA InitHandlersTyped == MaxFailures \in Nat /\ Handlers!Init => Handlers!TypeOK
<1> SUFFICES ASSUME MaxFailures \in Nat, Handlers!Init PROVE Handlers!TypeOK
  OBVIOUS
<1>1. Handlers!Gone \in Handlers!TaskRows
  BY DEF Handlers!Gone, Handlers!TaskRows
<1>2. Handlers!Idle \in [kind : Handlers!Kinds \cup {"none"}, step : {"idle", "off", "stories gone"}]
  BY DEF Handlers!Idle
<1>3. 0 \in 0 .. MaxFailures /\ {} \in SUBSET Handlers!Causes
  OBVIOUS
<1> DEFINE Work == [kind : Handlers!Kinds \cup {"none"}, step : {"idle", "off", "stories gone"}]
<1>4. work \in [Processes -> Work]
  <2>1. Handlers!Idle \in Work
    BY <1>2
  <2> HIDE DEF Work
  <2> QED BY <2>1 DEF Handlers!Init
<1> HIDE DEF Work
<1>5. /\ on \in [Processes -> SUBSET Handlers!Handlers] /\ tasks \in [HandledTasks -> Handlers!TaskRows]
      /\ causes \in [Processes -> SUBSET Handlers!Causes] /\ doubtful \subseteq HandledTasks
      /\ failures \in 0 .. MaxFailures
  BY <1>1, <1>3 DEF Handlers!Init
<1> QED BY <1>4, <1>5 DEF Handlers!TypeOK, Work

LEMMA NextHandlersTyped == Handlers!TypeOK /\ [Handlers!Next]_(Handlers!vars) => Handlers!TypeOK'
<1> SUFFICES ASSUME Handlers!TypeOK, [Handlers!Next]_(Handlers!vars) PROVE Handlers!TypeOK'
  OBVIOUS
<1> DEFINE Work == [kind : Handlers!Kinds \cup {"none"}, step : {"idle", "off", "stories gone"}]
<1>0. /\ on \in [Processes -> SUBSET Handlers!Handlers] /\ work \in [Processes -> Work]
      /\ tasks \in [HandledTasks -> Handlers!TaskRows]
      /\ causes \in [Processes -> SUBSET Handlers!Causes]
      /\ doubtful \subseteq HandledTasks /\ failures \in 0 .. MaxFailures
  BY DEF Handlers!TypeOK
<1>1. Handlers!Gone \in Handlers!TaskRows /\ Handlers!Idle \in Work
  BY DEF Handlers!Gone, Handlers!TaskRows, Handlers!Idle
<1>2. ASSUME NEW p \in Processes, NEW h \in SUBSET Handlers!Handlers,
             on' = [on EXCEPT ![p] = @ \ h] \/ on' = [on EXCEPT ![p] = @ \cup h]
      PROVE  on' \in [Processes -> SUBSET Handlers!Handlers]
  BY <1>0, <1>2
<1>3. ASSUME NEW p \in Processes, NEW x \in SUBSET Handlers!Causes, causes' = [causes EXCEPT ![p] = @ \cup x]
      PROVE  causes' \in [Processes -> SUBSET Handlers!Causes]
  BY <1>0, <1>3
<1>4. ASSUME NEW p \in Processes, work' = [work EXCEPT ![p] = Handlers!Idle]
      PROVE  work' \in [Processes -> Work]
  <2> HIDE DEF Work
  <2> QED BY <1>0, <1>1, <1>4
<1>5. ASSUME NEW p \in Processes, NEW kind \in Handlers!Kinds
      PROVE  Handlers!Off(kind) \subseteq Handlers!Handlers /\ Handlers!On(kind) \subseteq Handlers!Handlers
  BY <1>5 DEF Handlers!Kinds, Handlers!Off, Handlers!On, Handlers!Handlers, Handlers!TaskHandlers,
              Handlers!StoryHandlers, Handlers!IssueHandlers
<1>6. ASSUME failures < MaxFailures, failures' = failures + 1
      PROVE  failures' \in 0 .. MaxFailures
  <2>1. failures \in 0 .. MaxFailures
    BY <1>0
  <2> QED BY <1>6, <2>1, HandlersAssumption
<1>7. ASSUME on' \in [Processes -> SUBSET Handlers!Handlers], work' \in [Processes -> Work],
             tasks' \in [HandledTasks -> Handlers!TaskRows],
             causes' \in [Processes -> SUBSET Handlers!Causes],
             doubtful' \subseteq HandledTasks, failures' \in 0 .. MaxFailures
      PROVE  Handlers!TypeOK'
  BY <1>7 DEF Handlers!TypeOK
<1>8. {"import task"} \in SUBSET Handlers!Causes /\ {"import issue"} \in SUBSET Handlers!Causes
      /\ "finish task" \in Handlers!Handlers /\ "finish issue" \in Handlers!Handlers
      /\ {"delete story", "duplicate"} \in SUBSET Handlers!Causes
      /\ Handlers!TaskHandlers \subseteq Handlers!Handlers
  BY DEF Handlers!Causes, Handlers!Handlers, Handlers!TaskHandlers, Handlers!IssueHandlers
<1> HIDE DEF Work
<1>11. ASSUME NEW p \in Processes, NEW t \in HandledTasks, NEW closed \in BOOLEAN,
              Handlers!SaveTask(p, t, closed)
       PROVE  Handlers!TypeOK'
  <2>1. tasks' \in [HandledTasks -> Handlers!TaskRows]
    BY <1>0, <1>11, RowSaved DEF Handlers!SaveTask
  <2>2. doubtful' \subseteq HandledTasks /\ UNCHANGED <<on, work, causes, failures>>
    BY <1>0, <1>11 DEF Handlers!SaveTask, Handlers!Doubt
  <2> QED BY <1>0, <1>7, <2>1, <2>2
<1>12. ASSUME NEW p \in Processes, NEW t \in HandledTasks, NEW closed \in BOOLEAN,
              Handlers!ImportTask(p, t, closed)
       PROVE  Handlers!TypeOK'
  <2>1. ASSUME NEW finished \in BOOLEAN
        PROVE  [Handlers!Saved(p, t, closed) EXCEPT !.finished = finished] \in Handlers!TaskRows
    BY RowSaved DEF Handlers!TaskRows
  <2>2. tasks' \in [HandledTasks -> Handlers!TaskRows] /\ doubtful' \subseteq HandledTasks
    <3>1. CASE UNCHANGED <<tasks, doubtful>>
      BY <1>0, <3>1
    <3>2. ASSUME NEW finished \in BOOLEAN,
                 tasks' = [tasks EXCEPT ![t] = [Handlers!Saved(p, t, closed) EXCEPT !.finished = finished]],
                 doubtful' = doubtful \cup {t}
          PROVE  tasks' \in [HandledTasks -> Handlers!TaskRows] /\ doubtful' \subseteq HandledTasks
      <4> DEFINE x == [Handlers!Saved(p, t, closed) EXCEPT !.finished = finished]
      <4>1. x \in Handlers!TaskRows
        BY <2>1
      <4>2. tasks' = [tasks EXCEPT ![t] = x]
        BY <3>2
      <4> HIDE DEF x
      <4> QED BY <1>0, <3>2, <4>1, <4>2
    <3> QED BY <1>12, <3>1, <3>2 DEF Handlers!ImportTask
  <2>3. /\ on' = [on EXCEPT ![p] = @ \ {"finish task"}]
        /\ causes' = [causes EXCEPT ![p] = @ \cup {"import task"}] /\ UNCHANGED <<work, failures>>
    BY <1>12 DEF Handlers!ImportTask
  <2>4. {"finish task"} \in SUBSET Handlers!Handlers /\ {"import task"} \in SUBSET Handlers!Causes
    BY <1>8
  <2>5. on' \in [Processes -> SUBSET Handlers!Handlers]
    BY <1>2, <2>3, <2>4
  <2>6. causes' \in [Processes -> SUBSET Handlers!Causes]
    BY <1>3, <2>3, <2>4
  <2> QED BY <1>0, <1>7, <2>2, <2>3, <2>5, <2>6
<1>13. ASSUME NEW p \in Processes, Handlers!ImportIssue(p)
       PROVE  Handlers!TypeOK'
  <2>1. /\ on' = [on EXCEPT ![p] = @ \ {"finish issue"}]
        /\ causes' = [causes EXCEPT ![p] = @ \cup {"import issue"}]
        /\ UNCHANGED <<work, tasks, doubtful, failures>>
    BY <1>13 DEF Handlers!ImportIssue
  <2>2. {"finish issue"} \in SUBSET Handlers!Handlers /\ {"import issue"} \in SUBSET Handlers!Causes
    BY <1>8
  <2>3. on' \in [Processes -> SUBSET Handlers!Handlers]
    BY <1>2, <2>1, <2>2
  <2>4. causes' \in [Processes -> SUBSET Handlers!Causes]
    BY <1>3, <2>1, <2>2
  <2> QED BY <1>0, <1>7, <2>1, <2>3, <2>4
<1>14. ASSUME NEW p \in Processes, NEW kind \in Handlers!Kinds, Handlers!Disconnect(p, kind)
       PROVE  Handlers!TypeOK'
  <2>1. /\ on' = [on EXCEPT ![p] = @ \ Handlers!Off(kind)]
        /\ work' = [work EXCEPT ![p] = [kind |-> kind, step |-> "off"]]
        /\ UNCHANGED <<tasks, causes, doubtful, failures>>
    BY <1>14 DEF Handlers!Disconnect
  <2>2. [kind |-> kind, step |-> "off"] \in Work
    BY DEF Work
  <2>3. work' \in [Processes -> Work]
    BY <1>0, <2>1, <2>2
  <2>4. on' \in [Processes -> SUBSET Handlers!Handlers]
    BY <1>2, <1>5, <2>1
  <2> QED BY <1>0, <1>7, <2>1, <2>3, <2>4
<1>15. ASSUME NEW p \in Processes, Handlers!DeleteStories(p)
       PROVE  Handlers!TypeOK'
  <2>1. /\ on' = [on EXCEPT ![p] = @ \cup Handlers!TaskHandlers]
        /\ work' = [work EXCEPT ![p].step = "stories gone"]
        /\ UNCHANGED <<tasks, causes, doubtful, failures>>
    BY <1>15 DEF Handlers!DeleteStories
  <2>2. work' \in [Processes -> Work]
    BY <1>0, <2>1 DEF Work
  <2>3. on' \in [Processes -> SUBSET Handlers!Handlers]
    BY <1>2, <1>8, <2>1
  <2> QED BY <1>0, <1>7, <2>1, <2>2, <2>3
<1>16. ASSUME NEW p \in Processes, ~ Handlers!Free(p), work[p].kind = "none"
       PROVE  ~ Handlers!Finish(p)
  BY <1>16 DEF Handlers!Finish, Handlers!BulkTasks, Handlers!Doing
<1>17. ASSUME NEW p \in Processes, Handlers!Finish(p)
       PROVE  Handlers!TypeOK'
  <2>1. work[p].kind \in Handlers!Kinds
    BY <1>0, <1>16, <1>17 DEF Handlers!Finish, Work
  <2>2. /\ on' = [on EXCEPT ![p] = @ \cup Handlers!On(work[p].kind)]
        /\ work' = [work EXCEPT ![p] = Handlers!Idle] /\ UNCHANGED <<causes, failures>>
    BY <1>17 DEF Handlers!Finish
  <2>3. tasks' \in [HandledTasks -> Handlers!TaskRows] /\ doubtful' \subseteq HandledTasks
    <3>1. ASSUME NEW new \in SUBSET HandledTasks, NEW closed \in BOOLEAN, Handlers!BulkTasks(p, new, closed)
          PROVE  tasks' \in [HandledTasks -> Handlers!TaskRows] /\ doubtful' \subseteq HandledTasks
      BY <1>0, <3>1, RowSaved DEF Handlers!BulkTasks
    <3>2. ASSUME NEW old \in SUBSET HandledTasks, Handlers!DeleteTasks(old)
          PROVE  tasks' \in [HandledTasks -> Handlers!TaskRows] /\ doubtful' \subseteq HandledTasks
      BY <1>0, <1>1, <3>2 DEF Handlers!DeleteTasks
    <3>3. CASE UNCHANGED <<tasks, doubtful>>
      BY <1>0, <3>3
    <3> QED BY <1>17, <3>1, <3>2, <3>3 DEF Handlers!Finish
  <2>4. on' \in [Processes -> SUBSET Handlers!Handlers]
    BY <1>2, <1>5, <2>1, <2>2
  <2> QED BY <1>0, <1>4, <1>7, <2>2, <2>3, <2>4
<1>18. ASSUME NEW p \in Processes, Handlers!Fail(p)
       PROVE  Handlers!TypeOK'
  <2> DEFINE kind == work[p].kind
             added == {kind} \cap {"delete story", "duplicate"}
  <2>1. /\ failures < MaxFailures /\ failures' = failures + 1
        /\ on' = [on EXCEPT ![p] = IF kind \in Handlers!Guarded THEN @ \cup Handlers!On(kind) ELSE @]
        /\ causes' = [causes EXCEPT ![p] = @ \cup added]
        /\ work' = [work EXCEPT ![p] = Handlers!Idle] /\ UNCHANGED <<tasks, doubtful>>
    BY <1>18 DEF Handlers!Fail
  <2>2. added \in SUBSET Handlers!Causes
    BY <1>8
  <2> HIDE DEF added
  <2>3. causes' \in [Processes -> SUBSET Handlers!Causes]
    BY <1>3, <2>1, <2>2
  <2>4. on' \in [Processes -> SUBSET Handlers!Handlers]
    <3>1. CASE kind \in Handlers!Guarded
      <4>1. Handlers!On(kind) \subseteq Handlers!Handlers
        BY <1>5, <3>1 DEF Handlers!Guarded
      <4> QED BY <1>2, <2>1, <3>1, <4>1
    <3>2. CASE kind \notin Handlers!Guarded
      BY <1>0, <2>1, <3>2
    <3> QED BY <3>1, <3>2
  <2> QED BY <1>0, <1>4, <1>6, <1>7, <2>1, <2>3, <2>4
<1>19. ASSUME NEW p \in Processes, Handlers!Restart(p)
       PROVE  Handlers!TypeOK'
  <2>1. /\ failures < MaxFailures /\ failures' = failures + 1
        /\ on' = [on EXCEPT ![p] = Handlers!Handlers] /\ causes' = [causes EXCEPT ![p] = {}]
        /\ work' = [work EXCEPT ![p] = Handlers!Idle] /\ UNCHANGED <<tasks, doubtful>>
    BY <1>19 DEF Handlers!Restart
  <2>2. on' \in [Processes -> SUBSET Handlers!Handlers] /\ causes' \in [Processes -> SUBSET Handlers!Causes]
    BY <1>0, <2>1
  <2> QED BY <1>0, <1>4, <1>6, <1>7, <2>1, <2>2
<1>20. CASE UNCHANGED Handlers!vars
  BY <1>0, <1>7, <1>20 DEF Handlers!vars
<1> QED BY <1>11, <1>12, <1>13, <1>14, <1>15, <1>17, <1>18, <1>19, <1>20 DEF Handlers!Next

LEMMA TabTyped ==
  ASSUME TabInv
  PROVE  Taskboard!TypeOK
<1>1. BoardTypes
  BY DEF TabInv
<1>2. ASSUME NEW i \in DOMAIN drops
      PROVE  /\ drops[i].tab \in Tabs /\ drops[i].task \in Tasks
             /\ drops[i].step \in {"sent", "saved", "published", "done", "refused"}
             /\ drops[i].row \in Taskboard!Row /\ drops[i].held \in BOOLEAN
             /\ DOMAIN drops[i].values \subseteq Tasks
             /\ \A s \in DOMAIN drops[i].values : drops[i].values[s] \in Nat
  <2>1. drops[i] \in TabRecords
    BY <1>1, <1>2 DEF BoardTypes
  <2>2. drops[i].values \in PartOf
    BY <2>1 DEF TabRecords
  <2>3. PICK S \in SUBSET Tasks : drops[i].values \in [S -> Nat]
    BY <2>2 DEF PartOf
  <2> QED BY <2>1, <2>3 DEF TabRecords
<1>3. \A S : Taskboard!Cardinality(S) = Cardinality(S)
  BY DEF Cardinality, Taskboard!Cardinality
<1>4. ASSUME NEW t \in Tabs
      PROVE  Taskboard!ToSet(list[t]) = Tasks /\ Len(list[t]) = Taskboard!Cardinality(Tasks)
  <2>1. IsList(list[t], order[t])
    BY <1>1 DEF BoardTypes
  <2>2. /\ list[t] \in Seq(Tasks) /\ Len(list[t]) = Cardinality(Tasks)
        /\ \A s \in Tasks : \E i \in 1 .. Len(list[t]) : list[t][i] = s
    BY <2>1 DEF IsList
  <2>3. Taskboard!ToSet(list[t]) = Tasks
    BY <2>2 DEF Taskboard!ToSet
  <2> QED BY <1>3, <2>2, <2>3
<1> QED BY <1>1, <1>2, <1>4 DEF BoardTypes, Taskboard!TypeOK, LoadRecords, CardRecords

(***************************************************************************)
(* ... of the project row ...                                              *)
(***************************************************************************)
RequestTyped(x) ==
  /\ x \in Project!RequestRecords
  /\ x.kind \in SavesRow => x.old \in Project!ProjectRows
  /\ x.kind = "like" => x.user \in Users

RequestsTyped(f) ==
  f = [q \in ProjectRequests |-> f[q]] /\ \A q \in ProjectRequests : RequestTyped(f[q])

ProjectTypes == Project!TypeOK /\ IsFiniteSet(likes) /\ RequestsTyped(writers)

Steps == {"idle", "loaded", "promoted", "liked", "found", "held", "unliked", "counted", "done"}

LEMMA RecordTyped ==
  ASSUME NEW kind \in Project!Kinds \cup {"none"}, NEW user \in Users \cup {None},
         NEW old \in Project!ProjectRows \cup {None}, NEW count \in Nat, NEW wrote \in BOOLEAN,
         NEW alone \in BOOLEAN, NEW step \in Steps
  PROVE  [kind |-> kind, user |-> user, old |-> old, count |-> count, wrote |-> wrote,
          alone |-> alone, step |-> step] \in Project!RequestRecords
BY DEF Project!RequestRecords, Steps

LEMMA RecordChanged ==
  ASSUME NEW x \in Project!RequestRecords, NEW step \in Steps, NEW count \in Nat, NEW wrote \in BOOLEAN
  PROVE  /\ [x EXCEPT !.alone = FALSE] \in Project!RequestRecords
         /\ [x EXCEPT !.step = step] \in Project!RequestRecords
         /\ [x EXCEPT !.step = step, !.wrote = wrote] \in Project!RequestRecords
         /\ [x EXCEPT !.count = count, !.step = step] \in Project!RequestRecords
<1>1. [x EXCEPT !.alone = FALSE] \in Project!RequestRecords
  BY DEF Project!RequestRecords
<1>2. [x EXCEPT !.step = step] \in Project!RequestRecords
  BY DEF Project!RequestRecords, Steps
<1>3. [x EXCEPT !.step = step, !.wrote = wrote] \in Project!RequestRecords
  BY DEF Project!RequestRecords, Steps
<1>4. [x EXCEPT !.count = count, !.step = step] \in Project!RequestRecords
  BY DEF Project!RequestRecords, Steps
<1> QED BY <1>1, <1>2, <1>3, <1>4

LEMMA RequestChanged ==
  ASSUME NEW x, RequestTyped(x), NEW step \in Steps, NEW count \in Nat, NEW wrote \in BOOLEAN
  PROVE  /\ RequestTyped([x EXCEPT !.alone = FALSE])
         /\ RequestTyped([x EXCEPT !.step = step])
         /\ RequestTyped([x EXCEPT !.step = step, !.wrote = wrote])
         /\ RequestTyped([x EXCEPT !.count = count, !.step = step])
<1>1. x \in Project!RequestRecords
  BY DEF RequestTyped
<1>2. DOMAIN x = RequestFields
  BY <1>1 DEF Project!RequestRecords, RequestFields
<1>3. ASSUME NEW y \in Project!RequestRecords, y.kind = x.kind, y.user = x.user, y.old = x.old
      PROVE  RequestTyped(y)
  BY <1>3 DEF RequestTyped
<1>4. RequestTyped([x EXCEPT !.alone = FALSE])
  BY <1>1, <1>2, <1>3, RecordChanged DEF RequestFields
<1>5. RequestTyped([x EXCEPT !.step = step])
  BY <1>1, <1>2, <1>3, RecordChanged DEF RequestFields
<1>6. RequestTyped([x EXCEPT !.step = step, !.wrote = wrote])
  BY <1>1, <1>2, <1>3, RecordChanged DEF RequestFields
<1>7. RequestTyped([x EXCEPT !.count = count, !.step = step])
  BY <1>1, <1>2, <1>3, RecordChanged DEF RequestFields
<1> QED BY <1>4, <1>5, <1>6, <1>7

NoRequest(step) == [kind |-> "none", user |-> None, old |-> None, count |-> 0,
                    wrote |-> FALSE, alone |-> FALSE, step |-> step]

LEMMA NoRequestTyped ==
  ASSUME NEW step \in Steps
  PROVE  RequestTyped(NoRequest(step))
<1>1. NoRequest(step) \in Project!RequestRecords
  BY RecordTyped DEF NoRequest
<1>2. NoRequest(step).kind = "none"
  BY DEF NoRequest
<1> QED BY <1>1, <1>2 DEF RequestTyped, SavesRow

LEMMA StartTyped ==
  ASSUME ProjectTypes, NEW r \in ProjectRequests, NEW kind \in Project!Kinds,
         NEW user \in Users \cup {None}, NEW step \in Steps,
         NEW old \in Project!ProjectRows \cup {None}, Project!Start(r, kind, user, step, old),
         kind \in SavesRow => old \in Project!ProjectRows, kind = "like" => user \in Users
  PROVE  RequestsTyped(writers')
<1> DEFINE wrote == kind = "like" /\ user \notin likes
           alone == Project!Running = {}
           x == [kind |-> kind, user |-> user, old |-> old, count |-> 0,
                 wrote |-> wrote, alone |-> alone, step |-> step]
<1>1. writers' = [q \in ProjectRequests |-> IF q # r THEN [writers[q] EXCEPT !.alone = FALSE] ELSE x]
  BY DEF Project!Start
<1>2. wrote \in BOOLEAN /\ alone \in BOOLEAN
  OBVIOUS
<1> HIDE DEF wrote, alone
<1>3. x \in Project!RequestRecords
  BY <1>2, RecordTyped
<1>4. x.kind = kind /\ x.old = old /\ x.user = user
  OBVIOUS
<1> HIDE DEF x
<1>5. RequestTyped(x)
  BY <1>3, <1>4 DEF RequestTyped
<1>6. 0 \in Nat /\ FALSE \in BOOLEAN
  OBVIOUS
<1>7. \A q \in ProjectRequests : RequestTyped([writers[q] EXCEPT !.alone = FALSE])
  BY <1>6, RequestChanged DEF ProjectTypes, RequestsTyped
<1>8. writers' = [q \in ProjectRequests |-> writers'[q]]
  BY <1>1
<1>9. \A q \in ProjectRequests : writers'[q] = IF q # r THEN [writers[q] EXCEPT !.alone = FALSE] ELSE x
  BY <1>1
<1>10. ASSUME NEW q \in ProjectRequests PROVE RequestTyped(writers'[q])
  BY <1>5, <1>7, <1>9
<1> QED BY <1>8, <1>10 DEF RequestsTyped

LEMMA PairsTyped ==
  ASSUME BaseInv, ProjectTypes, NEW r \in ProjectRequests, NEW kind \in Project!Kinds, NEW user,
         NEW step, NEW old, Project!Start(r, kind, user, step, old)
  PROVE  pairs' \subseteq SUBSET Project!Kinds
<1>1. \A q \in Project!Running : writers[q].kind \in Project!Kinds
  BY DEF BaseInv, RequestOK, Project!Running
<1>2. \A q \in Project!Running : {kind, writers[q].kind} \in SUBSET Project!Kinds
  BY <1>1
<1>3. pairs \subseteq SUBSET Project!Kinds
  BY DEF ProjectTypes, Project!TypeOK
<1> QED BY <1>2, <1>3 DEF Project!Start

\* One record changes.
LEMMA OneTyped ==
  ASSUME ProjectTypes, NEW r \in ProjectRequests, NEW x, writers' = [writers EXCEPT ![r] = x], RequestTyped(x)
  PROVE  RequestsTyped(writers')
<1>1. DOMAIN writers = ProjectRequests
  BY DEF ProjectTypes, Project!TypeOK
<1>2. /\ writers' = [q \in ProjectRequests |-> writers'[q]]
      /\ \A q \in ProjectRequests : writers'[q] = IF q = r THEN x ELSE writers[q]
  BY <1>1
<1>3. ASSUME NEW q \in ProjectRequests PROVE RequestTyped(writers'[q])
  BY <1>2 DEF ProjectTypes, RequestsTyped
<1> QED BY <1>2, <1>3 DEF RequestsTyped

LEMMA EndTyped ==
  ASSUME ProjectTypes, NEW r \in ProjectRequests, Project!Done(r)
  PROVE  RequestsTyped(writers')
<1>1. writers' = [writers EXCEPT ![r] = NoRequest("done")]
  BY DEF Project!Done, NoRequest
<1>2. RequestTyped(NoRequest("done"))
  BY NoRequestTyped DEF Steps
<1> QED BY <1>1, <1>2, OneTyped

LEMMA ProjectTyped ==
  ASSUME RequestsTyped(writers'),
         row' \in Project!ProjectRows, members' \in [Users -> {"admin", "member", "out"}],
         likes' \subseteq Users, IsFiniteSet(likes'), pairs' \subseteq SUBSET Project!Kinds,
         decisions' \in [ProjectRequests \cup {None} -> Nat], settled' \in BOOLEAN
  PROVE  ProjectTypes'
<1>1. writers' \in [ProjectRequests -> Project!RequestRecords]
  BY DEF RequestTyped, RequestsTyped
<1> QED BY <1>1 DEF ProjectTypes, Project!TypeOK

LEMMA InitProjectTyped == None \notin ProjectRequests /\ Project!Init => ProjectTypes
<1> SUFFICES ASSUME Project!Init PROVE ProjectTypes
  OBVIOUS
<1>1. RequestTyped(NoRequest("idle"))
  BY NoRequestTyped DEF Steps
<1>2. writers = [r \in ProjectRequests |-> NoRequest("idle")]
  BY DEF Project!Init, NoRequest
<1>3. RequestsTyped(writers) /\ writers \in [ProjectRequests -> Project!RequestRecords]
  <2>1. NoRequest("idle") \in Project!RequestRecords
    BY <1>1 DEF RequestTyped
  <2> QED BY <1>1, <1>2, <2>1 DEF RequestsTyped
<1>4. row \in Project!ProjectRows /\ members \in [Users -> {"admin", "member", "out"}]
  <2>1. PICK o \in Users, u \in Users \cup {None} :
          /\ row = [owner |-> o, token |-> [by |-> None, to |-> u], fans |-> 0]
          /\ members \in [Users -> {"admin", "member", "out"}]
    BY DEF Project!Init
  <2> QED BY <2>1 DEF Project!ProjectRows, Project!Tokens
<1>5. likes = {} /\ pairs = {} /\ settled = TRUE /\ decisions = [r \in ProjectRequests \cup {None} |-> 0]
  BY DEF Project!Init
<1>6. IsFiniteSet(likes)
  BY <1>5, FS_EmptySet
<1>7. decisions \in [ProjectRequests \cup {None} -> Nat]
  BY <1>5
<1> QED BY <1>3, <1>4, <1>5, <1>6, <1>7 DEF ProjectTypes, Project!TypeOK

LEMMA NextProjectTyped == BaseInv /\ ProjectTypes /\ [Project!Next]_(Project!vars) => ProjectTypes'
<1> SUFFICES ASSUME BaseInv, ProjectTypes, [Project!Next]_(Project!vars) PROVE ProjectTypes'
  OBVIOUS
<1>1. /\ row \in Project!ProjectRows /\ members \in [Users -> {"admin", "member", "out"}]
      /\ likes \subseteq Users /\ IsFiniteSet(likes) /\ pairs \subseteq SUBSET Project!Kinds
      /\ decisions \in [ProjectRequests \cup {None} -> Nat] /\ settled \in BOOLEAN
      /\ \A r \in ProjectRequests : RequestTyped(writers[r])
  BY DEF ProjectTypes, Project!TypeOK, RequestsTyped
<1>2. decisions' \in [ProjectRequests \cup {None} -> Nat]
  BY NextBase DEF BaseInv
<1>3. ASSUME NEW r \in ProjectRequests, NEW kind \in Project!Kinds, NEW user \in Users \cup {None},
             NEW step \in Steps, NEW old \in {row, None}, Project!Start(r, kind, user, step, old),
             UNCHANGED <<row, members, likes>>,
             kind \in SavesRow => old = row, kind = "like" => user \in Users
      PROVE  ProjectTypes'
  <2>1. RequestsTyped(writers')
    BY <1>1, <1>3, StartTyped
  <2>2. pairs' \subseteq SUBSET Project!Kinds
    BY <1>3, PairsTyped
  <2>3. settled' \in BOOLEAN
    BY <1>3 DEF Project!Start
  <2> QED BY <1>1, <1>2, <1>3, <2>1, <2>2, <2>3, ProjectTyped
<1>4. ASSUME NEW r \in ProjectRequests, NEW x, RequestTyped(x), writers' = [writers EXCEPT ![r] = x],
             UNCHANGED <<row, members, likes, pairs, settled>>
      PROVE  ProjectTypes'
  <2>1. RequestsTyped(writers')
    BY <1>4, OneTyped
  <2> QED BY <1>1, <1>2, <1>4, <2>1, ProjectTyped
<1>5. 0 \in Nat /\ FALSE \in BOOLEAN /\ DOMAIN writers = ProjectRequests
  BY DEF ProjectTypes, Project!TypeOK
<1>6. /\ {"loaded", "promoted", "liked", "found", "held", "unliked", "counted", "done"} \subseteq Steps
      /\ {"recount", "like", "unlike", "edit", "start", "accept", "reject", "leave", "demote"} = Project!Kinds
      /\ {"recount", "like", "unlike", "leave", "demote"} \cap SavesRow = {}
  BY DEF Steps, Project!Kinds, SavesRow
<1>11. ASSUME NEW r \in ProjectRequests, Project!LoadToRecount(r) PROVE ProjectTypes'
  <2>1. Project!Start(r, "recount", None, "loaded", None) /\ UNCHANGED <<row, members, likes>>
    BY <1>11 DEF Project!LoadToRecount
  <2> QED BY <1>3, <1>6, <2>1
<1>12. ASSUME NEW r \in ProjectRequests, NEW user \in Users, Project!AddLike(r, user) PROVE ProjectTypes'
  <2>1. Project!Start(r, "like", user, "liked", None) /\ UNCHANGED <<row, members, likes>>
    BY <1>12 DEF Project!AddLike
  <2> QED BY <1>3, <1>6, <2>1
<1>13. ASSUME NEW r \in ProjectRequests, NEW user \in Users, Project!RemoveLike(r, user) PROVE ProjectTypes'
  <2>1. Project!Start(r, "unlike", user, "found", None) /\ UNCHANGED <<row, members, likes>>
    BY <1>13 DEF Project!RemoveLike
  <2> QED BY <1>3, <1>6, <2>1
<1>14. ASSUME NEW r \in ProjectRequests, NEW user \in Users, Project!Edit(r, user) PROVE ProjectTypes'
  <2>1. Project!Start(r, "edit", user, "loaded", row) /\ UNCHANGED <<row, members, likes>>
    BY <1>14 DEF Project!Edit
  <2> QED BY <1>3, <1>6, <2>1
<1>15. ASSUME NEW r \in ProjectRequests, NEW user \in Users, Project!StartTransfer(r, user) PROVE ProjectTypes'
  <2>1. Project!Start(r, "start", user, "loaded", row) /\ UNCHANGED <<row, members, likes>>
    BY <1>15 DEF Project!StartTransfer
  <2> QED BY <1>3, <1>6, <2>1
<1>16. ASSUME NEW r \in ProjectRequests, NEW user \in Users, Project!Reject(r, user) PROVE ProjectTypes'
  <2>1. Project!Start(r, "reject", user, "loaded", row) /\ UNCHANGED <<row, members, likes>>
    BY <1>16 DEF Project!Reject
  <2> QED BY <1>3, <1>6, <2>1
<1>17. ASSUME NEW r \in ProjectRequests, NEW user \in Users, Project!Accept(r, user) PROVE ProjectTypes'
  <2> DEFINE step == IF members[user] = "admin" THEN "promoted" ELSE "loaded"
  <2>1. Project!Start(r, "accept", user, step, row) /\ UNCHANGED <<row, members, likes>>
    BY <1>17 DEF Project!Accept
  <2>2. step \in Steps
    BY <1>6
  <2> HIDE DEF step
  <2> QED BY <1>3, <1>6, <2>1, <2>2
<1>18. ASSUME NEW r \in ProjectRequests, NEW user \in Users, NEW kind \in {"leave", "demote"},
              Project!Leave(r, kind, user)
       PROVE  ProjectTypes'
  <2>1. Project!Start(r, kind, user, "loaded", None) /\ UNCHANGED <<row, members, likes>>
    BY <1>18 DEF Project!Leave
  <2> QED BY <1>3, <1>6, <1>18, <2>1
<1>19. ASSUME NEW r \in ProjectRequests, Project!Done(r), row' \in Project!ProjectRows,
              members' \in [Users -> {"admin", "member", "out"}], likes' \subseteq Users,
              IsFiniteSet(likes'), UNCHANGED pairs, settled' \in BOOLEAN
       PROVE  ProjectTypes'
  <2>1. RequestsTyped(writers')
    BY <1>19, EndTyped
  <2> QED BY <1>1, <1>2, <1>19, <2>1, ProjectTyped
<1>20. ASSUME NEW r \in ProjectRequests, NEW step \in Steps, Project!To(r, step)
       PROVE  \E x : RequestTyped(x) /\ writers' = [writers EXCEPT ![r] = x]
  <2> DEFINE x == [writers[r] EXCEPT !.step = step]
  <2>1. RequestTyped(x)
    BY <1>1, <1>5, RequestChanged
  <2>2. writers' = [writers EXCEPT ![r] = x]
    BY <1>20 DEF Project!To
  <2> HIDE DEF x
  <2> QED BY <2>1, <2>2
<1>21. ASSUME NEW r \in ProjectRequests, Project!First(r) PROVE ProjectTypes'
  <2>1. UNCHANGED <<row, members, likes, pairs, settled>> /\ (Project!To(r, "held") \/ Project!Done(r))
    BY <1>21 DEF Project!First
  <2>2. CASE Project!To(r, "held")
    BY <1>4, <1>6, <1>20, <2>1, <2>2
  <2>3. CASE Project!Done(r)
    BY <1>1, <1>19, <2>1, <2>3
  <2> QED BY <2>1, <2>2, <2>3
<1>22. ASSUME NEW r \in ProjectRequests, Project!DeleteLike(r) PROVE ProjectTypes'
  <2> DEFINE b == writers[r].user \in likes
             x == [writers[r] EXCEPT !.step = "unliked", !.wrote = b]
  <2>1. writers' = [writers EXCEPT ![r] = x] /\ UNCHANGED <<row, members, likes, pairs, settled>>
    BY <1>5, <1>22 DEF Project!DeleteLike
  <2>2. b \in BOOLEAN
    OBVIOUS
  <2> HIDE DEF b
  <2>3. RequestTyped(x)
    <3>1. RequestTyped(writers[r]) /\ "unliked" \in Steps
      BY <1>1, <1>6
    <3> QED BY <1>5, <2>2, <3>1, RequestChanged
  <2> HIDE DEF x
  <2> QED BY <1>4, <2>1, <2>3
<1>23. ASSUME NEW r \in ProjectRequests
       PROVE  IsFiniteSet(Project!LikesSeen(r)) /\ (writers[r].kind # "none" => Project!LikesSeen(r) \subseteq Users)
  <2> DEFINE own == IF writers[r].wrote THEN {writers[r].user} ELSE {}
  <2>1. IsFiniteSet(own)
    BY FS_EmptySet, FS_Singleton
  <2>2. IsFiniteSet(likes \cup own) /\ IsFiniteSet(likes \ own)
    BY <1>1, <2>1, FS_Union, FS_Difference
  <2>3. writers[r].kind = "like" => own \subseteq Users
    BY <1>1 DEF RequestTyped
  <2>4. Project!LikesSeen(r) = IF writers[r].kind = "like" THEN likes \cup own ELSE likes \ own
    BY DEF Project!LikesSeen
  <2> HIDE DEF own
  <2> QED BY <1>1, <2>2, <2>3, <2>4
<1>24. ASSUME NEW r \in ProjectRequests, Project!CountFans(r) PROVE ProjectTypes'
  <2> DEFINE n == Project!Cardinality(Project!LikesSeen(r))
             x == [writers[r] EXCEPT !.count = n, !.step = "counted"]
  <2>1. writers' = [writers EXCEPT ![r] = x] /\ UNCHANGED <<row, members, likes, pairs, settled>>
    BY <1>5, <1>24 DEF Project!CountFans
  <2>2. n \in Nat
    BY <1>23, SameCount, FS_CardinalityType
  <2> HIDE DEF n
  <2>3. RequestTyped(x)
    <3>1. RequestTyped(writers[r]) /\ "counted" \in Steps
      BY <1>1, <1>6
    <3> QED BY <1>5, <2>2, <3>1, RequestChanged
  <2> HIDE DEF x
  <2> QED BY <1>4, <2>1, <2>3
<1>25. ASSUME NEW r \in ProjectRequests, Project!SaveTotals(r) PROVE ProjectTypes'
  <2>1. /\ row' = [row EXCEPT !.fans = writers[r].count] /\ likes' = Project!LikesSeen(r)
        /\ settled' = writers[r].alone /\ Project!Done(r) /\ UNCHANGED <<members, pairs>>
        /\ writers[r].step = "counted"
    BY <1>25 DEF Project!SaveTotals
  <2>2. writers[r].count \in Nat /\ writers[r].alone \in BOOLEAN
    BY <1>1 DEF RequestTyped, Project!RequestRecords
  <2>3. row' \in Project!ProjectRows
    BY <1>1, <2>1, <2>2 DEF Project!ProjectRows
  <2>4. writers[r].kind # "none"
    BY <2>1 DEF BaseInv, RequestOK, CountsLikes
  <2> QED BY <1>1, <1>19, <1>23, <2>1, <2>2, <2>3, <2>4
<1>26. ASSUME NEW r \in ProjectRequests,
              Project!SaveEdit(r) \/ Project!SaveTransfer(r) \/ Project!SaveAccept(r) \/ Project!SaveReject(r)
       PROVE  ProjectTypes'
  <2> DEFINE old == writers[r].old
             user == writers[r].user
  <2>1. /\ Project!Done(r) /\ UNCHANGED <<members, likes, pairs, settled>>
        /\ writers[r].kind \in SavesRow /\ writers[r].step \in {"loaded", "promoted"}
        /\ \/ row' = old \/ row' = [old EXCEPT !.token = [by |-> r, to |-> user]]
           \/ row' = [old EXCEPT !.token = Project!NoTransfer, !.owner = user] /\ writers[r].kind = "accept"
           \/ row' = [old EXCEPT !.token = Project!NoTransfer]
    BY <1>26 DEF Project!SaveEdit, Project!SaveTransfer, Project!SaveAccept, Project!SaveReject,
                 Project!SaveAll, Project!At, SavesRow
  <2>2. old \in Project!ProjectRows /\ user \in Users \cup {None}
    BY <1>1, <2>1 DEF RequestTyped, Project!RequestRecords
  <2>3. writers[r].kind = "accept" => user \in Users
    BY <2>1 DEF BaseInv, RequestOK, Project!Running
  <2>4. [by |-> r, to |-> user] \in Project!Tokens /\ Project!NoTransfer \in Project!Tokens
    BY <2>2 DEF Project!Tokens, Project!NoTransfer
  <2> HIDE DEF old, user
  <2>5. row' \in Project!ProjectRows
    <3>1. ASSUME NEW token \in Project!Tokens
          PROVE  [old EXCEPT !.token = token] \in Project!ProjectRows
      BY <2>2 DEF Project!ProjectRows
    <3>2. ASSUME NEW token \in Project!Tokens, user \in Users
          PROVE  [old EXCEPT !.token = token, !.owner = user] \in Project!ProjectRows
      BY <2>2, <3>2 DEF Project!ProjectRows
    <3> QED BY <2>1, <2>2, <2>3, <2>4, <3>1, <3>2
  <2> QED BY <1>1, <1>19, <2>1, <2>5
<1>27. ASSUME NEW r \in ProjectRequests, Project!Promote(r) PROVE ProjectTypes'
  <2>1. /\ members' = [members EXCEPT ![writers[r].user] = "admin"] /\ Project!To(r, "promoted")
        /\ UNCHANGED <<row, likes, pairs, settled>>
    BY <1>27 DEF Project!Promote
  <2>2. members' \in [Users -> {"admin", "member", "out"}]
    BY <1>1, <2>1
  <2>3. PICK x : RequestTyped(x) /\ writers' = [writers EXCEPT ![r] = x]
    BY <1>6, <1>20, <2>1
  <2>4. RequestsTyped(writers')
    BY <2>3, OneTyped
  <2> QED BY <1>1, <1>2, <2>1, <2>2, <2>4, ProjectTyped
<1>28. ASSUME NEW r \in ProjectRequests, Project!DeleteMembership(r) PROVE ProjectTypes'
  <2>1. /\ Project!Done(r) /\ UNCHANGED <<row, likes, pairs, settled>>
        /\ members' = [members EXCEPT ![writers[r].user] =
                         IF writers[r].kind = "leave" THEN "out" ELSE "member"]
    BY <1>28 DEF Project!DeleteMembership
  <2>2. members' \in [Users -> {"admin", "member", "out"}]
    BY <1>1, <2>1
  <2> QED BY <1>1, <1>19, <2>1, <2>2
<1>29. CASE UNCHANGED Project!vars
  BY <1>29 DEF Project!vars, ProjectTypes, Project!TypeOK
<1> QED BY <1>11, <1>12, <1>13, <1>14, <1>15, <1>16, <1>17, <1>18, <1>21, <1>22, <1>24, <1>25, <1>26,
           <1>27, <1>28, <1>29 DEF Project!Next

(***************************************************************************)
(* ... and of the swimlanes, also where lists and counts have been shifted *)
(* against each other.                                                     *)
(***************************************************************************)
LanesTyped ==
  /\ LaneTypes
  /\ default \in lanes \cup {NoLane} /\ lane \in [Stories -> lanes \cup {NoLane}]
  /\ creation \in [lane : Lanes!Lanes \cup {NoLane}, step : {"idle", "inserted", "counted"}]
  /\ \A d \in Deletions : deletions[d].step = "count" => deletions[d].todo # <<>>
  /\ \A d \in Deletions : deletions[d].step # "idle" => deletions[d].lane \in Lanes!Lanes
  /\ saves \in Nat
  /\ moved \subseteq Stories /\ skewed \in BOOLEAN /\ crossed \in BOOLEAN /\ unset \in BOOLEAN

LEMMA InitLanesTyped ==
  ASSUME LastLane \in Nat, Lanes!Init
  PROVE  LanesTyped
<1>1. deletions = [d \in Deletions |-> Lanes!Unsent] /\ drags = <<>> /\ home = lane
      /\ places = [s \in Stories |-> s] /\ creation = Lanes!NoCreation
      /\ moved = {} /\ skewed = FALSE /\ crossed = FALSE /\ unset = FALSE /\ saves = 0
  BY DEF Lanes!Init
<1>2. PICK n \in 0 .. LastLane :
        /\ lanes = 1 .. n /\ default = IF n = 0 THEN NoLane ELSE 1
        /\ lane \in [Stories -> lanes \cup {NoLane}]
  BY DEF Lanes!Init
<1>3. lanes \subseteq Lanes!Lanes
  BY <1>2 DEF Lanes!Lanes
<1>4. default \in lanes \cup {NoLane}
  <2>1. CASE n = 0
    BY <1>2, <2>1
  <2>2. CASE n # 0
    <3>1. 1 \in 1 .. n
      BY <2>2
    <3> QED BY <1>2, <2>2, <3>1
  <2> QED BY <2>1, <2>2
<1>5. Lanes!Unsent \in DeletionRecords /\ Lanes!Unsent.step = "idle"
  BY DEF Lanes!Unsent, DeletionRecords
<1>6. LaneTypes
  <2>1. places \in [Stories -> Nat]
    BY <1>1, StoriesAssumption
  <2>2. lane \in [Stories -> Lanes!Lanes \cup {NoLane}]
    BY <1>2, <1>3
  <2> QED BY <1>1, <1>3, <1>5, <2>1, <2>2 DEF LaneTypes
<1>7. creation \in [lane : Lanes!Lanes \cup {NoLane}, step : {"idle", "inserted", "counted"}]
  BY <1>1 DEF Lanes!NoCreation
<1>8. \A d \in Deletions : deletions[d].step = "idle"
  BY <1>1, <1>5
<1> QED BY <1>1, <1>2, <1>4, <1>6, <1>7, <1>8 DEF LanesTyped

LEMMA CreationTyped ==
  ASSUME LanesTyped, NEW l \in Lanes!Lanes, Lanes!InsertLane(l) \/ Lanes!SetDefault(l) \/ Lanes!TakeAll(l)
  PROVE  LanesTyped'
<1>1. /\ lanes \subseteq Lanes!Lanes
      /\ home \in [Stories -> Lanes!Lanes \cup {NoLane}] /\ places \in [Stories -> Nat]
      /\ deletions \in [Deletions -> DeletionRecords] /\ drags \in Seq(DragRecords)
      /\ default \in lanes \cup {NoLane} /\ lane \in [Stories -> lanes \cup {NoLane}]
      /\ creation \in [lane : Lanes!Lanes \cup {NoLane}, step : {"idle", "inserted", "counted"}]
      /\ moved \subseteq Stories /\ skewed \in BOOLEAN /\ crossed \in BOOLEAN /\ unset \in BOOLEAN
      /\ saves \in Nat
  BY DEF LanesTyped, LaneTypes
<1>2. UNCHANGED <<places, deletions, drags, saves, moved, skewed>>
  BY DEF Lanes!InsertLane, Lanes!SetDefault, Lanes!TakeAll
<1>3. ASSUME lanes' \subseteq Lanes!Lanes, home' \in [Stories -> Lanes!Lanes \cup {NoLane}],
             default' \in lanes' \cup {NoLane}, lane' \in [Stories -> lanes' \cup {NoLane}],
             creation' \in [lane : Lanes!Lanes \cup {NoLane}, step : {"idle", "inserted", "counted"}],
             crossed' \in BOOLEAN, unset' \in BOOLEAN
      PROVE  LanesTyped'
  <2>1. lane' \in [Stories -> Lanes!Lanes \cup {NoLane}]
    BY <1>3
  <2>2. LaneTypes'
    BY <1>1, <1>2, <1>3, <2>1 DEF LaneTypes
  <2>3. \A d \in Deletions : /\ deletions'[d].step = "count" => deletions'[d].todo # <<>>
                            /\ deletions'[d].step # "idle" => deletions'[d].lane \in Lanes!Lanes
    BY <1>2 DEF LanesTyped
  <2> QED BY <1>1, <1>2, <1>3, <2>2, <2>3 DEF LanesTyped
<1>4. CASE Lanes!InsertLane(l)
  <2>1. /\ lanes' = lanes \cup {l} /\ creation' = [lane |-> l, step |-> "inserted"]
        /\ UNCHANGED <<default, lane, home, unset>>
    BY <1>4 DEF Lanes!InsertLane
  <2>2. crossed' \in BOOLEAN
    <3>1. crossed' = (crossed \/ default \in Lanes!Passed)
      BY <1>4 DEF Lanes!InsertLane
    <3>2. (crossed \/ default \in Lanes!Passed) \in BOOLEAN
      OBVIOUS
    <3> QED BY <3>1, <3>2
  <2>3. creation' \in [lane : Lanes!Lanes \cup {NoLane}, step : {"idle", "inserted", "counted"}]
    BY <2>1
  <2>4. lane' \in [Stories -> lanes' \cup {NoLane}] /\ default' \in lanes' \cup {NoLane}
    BY <1>1, <2>1
  <2> QED BY <1>1, <1>3, <2>1, <2>2, <2>3, <2>4
<1>5. CASE Lanes!SetDefault(l)
  <2>1. /\ default' = IF lanes = {l} THEN l ELSE default
        /\ unset' = IF lanes = {l} THEN FALSE ELSE unset
        /\ creation' = [creation EXCEPT !.step = "counted"]
        /\ UNCHANGED <<lanes, lane, home, crossed>>
    BY <1>5 DEF Lanes!SetDefault
  <2>2. creation' \in [lane : Lanes!Lanes \cup {NoLane}, step : {"idle", "inserted", "counted"}]
    BY <1>1, <2>1
  <2>3. default' \in lanes \cup {NoLane} /\ unset' \in BOOLEAN
    BY <1>1, <2>1
  <2> QED BY <1>1, <1>3, <2>1, <2>2, <2>3
<1>6. CASE Lanes!TakeAll(l)
  <2>1. /\ lane' = IF lanes = {l} THEN [s \in Stories |-> l] ELSE lane
        /\ home' = IF lanes = {l} THEN [s \in Stories |-> l] ELSE home
        /\ creation' = Lanes!NoCreation /\ UNCHANGED <<lanes, default, crossed, unset>>
    BY <1>6 DEF Lanes!TakeAll
  <2>2. creation' \in [lane : Lanes!Lanes \cup {NoLane}, step : {"idle", "inserted", "counted"}]
    BY <2>1 DEF Lanes!NoCreation
  <2>3. /\ lane' \in [Stories -> lanes \cup {NoLane}] /\ home' \in [Stories -> Lanes!Lanes \cup {NoLane}]
    BY <1>1, <2>1
  <2> QED BY <1>1, <1>3, <2>1, <2>2, <2>3
<1> QED BY <1>4, <1>5, <1>6

\* A deletion goes on, and nothing else changes.
LEMMA DeletionTyped ==
  ASSUME LanesTyped, NEW d \in Deletions, NEW record \in DeletionRecords, Lanes!Set(d, record),
         record.step = "count" => record.todo # <<>>, record.lane \in Lanes!Lanes,
         UNCHANGED <<lanes, default, lane, places, creation, drags, saves, home, moved, crossed, unset>>,
         skewed' \in BOOLEAN
  PROVE  LanesTyped'
<1>1. deletions \in [Deletions -> DeletionRecords] /\ deletions' = [deletions EXCEPT ![d] = record]
  BY DEF LanesTyped, LaneTypes, Lanes!Set
<1>2. deletions' \in [Deletions -> DeletionRecords]
  BY <1>1
<1>3. \A e \in Deletions : deletions'[e] = IF e = d THEN record ELSE deletions[e]
  BY <1>1
<1>4. ASSUME NEW e \in Deletions, deletions'[e].step = "count" PROVE deletions'[e].todo # <<>>
  BY <1>3, <1>4 DEF LanesTyped
<1>5. ASSUME NEW e \in Deletions, deletions'[e].step # "idle" PROVE deletions'[e].lane \in Lanes!Lanes
  BY <1>3, <1>5 DEF LanesTyped
<1>6. LaneTypes'
  BY <1>2 DEF LanesTyped, LaneTypes
<1> QED BY <1>4, <1>5, <1>6 DEF LanesTyped

LEMMA DeleteTyped ==
  ASSUME LanesTyped, NEW d \in Deletions, NEW l \in Lanes!Lanes, NEW to \in Lanes!Lanes \cup {NoLane},
         Lanes!Delete(d, l, to)
  PROVE  LanesTyped'
<1>1. /\ UNCHANGED <<lanes, default, lane, places, creation, drags, saves, home, moved, skewed, crossed, unset>>
      /\ \/ Lanes!Set(d, [Lanes!Unsent EXCEPT !.lane = l, !.to = to, !.step = "checked"])
         \/ Lanes!Set(d, [Lanes!Unsent EXCEPT !.lane = l, !.step = "clear"])
  BY DEF Lanes!Delete
<1>2. Lanes!Unsent \in DeletionRecords
  BY DEF Lanes!Unsent, DeletionRecords
<1>3. ASSUME NEW record, record = [Lanes!Unsent EXCEPT !.lane = l, !.to = to, !.step = "checked"]
      PROVE  record \in DeletionRecords /\ record.step # "count" /\ record.lane = l
  BY <1>2, <1>3 DEF DeletionRecords
<1>4. ASSUME NEW record, record = [Lanes!Unsent EXCEPT !.lane = l, !.step = "clear"]
      PROVE  record \in DeletionRecords /\ record.step # "count" /\ record.lane = l
  BY <1>2, <1>4 DEF DeletionRecords
<1>5. skewed' \in BOOLEAN
  BY <1>1 DEF LanesTyped
<1> QED BY <1>1, <1>3, <1>4, <1>5, DeletionTyped

LEMMA ListNoneTyped ==
  ASSUME LastLane \in Nat, LanesTyped, NEW d \in Deletions, Lanes!ListNone(d)
  PROVE  LanesTyped'
<1> DEFINE none == Lanes!InLane(NoLane)
           board == Lanes!OnBoard(lanes)
<1>1. PICK D : D = deletions[d]
  OBVIOUS
<1>2. /\ UNCHANGED <<lanes, default, lane, places, creation, drags, saves, home, moved, skewed, crossed, unset>>
      /\ Lanes!Set(d, [D EXCEPT !.none = none, !.todo = board, !.keys = board, !.step = "list"])
  BY <1>1 DEF Lanes!ListNone
<1>3. /\ D \in DeletionRecords /\ lanes \in SUBSET Lanes!Lanes /\ places \in [Stories -> Nat]
      /\ D.lane \in Lanes!Lanes
  BY <1>1 DEF LanesTyped, LaneTypes, Lanes!ListNone
<1>4. none \in Seq(Stories) /\ board \in Seq(lanes)
  BY <1>3, InLaneHas, OnBoardHas
<1>5. board \in Seq(Lanes!Lanes)
  BY <1>3, <1>4
<1> HIDE DEF none, board
<1>6. PICK record : record = [D EXCEPT !.none = none, !.todo = board, !.keys = board, !.step = "list"]
  OBVIOUS
<1>7. record \in DeletionRecords /\ record.step = "list" /\ record.lane = D.lane
  BY <1>3, <1>4, <1>5, <1>6 DEF DeletionRecords
<1>8. skewed' \in BOOLEAN
  BY <1>2 DEF LanesTyped
<1> QED BY <1>2, <1>3, <1>6, <1>7, <1>8, DeletionTyped

LEMMA ListLaneTyped ==
  ASSUME LanesTyped, NEW d \in Deletions, Lanes!ListLane(d)
  PROVE  LanesTyped'
<1>1. PICK D, l : D = deletions[d] /\ l = Head(D.todo)
  OBVIOUS
<1> DEFINE ids == Lanes!InLane(l)
<1>2. /\ UNCHANGED <<lanes, default, lane, places, creation, drags, saves, home, moved, skewed, crossed, unset>>
      /\ D.todo # <<>> /\ Lanes!Set(d, [D EXCEPT !.ids[l] = ids, !.step = "count"])
  BY <1>1 DEF Lanes!ListLane
<1>3. D \in DeletionRecords /\ places \in [Stories -> Nat] /\ D.lane \in Lanes!Lanes
  BY <1>1 DEF LanesTyped, LaneTypes, Lanes!ListLane
<1>4. ids \in Seq(Stories)
  BY <1>3, InLaneHas
<1> HIDE DEF ids
<1>5. l \in Lanes!Lanes
  <2>1. D.todo \in Seq(Lanes!Lanes)
    BY <1>3 DEF DeletionRecords
  <2> QED BY <1>1, <1>2, <2>1
<1>6. PICK record : record = [D EXCEPT !.ids[l] = ids, !.step = "count"]
  OBVIOUS
<1>7. record \in DeletionRecords /\ record.todo = D.todo /\ record.lane = D.lane
  BY <1>3, <1>4, <1>5, <1>6 DEF DeletionRecords
<1>8. skewed' \in BOOLEAN
  BY <1>2 DEF LanesTyped
<1> QED BY <1>2, <1>3, <1>6, <1>7, <1>8, DeletionTyped

LEMMA CountLaneTyped ==
  ASSUME LanesTyped, NEW d \in Deletions, Lanes!CountLane(d)
  PROVE  LanesTyped'
<1>1. PICK D, l, n : D = deletions[d] /\ l = Head(D.todo) /\ n = Len(Lanes!InLane(l))
  OBVIOUS
<1>2. /\ D.step = "count"
      /\ UNCHANGED <<lanes, default, lane, places, creation, drags, saves, home, moved, skewed, crossed, unset>>
      /\ Lanes!Set(d, [D EXCEPT !.count[l] = n, !.todo = Tail(@), !.step = "list"])
  BY <1>1 DEF Lanes!CountLane
<1>3. D \in DeletionRecords /\ places \in [Stories -> Nat] /\ D.lane \in Lanes!Lanes
  BY <1>1 DEF LanesTyped, LaneTypes, Lanes!CountLane
<1>4. n \in Nat
  <2>1. Lanes!InLane(l) \in Seq(Stories)
    BY <1>3, InLaneHas
  <2>2. \A q \in Seq(Stories) : Len(q) \in Nat
    OBVIOUS
  <2> QED BY <1>1, <2>1, <2>2
<1>5. l \in Lanes!Lanes /\ Tail(D.todo) \in Seq(Lanes!Lanes)
  <2>1. D.todo \in Seq(Lanes!Lanes) /\ D.todo # <<>>
    BY <1>1, <1>2, <1>3 DEF DeletionRecords, LanesTyped
  <2> QED BY <1>1, <2>1
<1>6. PICK record : record = [D EXCEPT !.count[l] = n, !.todo = Tail(@), !.step = "list"]
  OBVIOUS
<1>7. record \in DeletionRecords /\ record.step = "list" /\ record.lane = D.lane
  BY <1>3, <1>4, <1>5, <1>6 DEF DeletionRecords
<1>8. skewed' \in BOOLEAN
  BY <1>2 DEF LanesTyped
<1> QED BY <1>2, <1>3, <1>6, <1>7, <1>8, DeletionTyped

LEMMA CheckLastTyped ==
  ASSUME LanesTyped, NEW d \in Deletions, Lanes!CheckLast(d)
  PROVE  LanesTyped'
<1>1. PICK D : D = deletions[d]
  OBVIOUS
<1>2. PICK step : step \in {"failed", "last"} /\ Lanes!Set(d, [D EXCEPT !.step = step])
  BY <1>1 DEF Lanes!CheckLast
<1>3. UNCHANGED <<lanes, default, lane, places, creation, drags, saves, home, moved, skewed, crossed, unset>>
  BY DEF Lanes!CheckLast
<1>4. D \in DeletionRecords /\ D.lane \in Lanes!Lanes
  BY <1>1 DEF LanesTyped, LaneTypes, Lanes!CheckLast
<1>5. PICK record : record = [D EXCEPT !.step = step]
  OBVIOUS
<1>6. record \in DeletionRecords /\ record.step # "count" /\ record.lane = D.lane
  BY <1>2, <1>4, <1>5 DEF DeletionRecords
<1>7. skewed' \in BOOLEAN
  BY <1>3 DEF LanesTyped
<1> QED BY <1>2, <1>3, <1>4, <1>5, <1>6, <1>7, DeletionTyped

\* The UPDATE has written the pairs, or the request fails.
LEMMA AllowTyped ==
  ASSUME LanesTyped, NEW d \in Deletions, Lanes!Allow(d)
  PROVE  LanesTyped'
<1>1. PICK D : D = deletions[d]
  OBVIOUS
<1>2. /\ UNCHANGED <<lanes, default, lane, places, creation, drags, saves, home, moved, skewed, crossed, unset>>
      /\ \/ Lanes!Set(d, [Lanes!Unsent EXCEPT !.lane = D.lane, !.step = "failed"])
         \/ Lanes!Set(d, [D EXCEPT !.step = "allowed"])
      /\ D.step = "list"
  BY <1>1 DEF Lanes!Allow
<1>3. D \in DeletionRecords /\ D.lane \in Lanes!Lanes
  BY <1>1, <1>2 DEF LanesTyped, LaneTypes
<1>4. Lanes!Unsent \in DeletionRecords
  BY DEF Lanes!Unsent, DeletionRecords
<1>5. ASSUME NEW record, record = [Lanes!Unsent EXCEPT !.lane = D.lane, !.step = "failed"]
      PROVE  record \in DeletionRecords /\ record.step # "count" /\ record.lane = D.lane
  BY <1>3, <1>4, <1>5 DEF DeletionRecords
<1>6. ASSUME NEW record, record = [D EXCEPT !.step = "allowed"]
      PROVE  record \in DeletionRecords /\ record.step # "count" /\ record.lane = D.lane
  BY <1>3, <1>6 DEF DeletionRecords
<1>7. skewed' \in BOOLEAN
  BY <1>2 DEF LanesTyped
<1> QED BY <1>2, <1>3, <1>5, <1>6, <1>7, DeletionTyped

LEMMA SaveProjectTyped ==
  ASSUME LanesTyped, NEW v \in Lanes!Lanes \cup {NoLane}, Lanes!SaveProject(v)
  PROVE  LanesTyped'
<1>1. /\ v \in lanes \cup {NoLane} /\ saves' = saves + 1 /\ default' = v
      /\ UNCHANGED <<lanes, lane, places, creation, deletions, drags, home, moved, skewed>>
  BY DEF Lanes!SaveProject
<1>2. crossed' \in BOOLEAN /\ unset' \in BOOLEAN
  <2>1. /\ crossed' = (crossed \/ (v # default /\ v \in Lanes!Passed))
        /\ unset' = (v = NoLane /\ lanes # {})
    BY DEF Lanes!SaveProject
  <2>2. /\ (crossed \/ (v # default /\ v \in Lanes!Passed)) \in BOOLEAN
        /\ (v = NoLane /\ lanes # {}) \in BOOLEAN
    OBVIOUS
  <2> QED BY <2>1, <2>2
<1>3. LaneTypes'
  BY <1>1 DEF LanesTyped, LaneTypes
<1>4. saves' \in Nat
  BY <1>1 DEF LanesTyped
<1> QED BY <1>1, <1>2, <1>3, <1>4 DEF LanesTyped

\* The lane goes.
LEMMA GoneTyped ==
  ASSUME LanesTyped, NEW d \in Deletions, NEW D, D = deletions[d],
         NEW assigned \in [Stories -> lanes \cup {NoLane}], NEW placed \in [Stories -> Nat],
         Lanes!DeleteLane(d, assigned, placed), D.lane \in Lanes!Lanes,
         UNCHANGED <<creation, drags, saves, moved, crossed, unset>>,
         skewed' \in BOOLEAN
  PROVE  LanesTyped'
<1>1. PICK record : record = [D EXCEPT !.step = "done", !.none = <<>>, !.keys = <<>>,
                                       !.ids = Lanes!Unsent.ids, !.count = Lanes!Unsent.count]
  OBVIOUS
<1>2. /\ lanes' = lanes \ {D.lane} /\ places' = placed
      /\ default' = IF default = D.lane THEN NoLane ELSE default
      /\ lane' = [s \in Stories |-> IF assigned[s] = D.lane THEN NoLane ELSE assigned[s]]
      /\ home' = [s \in Stories |-> IF home[s] = D.lane THEN Lanes!HeirOf(D) ELSE home[s]]
      /\ deletions' = [deletions EXCEPT ![d] = record]
  BY <1>1 DEF Lanes!DeleteLane, Lanes!Set
<1>3. /\ D \in DeletionRecords /\ lanes \subseteq Lanes!Lanes /\ deletions \in [Deletions -> DeletionRecords]
      /\ home \in [Stories -> Lanes!Lanes \cup {NoLane}] /\ drags \in Seq(DragRecords)
      /\ default \in lanes \cup {NoLane}
  BY DEF LanesTyped, LaneTypes
<1>4. record \in DeletionRecords /\ record.step = "done" /\ record.lane \in Lanes!Lanes
  BY <1>1, <1>3, GoneRecord DEF DeletionRecords
<1>5. /\ deletions' \in [Deletions -> DeletionRecords]
      /\ \A e \in Deletions : deletions'[e] = IF e = d THEN record ELSE deletions[e]
  BY <1>2, <1>3, <1>4
<1>6. Lanes!HeirOf(D) \in Lanes!Lanes \cup {NoLane}
  BY <1>3 DEF DeletionRecords, Lanes!HeirOf
<1>7. lane' \in [Stories -> lanes' \cup {NoLane}]
  BY <1>2
<1>8. home' \in [Stories -> Lanes!Lanes \cup {NoLane}] /\ default' \in lanes' \cup {NoLane}
  BY <1>2, <1>3, <1>6
<1>9. lanes' \subseteq Lanes!Lanes
  BY <1>2, <1>3
<1>10. lane' \in [Stories -> Lanes!Lanes \cup {NoLane}]
  BY <1>7, <1>9
<1>11. LaneTypes'
  BY <1>2, <1>3, <1>5, <1>8, <1>9, <1>10 DEF LaneTypes
<1>12. ASSUME NEW e \in Deletions, deletions'[e].step = "count" PROVE deletions'[e].todo # <<>>
  BY <1>4, <1>5, <1>12 DEF LanesTyped
<1>13. ASSUME NEW e \in Deletions, deletions'[e].step # "idle" PROVE deletions'[e].lane \in Lanes!Lanes
  BY <1>4, <1>5, <1>13 DEF LanesTyped
<1> QED BY <1>7, <1>8, <1>11, <1>12, <1>13 DEF LanesTyped

LEMMA RemoveLastTyped ==
  ASSUME LanesTyped, NEW d \in Deletions, Lanes!RemoveLast(d)
  PROVE  LanesTyped'
<1>1. PICK D : D = deletions[d]
  OBVIOUS
<1>2. skewed' \in BOOLEAN /\ UNCHANGED <<creation, drags, saves, moved, crossed, unset>>
  <2>1. skewed' = (skewed \/ (deletions'[d].step = "done" /\ Lanes!Running # {d}))
    BY DEF Lanes!RemoveLast
  <2>2. (skewed \/ (deletions'[d].step = "done" /\ Lanes!Running # {d})) \in BOOLEAN
    OBVIOUS
  <2> QED BY <2>1, <2>2 DEF Lanes!RemoveLast
<1>3. CASE D.lane \notin lanes
  <2>1. PICK record : record = [D EXCEPT !.step = "failed"]
    OBVIOUS
  <2>2. Lanes!Set(d, record) /\ UNCHANGED <<lanes, default, lane, places, home>>
    BY <1>1, <1>3, <2>1 DEF Lanes!RemoveLast
  <2>3. D \in DeletionRecords /\ D.lane \in Lanes!Lanes
    BY <1>1 DEF LanesTyped, LaneTypes, Lanes!RemoveLast
  <2>4. record \in DeletionRecords /\ record.step # "count" /\ record.lane \in Lanes!Lanes
    BY <2>1, <2>3 DEF DeletionRecords
  <2> QED BY <1>2, <2>2, <2>4, DeletionTyped
<1>4. CASE D.lane \in lanes
  <2>1. Lanes!DeleteLane(d, lane, places)
    BY <1>1, <1>4 DEF Lanes!RemoveLast
  <2>2. /\ lane \in [Stories -> lanes \cup {NoLane}] /\ places \in [Stories -> Nat]
        /\ D.lane \in Lanes!Lanes
    BY <1>4 DEF LanesTyped, LaneTypes
  <2> QED BY <1>1, <1>2, <2>1, <2>2, GoneTyped
<1> QED BY <1>3, <1>4

LEMMA FlatTyped ==
  ASSUME NEW A, NEW D, D.keys \in Seq(Lanes!Lanes), D.lane \in Lanes!Lanes,
         NEW listed \in [Lanes!Lanes -> Seq(A)]
  PROVE  Lanes!Flat(D, listed) \in Seq(A)
<1> DEFINE N == Len(D.keys)
           F == [n \in DOMAIN D.keys |-> Part(D, listed, D.keys[n])]
<1>1. N \in Nat /\ DOMAIN D.keys = 1 .. N
  OBVIOUS
<1>2. Len(F) = N /\ \A n \in 1 .. N : F[n] = Part(D, listed, D.keys[n])
  BY <1>1
<1>3. Lanes!Flat(D, listed) = Lanes!Joined(F)
  BY DEF Lanes!Flat, Part
<1>4. \A n \in 1 .. N : D.keys[n] \in Lanes!Lanes
  OBVIOUS
<1> HIDE DEF F, N
<1>5. ASSUME NEW k \in Lanes!Lanes PROVE Part(D, listed, k) \in Seq(A)
  <2>1. CASE k = D.lane
    BY <2>1 DEF Part
  <2>2. CASE k # D.lane /\ k = D.to
    <3>1. listed[D.to] \in Seq(A) /\ listed[D.lane] \in Seq(A)
      BY <2>2
    <3>2. listed[D.to] \o listed[D.lane] \in Seq(A)
      BY <3>1, ConcatPlaces
    <3> QED BY <2>2, <3>2 DEF Part
  <2>3. CASE k # D.lane /\ k # D.to
    BY <2>3 DEF Part
  <2> QED BY <2>1, <2>2, <2>3
<1>6. \A n \in 1 .. N : F[n] \in Seq(A) /\ F[n] \in Seq(A) /\ Len(F[n]) = Len(F[n])
  BY <1>2, <1>4, <1>5
<1>7. Lanes!Joined(F) \in Seq(A)
  <2>1. N \in Nat /\ Len(F) = N
    BY <1>1, <1>2
  <2> QED BY <1>6, <2>1, JoinedZip
<1> QED BY <1>3, <1>7

LEMMA PairsCounted ==
  ASSUME NEW D \in DeletionRecords, D.lane \in Lanes!Lanes
  PROVE  \E size \in Nat : DOMAIN Lanes!Pairs(D) = 1 .. size
<1> DEFINE B == Lanes!Lanes \cup {NoLane}
           none == [i \in 1 .. Len(D.none) |-> NoLane]
           r == Lanes!Flat(D, D.ids)
           t == Lanes!Flat(D, Lanes!Targets(D))
           uss == D.none \o r
           target == none \o t
           size == IF Len(uss) < Len(target) THEN Len(uss) ELSE Len(target)
<1>1. /\ D.keys \in Seq(Lanes!Lanes) /\ D.none \in Seq(Stories) /\ D.to \in B
      /\ D.ids \in [Lanes!Lanes -> Seq(Stories)] /\ D.count \in [Lanes!Lanes -> Nat]
  BY DEF DeletionRecords
<1>2. Lanes!Targets(D) \in [Lanes!Lanes -> Seq(B)]
  <2>1. ASSUME NEW k \in Lanes!Lanes
        PROVE  [i \in 1 .. D.count[k] |-> IF k = D.lane THEN D.to ELSE k] \in Seq(B)
    <3>1. \A c \in Nat, h \in B : [i \in 1 .. c |-> h] \in Seq(B)
      OBVIOUS
    <3>2. D.count[k] \in Nat /\ (IF k = D.lane THEN D.to ELSE k) \in B
      BY <1>1
    <3> HIDE DEF B
    <3> QED BY <3>1, <3>2
  <2> QED BY <2>1 DEF Lanes!Targets
<1>3. r \in Seq(Stories)
  BY <1>1, FlatTyped
<1>4. t \in Seq(B)
  <2> DEFINE listed == Lanes!Targets(D)
  <2>1. listed \in [Lanes!Lanes -> Seq(B)]
    BY <1>2
  <2> HIDE DEF B, listed
  <2>2. Lanes!Flat(D, listed) \in Seq(B)
    BY <1>1, <2>1, FlatTyped
  <2> QED BY <2>2 DEF listed
<1>5. Len(D.none) \in Nat
  BY <1>1
<1>6. none \in Seq(B)
  BY <1>5
<1> HIDE DEF r, t, none, B
<1>7. uss \in Seq(Stories) /\ target \in Seq(B)
  BY <1>1, <1>3, <1>4, <1>6
<1> HIDE DEF uss, target
<1>8. Len(uss) \in Nat /\ Len(target) \in Nat
  BY <1>7
<1>9. size \in Nat
  BY <1>8
<1> HIDE DEF size
<1>10. DOMAIN Lanes!Pairs(D) = 1 .. size
  BY DEF Lanes!Pairs, size, uss, target, r, t, none
<1> QED BY <1>9, <1>10

LEMMA MoveLanesTyped ==
  ASSUME LanesTyped, NEW d \in Deletions, Lanes!MoveAndRemove(d)
  PROVE  LanesTyped'
<1>1. PICK D : D = deletions[d]
  OBVIOUS
<1>2. D \in DeletionRecords /\ D.lane \in Lanes!Lanes
  BY <1>1 DEF LanesTyped, LaneTypes, Lanes!MoveAndRemove
<1>3. skewed' \in BOOLEAN /\ UNCHANGED <<creation, drags, saves, moved, crossed, unset>>
  <2>1. skewed' = (skewed \/ (deletions'[d].step = "done" /\ Lanes!Running # {d}))
    BY DEF Lanes!MoveAndRemove
  <2>2. (skewed \/ (deletions'[d].step = "done" /\ Lanes!Running # {d})) \in BOOLEAN
    OBVIOUS
  <2> QED BY <2>1, <2>2 DEF Lanes!MoveAndRemove
<1>4. CASE Lanes!Refused(d)
  <2>1. PICK record : record = [Lanes!Unsent EXCEPT !.lane = D.lane, !.step = "failed"]
    OBVIOUS
  <2>2. Lanes!Set(d, record) /\ UNCHANGED <<lanes, default, lane, places, home>>
    BY <1>1, <1>4, <2>1 DEF Lanes!MoveAndRemove
  <2>3. record \in DeletionRecords /\ record.step # "count" /\ record.lane \in Lanes!Lanes
    <3>1. Lanes!Unsent \in DeletionRecords
      BY DEF Lanes!Unsent, DeletionRecords
    <3> QED BY <1>2, <2>1, <3>1 DEF DeletionRecords
  <2> QED BY <1>3, <2>2, <2>3, DeletionTyped
<1>5. CASE ~ Lanes!Refused(d)
  <2> DEFINE pairs1 == Lanes!Pairs(deletions[d])
             listed == {pairs1[i].story : i \in DOMAIN pairs1}
  <2>1. \A i \in DOMAIN pairs1 : pairs1[i].lane \in lanes \cup {NoLane}
    BY <1>5 DEF Lanes!Refused
  <2>2. PICK pick \in [listed -> DOMAIN pairs1] :
          Lanes!DeleteLane(d,
            [s \in Stories |-> IF s \in listed THEN pairs1[pick[s]].lane ELSE lane[s]],
            [s \in Stories |-> IF s \in listed THEN pick[s] - 1 ELSE places[s]])
    BY <1>5 DEF Lanes!MoveAndRemove
  <2>3. lanes \subseteq Lanes!Lanes /\ lane \in [Stories -> lanes \cup {NoLane}] /\ places \in [Stories -> Nat]
    BY DEF LanesTyped, LaneTypes
  <2>4. PICK size \in Nat : DOMAIN pairs1 = 1 .. size
    BY <1>1, <1>2, PairsCounted
  <2> HIDE DEF pairs1, listed
  <2> DEFINE assigned == [s \in Stories |-> IF s \in listed THEN pairs1[pick[s]].lane ELSE lane[s]]
             placed == [s \in Stories |-> IF s \in listed THEN pick[s] - 1 ELSE places[s]]
  <2>5. assigned \in [Stories -> lanes \cup {NoLane}]
    BY <2>1, <2>2, <2>3
  <2>6. placed \in [Stories -> Nat]
    <3>1. ASSUME NEW s \in listed PROVE pick[s] - 1 \in Nat
      <4>1. pick[s] \in 1 .. size
        BY <2>2, <2>4
      <4> QED BY <4>1
    <3> QED BY <2>3, <3>1
  <2>7. Lanes!DeleteLane(d, assigned, placed)
    BY <2>2
  <2> HIDE DEF assigned, placed
  <2> QED BY <1>1, <1>2, <1>3, <2>5, <2>6, <2>7, GoneTyped
<1> QED BY <1>4, <1>5

LEMMA DragLanesTyped ==
  ASSUME LanesTyped, NEW s \in Stories, NEW l \in Lanes!Lanes, Lanes!Drag(s, l)
  PROVE  LanesTyped'
<1>1. UNCHANGED <<lanes, default, lane, places, creation, deletions, saves, home, moved, skewed, crossed, unset>>
  BY DEF Lanes!Drag
<1>2. drags' \in Seq(DragRecords)
  BY DragTyped DEF LanesTyped
<1>3. LaneTypes'
  BY <1>1, <1>2 DEF LanesTyped, LaneTypes
<1> QED BY <1>1, <1>3 DEF LanesTyped

LEMMA DropLanesTyped ==
  ASSUME LanesTyped, NEW i \in DOMAIN drags, Lanes!Drop(i)
  PROVE  LanesTyped'
<1>1. PICK s, l : s = drags[i].story /\ l = drags[i].lane
  OBVIOUS
<1> DEFINE fits == l \in lanes
<1>2. /\ lane' = [lane EXCEPT ![s] = IF fits THEN l ELSE @]
      /\ home' = [home EXCEPT ![s] = IF fits THEN l ELSE @]
      /\ moved' \in {moved, moved \cup {s}}
      /\ UNCHANGED <<lanes, default, creation, deletions, saves, crossed, unset>>
  BY <1>1 DEF Lanes!Drop
<1>3. skewed' \in BOOLEAN
  <2>1. skewed' = (skewed \/ (fits /\ \E d \in Lanes!Running : deletions[d].step = "count"))
    BY <1>1 DEF Lanes!Drop
  <2>2. (skewed \/ (fits /\ \E d \in Lanes!Running : deletions[d].step = "count")) \in BOOLEAN
    OBVIOUS
  <2> QED BY <2>1, <2>2
<1>4. s \in Stories /\ l \in Lanes!Lanes
  <2>1. drags[i] \in DragRecords
    BY DEF LanesTyped, LaneTypes
  <2> QED BY <1>1, <2>1 DEF DragRecords
<1>5. /\ lane \in [Stories -> lanes \cup {NoLane}] /\ home \in [Stories -> Lanes!Lanes \cup {NoLane}]
      /\ lanes \subseteq Lanes!Lanes
  BY DEF LanesTyped, LaneTypes
<1>6. lane' \in [Stories -> lanes' \cup {NoLane}]
  BY <1>2, <1>4, <1>5
<1>7. home' \in [Stories -> Lanes!Lanes \cup {NoLane}]
  BY <1>2, <1>4, <1>5
<1>8. lane' \in [Stories -> Lanes!Lanes \cup {NoLane}]
  BY <1>2, <1>5, <1>6
<1>9. places' \in [Stories -> Nat] /\ drags' \in Seq(DragRecords)
  BY DropTyped DEF LanesTyped
<1>10. LaneTypes'
  BY <1>2, <1>7, <1>8, <1>9 DEF LanesTyped, LaneTypes
<1>11. moved' \subseteq Stories
  BY <1>2, <1>4 DEF LanesTyped
<1> QED BY <1>2, <1>3, <1>6, <1>10, <1>11 DEF LanesTyped

LEMMA NextLanesTyped ==
  ASSUME LastLane \in Nat
  PROVE  LanesTyped /\ [Lanes!Next]_(Lanes!vars) => LanesTyped'
<1> SUFFICES ASSUME LanesTyped, [Lanes!Next]_(Lanes!vars) PROVE LanesTyped'
  OBVIOUS
<1>1. CASE UNCHANGED Lanes!vars
  BY <1>1 DEF Lanes!vars, LanesTyped, LaneTypes
<1> QED BY <1>1, CreationTyped, DeleteTyped, ListNoneTyped, ListLaneTyped, CountLaneTyped, MoveLanesTyped,
           AllowTyped, CheckLastTyped, RemoveLastTyped, SaveProjectTyped, DragLanesTyped, DropLanesTyped DEF Lanes!Next

LEMMA LanesExplained == LanesTyped => Lanes!TypeOK
<1> SUFFICES ASSUME LanesTyped PROVE Lanes!TypeOK
  OBVIOUS
<1>1. ASSUME NEW i \in DOMAIN drags PROVE drags[i].step \in {"listed", "done", "failed"}
  <2>1. drags[i] \in DragRecords
    BY DEF LanesTyped, LaneTypes
  <2> QED BY <2>1 DEF DragRecords
<1>2. ASSUME NEW D \in DeletionRecords
      PROVE  /\ D.step \in {"idle", "checked", "list", "count", "allowed", "clear", "last", "done", "failed"}
             /\ D.lane \in Lanes!Lanes \cup {NoLane} /\ D.to \in Lanes!Lanes \cup {NoLane}
             /\ D.todo \in Seq(Lanes!Lanes) /\ D.keys \in Seq(Lanes!Lanes) /\ D.none \in Seq(Stories)
             /\ D.ids \in [Lanes!Lanes -> Seq(Stories)] /\ D.count \in [Lanes!Lanes -> Nat]
  BY <1>2 DEF DeletionRecords
<1>3. \A d \in Deletions : deletions[d] \in DeletionRecords
  BY DEF LanesTyped, LaneTypes
<1> QED BY <1>1, <1>2, <1>3 DEF Lanes!TypeOK, LanesTyped, LaneTypes

-----------------------------------------------------------------------------
TypesHold ==
  /\ what \in {"project", "handlers", "lanes", "taskboard", "mails"}
  /\ what = "project" => ProjectTypes
  /\ what = "handlers" => Handlers!TypeOK
  /\ what = "lanes" => LanesTyped

\* The five parts have their types, whichever of them runs.
THEOREM TypesCorrect == Spec => []TypesOK
<1>0. LastLane \in Nat /\ MaxChanges \in Nat /\ None \notin ProjectRequests
  BY LanesAssumption, MailsAssumption, NoneAssumption
<1>1. Init => TypesHold
  BY <1>0, HandlersAssumption, InitProjectTyped, InitHandlersTyped, InitLanesTyped DEF Init, TypesHold
<1>2. TypesHold /\ ProjectInv /\ [Next]_serverVars => TypesHold'
  <2> SUFFICES ASSUME TypesHold, ProjectInv, [Next]_serverVars PROVE TypesHold'
    OBVIOUS
  <2>1. what' = what
    BY DEF Next, serverVars
  <2>2. what = "project" => ProjectTypes'
    <3> SUFFICES ASSUME what = "project" PROVE ProjectTypes'
      OBVIOUS
    <3>1. [Project!Next]_(Project!vars)
      BY DEF Next, serverVars, projectVars, Project!vars
    <3> QED BY <3>1, NextProjectTyped DEF TypesHold, ProjectInv
  <2>3. what = "handlers" => Handlers!TypeOK'
    <3> SUFFICES ASSUME what = "handlers" PROVE Handlers!TypeOK'
      OBVIOUS
    <3>1. [Handlers!Next]_(Handlers!vars)
      BY DEF Next, serverVars, handlerVars, Handlers!vars
    <3> QED BY <3>1, NextHandlersTyped DEF TypesHold
  <2>4. what = "lanes" => LanesTyped'
    <3> SUFFICES ASSUME what = "lanes" PROVE LanesTyped'
      OBVIOUS
    <3>1. [Lanes!Next]_(Lanes!vars)
      BY DEF Next, serverVars, laneVars, Lanes!vars
    <3> QED BY <1>0, <3>1, NextLanesTyped DEF TypesHold
  <2> QED BY <2>1, <2>2, <2>3, <2>4 DEF TypesHold
<1>3. TypesHold /\ TabHolds /\ MailsHold => TypesOK
  <2> SUFFICES ASSUME TypesHold, TabHolds, MailsHold PROVE TypesOK
    OBVIOUS
  <2>1. /\ what = "project" => Project!TypeOK
        /\ what = "handlers" => Handlers!TypeOK
        /\ what = "lanes" => Lanes!TypeOK
    BY LanesExplained DEF TypesHold, ProjectTypes
  <2>2. what = "taskboard" => Taskboard!TypeOK
    BY TabTyped DEF TabHolds
  <2>3. what = "mails" => Mails!TypeOK
    BY <1>0, MailsTyped DEF MailsHold
  <2> QED BY <2>1, <2>2, <2>3 DEF TypesOK, TypesHold
<1> QED BY <1>1, <1>2, <1>3, ProjectInvariant, TabInvariant, MailsInvariant, PTL DEF Spec, serverVars

=============================================================================

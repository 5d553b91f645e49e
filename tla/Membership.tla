------------------------------ MODULE Membership -----------------------------
(***************************************************************************)
(* The members of one workspace (apps/api, workspaces.service.ts):         *)
(* invitations, their acceptance and the removal of members.               *)
(*                                                                         *)
(* acceptInvite() checks the invitation before its transaction, and the    *)
(* transaction looks for a membership before it inserts one; no index      *)
(* keeps a user from being a member twice.  removeMember() deletes the     *)
(* one row it found.                                                       *)
(***************************************************************************)
EXTENDS Integers, FiniteSets

CONSTANTS
  Owner,        \* who created the workspace
  Users,        \* who may be invited
  Requests,     \* requests that may be under way
  MaxInvites,   \* bound on the invitations
  MaxRows       \* bound on the memberships

ASSUME OwnerIsUser == Owner \in Users
ASSUME BoundsNatural == MaxInvites \in Nat /\ MaxRows \in Nat \ {0}

VARIABLES
  invites,      \* invitations
  members,      \* workspace_members
  rows,         \* how many memberships were inserted
  request,      \* what each request has read
  uses,         \* history: how often each invitation was accepted
  crossed       \* history: users two of whose acceptances overlapped

vars == <<invites, members, rows, request, uses, crossed>>

Idle == [pc |-> "idle"]
Invitation == [id : 1..MaxInvites, email : Users, state : {"open", "accepted", "expired"}]
Member == [id : 1..MaxRows, user : Users, role : {"owner", "member"}]

\* create(): the workspace and its first member, in one transaction.
Init ==
  /\ members = {[id |-> 1, user |-> Owner, role |-> "owner"]} /\ rows = 1
  /\ invites = {} /\ request = [r \in Requests |-> Idle]
  /\ uses = [i \in 1..MaxInvites |-> 0] /\ crossed = {}

MembersOf(u) == {m \in members : m.user = u}
Owners == {m \in members : m.role = "owner"}

-----------------------------------------------------------------------------
(* invite() *)

\* The row is inserted; whether the e-mail leaves changes nothing.
Invite(u) ==
  /\ Cardinality(invites) < MaxInvites
  /\ invites' = invites \union {[id |-> Cardinality(invites) + 1, email |-> u, state |-> "open"]}
  /\ UNCHANGED <<members, rows, request, uses, crossed>>

\* An open invitation ends after seven days.
Expire(i) ==
  /\ i.state = "open"
  /\ invites' = (invites \ {i}) \union {[i EXCEPT !.state = "expired"]}
  /\ UNCHANGED <<members, rows, request, uses, crossed>>

-----------------------------------------------------------------------------
(* acceptInvite() *)

\* Mutant of MayAccept: an accepted invitation may be accepted again.
MayAcceptAgain(u, i) == i.state # "expired" /\ i.email = u

\* The invitation is open, and the user it was sent to is signed in.
MayAccept(u, i) == i.state = "open" /\ i.email = u

\* The checks before the transaction.
Accept(r, u, i) ==
  /\ request[r].pc = "idle" /\ MayAccept(u, i)
  /\ request' = [request EXCEPT ![r] = [pc |-> "accepting", user |-> u, invite |-> i.id]]
  /\ crossed' = IF \E q \in Requests : request[q].pc \in {"accepting", "joining"} /\ request[q].user = u
                THEN crossed \union {u} ELSE crossed
  /\ UNCHANGED <<invites, members, rows, uses>>

\* Mutant of Joins: a member who accepts another invitation is inserted again.
JoinsAlways(u) == TRUE

\* No membership of the user is found.
Joins(u) == MembersOf(u) = {}

\* The transaction has looked for a membership.
Look(r) ==
  /\ request[r].pc = "accepting"
  /\ request' = [request EXCEPT ![r] = [pc |-> "joining", user |-> @.user, invite |-> @.invite,
                                        joins |-> Joins(@.user)]]
  /\ UNCHANGED <<invites, members, rows, uses, crossed>>

\* It inserts one if there was none, and marks the invitation, whatever became of it.
Join(r) == LET q == request[r] IN
  /\ q.pc = "joining"
  /\ IF q.joins
     THEN /\ rows < MaxRows /\ rows' = rows + 1
          /\ members' = members \union {[id |-> rows + 1, user |-> q.user, role |-> "member"]}
     ELSE UNCHANGED <<rows, members>>
  /\ invites' = {IF i.id = q.invite THEN [i EXCEPT !.state = "accepted"] ELSE i : i \in invites}
  /\ uses' = [uses EXCEPT ![q.invite] = @ + 1]
  /\ request' = [request EXCEPT ![r] = Idle]
  /\ UNCHANGED crossed

-----------------------------------------------------------------------------
(* removeMember() *)

\* One membership of the user is read: any of them.
FindMember(r, m) ==
  /\ request[r].pc = "idle"
  /\ request' = [request EXCEPT ![r] = [pc |-> "found", member |-> m]]
  /\ UNCHANGED <<invites, members, rows, uses, crossed>>

\* Mutant of MayRemove: the owners are not counted.
MayRemoveAny(m) == TRUE

\* The last owner stays.
MayRemove(m) == m.role = "owner" => Cardinality(Owners) > 1

CountOwners(r) == LET m == request[r].member IN
  /\ request[r].pc = "found"
  /\ request' = [request EXCEPT ![r] = IF MayRemove(m) THEN [pc |-> "removing", member |-> m] ELSE Idle]
  /\ UNCHANGED <<invites, members, rows, uses, crossed>>

\* The row that was read is deleted, by its id.
Remove(r) ==
  /\ request[r].pc = "removing"
  /\ members' = members \ {request[r].member}
  /\ request' = [request EXCEPT ![r] = Idle]
  /\ UNCHANGED <<invites, rows, uses, crossed>>

-----------------------------------------------------------------------------

Next ==
  \/ \E u \in Users : Invite(u)
  \/ \E i \in invites : Expire(i)
  \/ \E r \in Requests, u \in Users, i \in invites : Accept(r, u, i)
  \/ \E r \in Requests, m \in members : FindMember(r, m)
  \/ \E r \in Requests : Look(r) \/ Join(r) \/ CountOwners(r) \/ Remove(r)

Spec == Init /\ [][Next]_vars

-----------------------------------------------------------------------------
(* Properties *)

TypeOK ==
  /\ invites \subseteq Invitation /\ members \subseteq Member /\ rows \in 1..MaxRows
  /\ uses \in [1..MaxInvites -> 0..Cardinality(Requests)] /\ crossed \subseteq Users
  /\ \A r \in Requests : request[r].pc \in {"idle", "accepting", "joining", "found", "removing"}

\* "At least one owner per workspace": whoever is removed meanwhile, and however many
\* invitations to their own workspace its creator accepts at once.  They stay the owner,
\* and are never a member twice: the row that a removal finds is the one it must not delete.
OwnerKept == Owners # {} /\ MembersOf(Owner) = Owners

\* "Single-use invite token", as far as the code keeps it: only acceptances of one user
\* that overlap make an invitation serve twice.
SingleUseUnlessCrossed == \A i \in invites : uses[i.id] <= 1 \/ i.email \in crossed

\* A member removed is out: nobody but a user whose acceptances overlapped holds a second
\* membership that outlives the removal of the first.
RemovedIsOut ==
  [][\A r \in Requests, u \in Users :
       Remove(r) /\ request[r].member.user = u /\ request[r].member \in members
         => MembersOf(u)' = {} \/ u \in crossed]_vars
=============================================================================

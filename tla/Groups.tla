------------------------------- MODULE Groups -------------------------------
(***************************************************************************)
(* The members of one group: roles, leaving, removal and bans, invite      *)
(* requests and invite links.  A request of the HTTP API is one            *)
(* transaction at READ COMMITTED: what it reads and checks (an action      *)
(* "Check...") may be stale when its statements run and commit.            *)
(***************************************************************************)
EXTENDS Naturals, FiniteSets

CONSTANTS
    Person,
    FirstRoles, \* the group when the requests arrive
    Link,       \* invite links, "new" before create_invite_link
    FirstLinks,
    MaxUses,    \* max_uses of the links
    MaxMembers, \* MAX_GROUP_MEMBERS
    Task        \* requests of the HTTP API

Role == {"none", "member", "moderator", "admin", "owner"}
Rank == [none |-> 0, member |-> 1, moderator |-> 2, admin |-> 3, owner |-> 4]

ASSUME GroupAssumption ==
    /\ FirstRoles \in [Person -> Role]
    /\ FirstLinks \in [Link -> {"new", "active"}]
    /\ MaxUses \in Nat \ {0} /\ MaxMembers \in Nat

VARIABLES
    role,       \* chat_members, "none" without a row
    exists,     \* the row of chats
    banned,     \* people with an active ban_temp or ban_perma
    invited,    \* group_invite_requests.status of each person
    link,       \* group_invite_links: is_active
    uses,       \* uses_count
    entered,    \* history: people who became members by each link, with repetitions
    task        \* what each request has checked

memberVars == <<role, exists, banned, invited>>
linkVars == <<link, uses, entered>>
groupVars == <<memberVars, linkVars, task>>

NewTask == [does |-> "nothing"]
Over == [does |-> "over"]

GroupTypeOK ==
    /\ role \in [Person -> Role]
    /\ exists \in BOOLEAN
    /\ banned \subseteq Person
    /\ invited \in [Person -> {"none", "pending", "accepted", "declined"}]
    /\ link \in [Link -> {"new", "active", "off"}]
    /\ uses \in [Link -> Nat] /\ entered \in [Link -> Nat]
    /\ DOMAIN task = Task

GroupInit ==
    /\ role = FirstRoles /\ exists = TRUE /\ banned = {}
    /\ invited = [p \in Person |-> "none"]
    /\ link = FirstLinks
    /\ uses = [l \in Link |-> 0] /\ entered = [l \in Link |-> 0]
    /\ task = [k \in Task |-> NewTask]

Insiders == {p \in Person : role[p] # "none"}
Owners == {p \in Person : role[p] = "owner"}

Checked(k, what) ==
    /\ task[k] = NewTask
    /\ task' = [task EXCEPT ![k] = what]
    /\ UNCHANGED <<memberVars, linkVars>>
FinishTask(k) == task' = [task EXCEPT ![k] = Over]

(* authorize_group_action: a minimal role, and a higher one than the target's. *)
Authorized(a, least) == role[a] # "none" /\ Rank[role[a]] >= Rank[least]
MayManage(a, p, least) ==
    /\ Authorized(a, least)
    /\ role[p] # "none"
    /\ a # p => Rank[role[a]] > Rank[role[p]]

-----------------------------------------------------------------------------
(* set_group_member_role. *)
CheckRole(k, a, p, r) ==
    /\ role[a] # "none" /\ role[p] \notin {"none", r} /\ r # "none"
    /\ IF r = "owner" THEN role[a] = "owner" /\ p # a
       ELSE /\ MayManage(a, p, "admin")
            /\ role[p] # "owner"
            /\ r = "admin" => role[a] = "owner"
    /\ Checked(k, [does |-> "role", by |-> a, of |-> p, to |-> r])

(* Each UPDATE names the row again; how many rows it found is not asked. *)
SetRole(k) ==
    /\ task[k].does = "role"
    /\ LET a == task[k].by  p == task[k].of  r == task[k].to IN
        role' = [q \in Person |->
                    IF q = p /\ role[p] # "none" THEN r
                    ELSE IF r = "owner" /\ q = a /\ role[a] = "owner" THEN "admin"
                    ELSE role[q]]
    /\ FinishTask(k)
    /\ UNCHANGED <<exists, banned, invited, linkVars>>

(* leave_group_chat: the only owner dissolves the group or hands it over. *)
CheckLeave(k, a) ==
    /\ role[a] # "none"
    /\ LET others == Insiders \ {a}
           highest == {p \in others : \A q \in others : Rank[role[p]] >= Rank[role[q]]}
       IN IF Owners # {a}
          THEN Checked(k, [does |-> "leave", of |-> a, heirs |-> {}])
          ELSE IF others = {} THEN Checked(k, [does |-> "dissolve"])
          ELSE \E heir \in highest : Checked(k, [does |-> "leave", of |-> a, heirs |-> {heir}])

LeaveGroup(k) ==
    /\ task[k].does = "leave"
    /\ role' = [p \in Person |-> IF p = task[k].of THEN "none"
                                 ELSE IF p \in task[k].heirs \cap Insiders THEN "owner"
                                 ELSE role[p]]
    /\ FinishTask(k)
    /\ UNCHANGED <<exists, banned, invited, linkVars>>

(* The members, then the chat with all that refers to it. *)
Dissolve(k) ==
    /\ task[k].does = "dissolve"
    /\ exists' = FALSE
    /\ role' = [p \in Person |-> "none"]
    /\ invited' = [p \in Person |-> "none"]
    /\ link' = [l \in Link |-> IF link[l] = "active" THEN "off" ELSE link[l]]
    /\ FinishTask(k)
    /\ UNCHANGED <<banned, uses, entered>>

(* remove_group_member, and apply_group_member_sanction, which commits the  *)
(* ban before the removal.                                                  *)
CheckRemove(k, a, p, does) ==
    /\ a # p /\ MayManage(a, p, "moderator")
    /\ Checked(k, [does |-> does, of |-> p])

Ban(k) ==
    /\ task[k].does = "ban"
    /\ banned' = banned \cup {task[k].of}
    /\ task' = [task EXCEPT ![k].does = "remove"]
    /\ UNCHANGED <<role, exists, invited, linkVars>>

Remove(k) ==
    /\ task[k].does = "remove"
    /\ role' = [role EXCEPT ![task[k].of] = "none"]
    /\ FinishTask(k)
    /\ UNCHANGED <<exists, banned, invited, linkVars>>

-----------------------------------------------------------------------------
(* add_group_members: the permissions of the group and the privacy of the   *)
(* candidate decide; a candidate who must be asked gets a request.          *)
CheckAdd(k, a, p, does) ==
    /\ a # p /\ role[a] # "none" /\ p \notin banned
    /\ Cardinality(Insiders) < MaxMembers
    /\ Checked(k, [does |-> does, of |-> p])

(* INSERT ... ON CONFLICT DO NOTHING; without the chat it is an error. *)
Enter(p) == role' = IF exists /\ role[p] = "none" THEN [role EXCEPT ![p] = "member"] ELSE role

Add(k) ==
    /\ task[k].does = "add"
    /\ Enter(task[k].of)
    /\ FinishTask(k)
    /\ UNCHANGED <<exists, banned, invited, linkVars>>

Invite(k) ==
    /\ task[k].does = "invite"
    /\ invited' = IF exists THEN [invited EXCEPT ![task[k].of] = "pending"] ELSE invited
    /\ FinishTask(k)
    /\ UNCHANGED <<role, exists, banned, linkVars>>

(* accept_group_invite_request and decline_group_invite_request: the UPDATE *)
(* names the request, not its status.                                       *)
CheckAnswer(k, p, does) ==
    /\ invited[p] = "pending"
    /\ does = "accept" => p \notin banned
    /\ Checked(k, [does |-> does, of |-> p])

Accept(k) ==
    /\ task[k].does = "accept"
    /\ Enter(task[k].of)
    /\ invited' = IF exists THEN [invited EXCEPT ![task[k].of] = "accepted"] ELSE invited
    /\ FinishTask(k)
    /\ UNCHANGED <<exists, banned, linkVars>>

Decline(k) ==
    /\ task[k].does = "decline"
    /\ invited' = IF exists THEN [invited EXCEPT ![task[k].of] = "declined"] ELSE invited
    /\ FinishTask(k)
    /\ UNCHANGED <<role, exists, banned, linkVars>>

-----------------------------------------------------------------------------
(* create_invite_link and revoke_invite_links. *)
CheckLink(k, a, does) ==
    /\ Authorized(a, "admin")
    /\ Checked(k, [does |-> does])

CreateLink(k, l) ==
    /\ task[k].does = "create_link" /\ exists /\ link[l] = "new"
    /\ link' = [m \in Link |-> IF m = l THEN "active"
                               ELSE IF link[m] = "active" THEN "off" ELSE link[m]]
    /\ FinishTask(k)
    /\ UNCHANGED <<memberVars, uses, entered>>

RevokeLinks(k) ==
    /\ task[k].does = "revoke_links"
    /\ link' = [l \in Link |-> IF link[l] = "active" THEN "off" ELSE link[l]]
    /\ FinishTask(k)
    /\ UNCHANGED <<memberVars, uses, entered>>

(* consume_invite_link: resolved and checked first. *)
CheckJoin(k, p, l) ==
    /\ exists /\ link[l] = "active" /\ uses[l] < MaxUses
    /\ role[p] = "none" /\ p \notin banned
    /\ Checked(k, [does |-> "join", of |-> p, with |-> l])

(* Broken: a member who got no use of the link stays. *)
JoinWithoutUse(k) ==
    /\ task[k].does = "join"
    /\ LET p == task[k].of  l == task[k].with IN
        IF exists /\ role[p] = "none"
        THEN /\ role' = [role EXCEPT ![p] = "member"]
             /\ uses' = IF link[l] = "active" /\ uses[l] < MaxUses
                        THEN [uses EXCEPT ![l] = @ + 1] ELSE uses
             /\ entered' = [entered EXCEPT ![l] = @ + 1]
        ELSE UNCHANGED <<role, uses, entered>>
    /\ FinishTask(k)
    /\ UNCHANGED <<exists, banned, invited, link>>

(* The member is inserted, a use is taken, and the member is deleted again  *)
(* when there was none.                                                     *)
Join(k) ==
    /\ task[k].does = "join"
    /\ LET p == task[k].of  l == task[k].with IN
        IF exists /\ role[p] = "none" /\ link[l] = "active" /\ uses[l] < MaxUses
        THEN /\ role' = [role EXCEPT ![p] = "member"]
             /\ uses' = [uses EXCEPT ![l] = @ + 1]
             /\ entered' = [entered EXCEPT ![l] = @ + 1]
        ELSE UNCHANGED <<role, uses, entered>>
    /\ FinishTask(k)
    /\ UNCHANGED <<exists, banned, invited, link>>

GroupNext ==
    \E k \in Task :
        \/ \E a, p \in Person :
            \/ \E r \in Role : CheckRole(k, a, p, r)
            \/ \E does \in {"remove", "ban"} : CheckRemove(k, a, p, does)
            \/ \E does \in {"add", "invite"} : CheckAdd(k, a, p, does)
        \/ \E p \in Person :
            \/ CheckLeave(k, p)
            \/ \E does \in {"accept", "decline"} : CheckAnswer(k, p, does)
            \/ \E does \in {"create_link", "revoke_links"} : CheckLink(k, p, does)
            \/ \E l \in Link : CheckJoin(k, p, l)
        \/ SetRole(k) \/ LeaveGroup(k) \/ Dissolve(k) \/ Ban(k) \/ Remove(k)
        \/ Add(k) \/ Invite(k) \/ Accept(k) \/ Decline(k)
        \/ RevokeLinks(k) \/ Join(k) \/ \E l \in Link : CreateLink(k, l)

GroupSpec == GroupInit /\ [][GroupNext]_groupVars

-----------------------------------------------------------------------------
(* A link lets in as many people as it has uses, each use pays for one of   *)
(* them, and a link that was revoked, replaced or used up after it was      *)
(* resolved lets nobody in: "Returns the chat_id if the link is valid and   *)
(* the user was added, or None".                                            *)
LinkPays ==
    /\ \A l \in Link : entered[l] = uses[l] /\ uses[l] <= MaxUses

(* "If the leaving member is the only owner, we must either hand ownership  *)
(* to a successor or dissolve the group": a group with members is owned.    *)
GroupHasOwner == Insiders # {} => Owners # {}
=============================================================================

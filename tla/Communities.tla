----------------------------- MODULE Communities -----------------------------
(***************************************************************************)
(* Communities and their members (backend/src/api/routes/communities.ts,    *)
(* requireCommunityRole of middleware/auth.ts): requests that create,       *)
(* rename and soft-delete communities and add, change and remove members.   *)
(*                                                                         *)
(* Each statement of a handler is a step of its own; between two of them    *)
(* other requests run.  Only the statements of db.transaction go together.  *)
(* A request slot is used again and again.                                  *)
(***************************************************************************)
EXTENDS Naturals

CONSTANTS
    Community,     \* identifiers of communities
    Address,       \* Stellar addresses
    Name,          \* community names
    ScriptFold,    \* ScriptFold[n]: normalizeCommunityName(n), of JavaScript
    DatabaseFold,  \* DatabaseFold[n]: LOWER(BTRIM(n)), of Postgres
    Request,       \* request slots
    Load           \* loads: the slots, communities, addresses and names requests may use

VARIABLES
    community,   \* the rows of communities: state "absent", "active" or "deleted"
    member,      \* the rows of members: a role or NoRole, and whether removed
    odd,         \* communities that were ever given a name the two foldings tell apart
    req,         \* req[q]: the request in slot q and how far it has come
    load         \* the load of this behaviour, which never changes

vars == <<community, member, odd, req, load>>

Role == {"admin", "treasurer", "member"}
NoRole == "none"
NoName == "unnamed"
NoRow == [role |-> NoRole, removed |-> FALSE]

\* Roles that requireCommunityRole admits.
Admits == [rename |-> {"admin", "treasurer"}, avatar |-> {"admin", "treasurer"},
           delete |-> {"admin"}, add |-> {"admin"}, setRole |-> {"admin"}]

\* The statement a request runs once it is authorised.
FirstStep == [create |-> "find", rename |-> "read", avatar |-> "write",
              delete |-> "write", add |-> "read", setRole |-> "write",
              remove |-> "write"]

Active == {c \in Community : community[c].state = "active"}

\* A name that both foldings make the same.
Plain(n) == ScriptFold[n] = DatabaseFold[n]

RoleIn(c, a) == IF member[c][a].removed THEN NoRole ELSE member[c][a].role

Init ==
    /\ community = [c \in Community |-> [state |-> "absent", name |-> NoName]]
    /\ member = [c \in Community |-> [a \in Address |-> NoRow]]
    /\ odd = {}
    /\ req = [q \in Request |-> [pc |-> "idle", kind |-> "none"]]
    /\ load \in Load

-----------------------------------------------------------------------------
(* A request arrives and is authorised *)

Take(q, r) == req' = [req EXCEPT ![q] = r]
Goto(q, pc) == req' = [req EXCEPT ![q].pc = pc]
Rows == <<community, member, odd>>

\* The answer is sent and the slot is free.
Answered(q) == Take(q, [pc |-> "idle", kind |-> "none"])

Arrive(q) ==
    /\ req[q].pc = "idle"
    /\ q \in load.slots
    /\ \E who \in load.addresses :
        \/ \E n \in load.names :
            Take(q, [pc |-> "find", kind |-> "create", who |-> who, name |-> n])
        \/ \E c \in load.communities, n \in load.names \cup {NoName} :
            Take(q, [pc |-> "auth", kind |-> "rename", who |-> who, in |-> c, name |-> n])
        \/ \E c \in load.communities, kind \in {"delete", "avatar"} :
            Take(q, [pc |-> "auth", kind |-> kind, who |-> who, in |-> c])
        \/ \E c \in load.communities, a \in load.addresses, role \in Role, kind \in {"add", "setRole"} :
            Take(q, [pc |-> "auth", kind |-> kind, who |-> who, in |-> c,
                     address |-> a, role |-> role])
        \/ \E c \in load.communities, a \in load.addresses :
            Take(q, [pc |-> IF a = who THEN "write" ELSE "auth", kind |-> "remove",
                     who |-> who, in |-> c, address |-> a])
    /\ UNCHANGED Rows

\* A member may always remove themselves; for the rest the role decides.
MayDo(r) ==
    RoleIn(r.in, r.who) \in IF r.kind = "remove" THEN {"admin"} ELSE Admits[r.kind]

Authorise(q) ==
    /\ req[q].pc = "auth"
    /\ MayDo(req[q])
    /\ Goto(q, FirstStep[req[q].kind])
    /\ UNCHANGED Rows

Forbid(q) ==
    /\ req[q].pc = "auth"
    /\ ~MayDo(req[q])
    /\ Answered(q)
    /\ UNCHANGED Rows

-----------------------------------------------------------------------------
(* What is read before writing *)

\* The PUT and POST-member handlers first look for the community; a PUT whose new
\* name differs from the present one goes on to look for that name.
\* Slip: deleted communities are found too.
ReadDeleted(q) ==
    /\ req[q].pc = "read"
    /\ IF community[req[q].in].state # "absent" THEN Goto(q, "write") ELSE Answered(q)
    /\ UNCHANGED Rows

Read(q) ==
    /\ req[q].pc = "read"
    /\ LET r == req[q]
           same == r.kind = "add" \/ r.name = NoName
                     \/ ScriptFold[r.name] = ScriptFold[community[r.in].name]
       IN  IF r.in \in Active THEN Goto(q, IF same THEN "write" ELSE "find")
                              ELSE Answered(q)
    /\ UNCHANGED Rows

\* findCommunityByNormalizedName, with excludeId for a PUT: the stored names are folded
\* by the database, the name looked for by the program.
\* Slip: the community's own row is not excluded, and other case is another name.
ExactlyNamed(r) == {c \in Active : community[c].name = r.name}
SameName(r) ==
    {c \in Active : /\ DatabaseFold[community[c].name] = ScriptFold[r.name]
                    /\ r.kind = "rename" => c # r.in}

Find(q) ==
    /\ req[q].pc = "find"
    /\ IF SameName(req[q]) = {} THEN Goto(q, "write") ELSE Answered(q)
    /\ UNCHANGED Rows

-----------------------------------------------------------------------------
(* Writing and answering *)

\* The constraint communities_name_key: exact names, deleted communities included.
Taken(n) == \E c \in Community : community[c].state # "absent" /\ community[c].name = n

\* c is given the name n.
Remember(c, n) == odd' = IF Plain(n) THEN odd ELSE odd \cup {c}

Write(q, kind) == req[q].pc = "write" /\ req[q].kind = kind /\ Answered(q)

Create(q) ==
    /\ Write(q, "create")
    /\ ~Taken(req[q].name)
    /\ \E c \in load.communities :
        /\ community[c].state = "absent"
        /\ community' = [community EXCEPT ![c] = [state |-> "active", name |-> req[q].name]]
        /\ member' = [member EXCEPT ![c][req[q].who] = [role |-> "admin", removed |-> FALSE]]
        /\ Remember(c, req[q].name)

\* The UPDATE of PUT does not look at deleted_at.
Rename(q) ==
    LET c == req[q].in
        n == IF req[q].name = NoName THEN community[c].name ELSE req[q].name
    IN  /\ Write(q, "rename")
        /\ n = community[c].name \/ ~Taken(n)
        /\ community' = [community EXCEPT ![c].name = n]
        /\ Remember(c, n)
        /\ UNCHANGED member

\* The constraint is violated: 409 from the catch block.
NameTaken(q) ==
    /\ Write(q, "create") \/ Write(q, "rename")
    /\ Taken(req[q].name)
    /\ req[q].kind = "rename" => req[q].name # community[req[q].in].name
    /\ UNCHANGED Rows

Delete(q) ==
    /\ Write(q, "delete")
    /\ IF req[q].in \in Active
       THEN community' = [community EXCEPT ![req[q].in].state = "deleted"]
       ELSE UNCHANGED community
    /\ UNCHANGED <<member, odd>>

SetAvatar(q) == Write(q, "avatar") /\ UNCHANGED Rows

AddMember(q) ==
    /\ Write(q, "add")
    /\ member' = [member EXCEPT ![req[q].in][req[q].address] =
                    [role |-> req[q].role, removed |-> FALSE]]
    /\ UNCHANGED <<community, odd>>

\* Changes q's row of members, when it is there and not removed; else 404.
OnMember(q, new) ==
    member' = IF RoleIn(req[q].in, req[q].address) = NoRole THEN member
              ELSE [member EXCEPT ![req[q].in][req[q].address] = new]

SetRole(q) ==
    /\ Write(q, "setRole")
    /\ OnMember(q, [role |-> req[q].role, removed |-> FALSE])
    /\ UNCHANGED <<community, odd>>

RemoveMember(q) ==
    /\ Write(q, "remove")
    /\ OnMember(q, [member[req[q].in][req[q].address] EXCEPT !.removed = TRUE])
    /\ UNCHANGED <<community, odd>>

\* A statement fails: 500, nothing is written.
Fail(q) ==
    /\ req[q].pc # "idle"
    /\ Answered(q)
    /\ UNCHANGED Rows

-----------------------------------------------------------------------------

Next ==
    /\ UNCHANGED load
    /\ \E q \in Request :
        \/ Arrive(q) \/ Authorise(q) \/ Forbid(q) \/ Read(q) \/ Find(q)
        \/ Create(q) \/ Rename(q) \/ NameTaken(q) \/ Delete(q) \/ SetAvatar(q)
        \/ AddMember(q) \/ SetRole(q) \/ RemoveMember(q) \/ Fail(q)

Spec == Init /\ [][Next]_vars

-----------------------------------------------------------------------------
(* Properties *)

\* The tables have their types; a row of members belongs to a community that was created.
TypeOK ==
    /\ community \in [Community -> [state : {"absent", "active", "deleted"},
                                    name : Name \cup {NoName}]]
    /\ member \in [Community -> [Address -> [role : Role \cup {NoRole}, removed : BOOLEAN]]]
    /\ \A q \in Request : req[q].pc \in {"idle", "auth", "read", "find", "write"}
    /\ \A c \in Community : community[c].state = "absent" => member[c] = [a \in Address |-> NoRow]
    /\ odd \subseteq Community
    /\ load \in Load

\* Requests follow one another.
InTurn == \E q \in Request : load.slots = {q}

\* The doc comments of POST and PUT: a name is unique among active communities, in
\* the sense of normalizeCommunityName.
NamesApart(C) ==
    \A c, d \in C : ScriptFold[community[c].name] = ScriptFold[community[d].name] => c = d
NamesDiffer == NamesApart(Active)

\* While requests follow one another, no sequence of creating, renaming and deleting
\* gives one name to two active communities that only ever had names on which the two
\* foldings agree.  Others do get one name: the search misses them, and a PUT that only
\* changes case does not search.
NamesDifferInTurn == InTurn => NamesApart(Active \ odd)

\* The doc comments of PUT and POST members answer 404 for a deleted community.  While
\* requests follow one another its name and state stay, and nobody becomes a member of
\* it, for the first time or again, though the UPDATE and the INSERT that could do so do
\* not look at deleted_at.  (Members it has may still be given roles and be removed.)
GoneIsLeftAlone ==
    [][InTurn => \A c \in Community : community[c].state = "deleted" =>
          /\ community'[c] = community[c]
          /\ \A a \in Address : RoleIn(c, a) = NoRole => RoleIn(c, a)' = NoRole]_vars

=============================================================================

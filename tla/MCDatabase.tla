------------------------------ MODULE MCDatabase ------------------------------
(***************************************************************************)
(* The database: how its schema is migrated, and how requests change the       *)
(* tables of communities and members.  They share no state, so each behaviour  *)
(* is one component's, named by part, while the other rests: the run explores  *)
(* the sum of their states.                                                   *)
(***************************************************************************)
EXTENDS Migrations, TLC

CONSTANTS
    old1, new1, c1, c2, c2edited, c3, c4,                     \* releases and files
    Community, Address, Name, ScriptFold, DatabaseFold,       \* of Communities
    Request, Load,
    Foo, foo, Odos, odos, odosFinal, g1, g2, a1, a2, q1, q2                     \* their members

VARIABLES part, community, member, odd, req, load

Handlers == INSTANCE Communities

schema == <<table, applied, effects, lock, run>>
handlers == <<community, member, odd, req, load>>

DatabaseInit ==
    /\ part \in {"schema", "handlers"}
    /\ Init /\ Handlers!Init
    /\ part = "schema" => load.slots = {q1}

DatabaseNext ==
    /\ UNCHANGED part
    /\ \/ part = "schema" /\ Next /\ UNCHANGED handlers
       \/ part = "handlers" /\ Handlers!Next /\ UNCHANGED schema

\* What rests has nothing enabled that is treated fairly.
DatabaseSpec ==
    /\ DatabaseInit /\ [][DatabaseNext]_<<part, schema, handlers>>
    /\ Fairness

-----------------------------------------------------------------------------
(* Values of the constants *)

\* old1 has three files; new1 has a fourth, and its second file has been edited.
TwoReleases == (old1 :> <<c1, c2, c3>>) @@ (new1 :> <<c1, c2edited, c3, c4>>)
OwnDown == (old1 :> 1..3) @@ (new1 :> 1..4)

\* Foo and foo are one name to both.  Odos and odosFinal are one name to the program, which
\* writes the last letter of a Greek word as a final sigma; the database writes odos.
Script == [n \in Name |-> CASE n = Foo -> foo [] n = Odos -> odosFinal [] OTHER -> n]
Database == [n \in Name |-> CASE n = Foo -> foo [] n = Odos -> odos [] OTHER -> n]

\* One client that uses all names, and two that share a community and its members.
NamesAndMembers ==
    {[slots |-> {q1}, communities |-> {g1, g2}, addresses |-> {a1}, names |-> Name],
     [slots |-> {q1, q2}, communities |-> {g1}, addresses |-> {a1, a2}, names |-> {Foo}]}

\* Two clients that create communities.
TwoCreators ==
    {[slots |-> Request, communities |-> Community, addresses |-> Address, names |-> Name]}

-----------------------------------------------------------------------------
(* Properties, with those of Migrations *)

\* Communities: in turn, no sequence of requests gives one name to two active communities
\* whose names the two foldings have always treated alike.
NamesDifferInTurn == Handlers!NamesDifferInTurn

\* Communities: in turn, a deleted community keeps its name and state and nobody joins it.
GoneIsLeftAlone == Handlers!GoneIsLeftAlone

-----------------------------------------------------------------------------
(* What a comment says and the code does not do *)

\* Communities: active communities have different names, also when requests overlap.
NamesDiffer == part = "handlers" => Handlers!NamesDiffer

=============================================================================

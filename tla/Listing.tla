-------------------------------- MODULE Listing --------------------------------
(***************************************************************************)
(* Reading a list page by page while it changes: the paginated endpoints of    *)
(* backend/src/api/routes, what api/utils/http.ts makes of their parameters,   *)
(* and a reader who turns pages the way                                      *)
(* frontend/src/hooks/usePagination.ts does.                                 *)
(*                                                                         *)
(* Every endpoint counts the rows and reads a page of them in two statements,  *)
(* and sorts by one column, so rows with equal values come in any order.  Rows *)
(* are numbered as they were inserted.                                        *)
(*                                                                         *)
(* Offers and holders of an asset are read from Horizon, which remembers the   *)
(* last row it returned and not how many (backend/src/contracts: dex.ts,       *)
(* assets.ts).                                                              *)
(***************************************************************************)
EXTENDS Naturals, SequencesExt

CONSTANTS
    MaxRows,        \* bound: rows inserted
    MaxKey,         \* bound: values of the column that is sorted by
    DefaultLimit, MaxLimit

VARIABLES
    endpoint,       \* the list that is read
    key,            \* key[n]: the value row n is sorted by
    there,          \* the rows a query finds
    inserted,       \* how many rows there have been
    walk,           \* what the reader asks for, has been told and has seen
    history         \* of the walk: rows that stayed, what happened meanwhile

vars == <<endpoint, key, there, inserted, walk, history>>

-----------------------------------------------------------------------------
(* Endpoints: the order of rows, whether a malformed page or limit is refused   *)
(* or replaced by the default, whether an offset can be given, what else can be *)
(* refused, whether rows can leave the list, and whether two of them can have   *)
(* been inserted at the same moment                                            *)

List == [order |-> "newest", strict |-> FALSE, offset |-> FALSE, refusals |-> {},
         leave |-> FALSE, ties |-> FALSE, cursor |-> FALSE]

\* Deleted communities leave.
CommunityList == [List EXCEPT !.strict = TRUE, !.offset = TRUE, !.leave = TRUE]
CommunitySearch == [List EXCEPT !.refusals = {400}, !.leave = TRUE]
MemberList == [List EXCEPT !.order = "oldest", !.refusals = {400}, !.leave = TRUE]
TokenList == [List EXCEPT !.strict = TRUE, !.refusals = {401, 403}]
TransactionHistory == [List EXCEPT !.refusals = {400, 404}]

\* A loan leaves the list of a status; its events may be inserted by one transaction.
LoanList == [List EXCEPT !.leave = TRUE]
LoanEvents == [List EXCEPT !.order = "oldest", !.ties = TRUE]

BalanceHistory == [List EXCEPT !.strict = TRUE, !.refusals = {400}]
LoansOfAddress == [List EXCEPT !.strict = TRUE, !.refusals = {400}]
LoansOfCommunity == [List EXCEPT !.strict = TRUE, !.refusals = {400}]
Leaderboard == [List EXCEPT !.order = "score", !.ties = TRUE]

\* getAccountOffers: by id, newer ones last.  getAssetHolders: by address.
AccountOffers == [List EXCEPT !.order = "oldest", !.leave = TRUE, !.cursor = TRUE]
AssetHolders == [AccountOffers EXCEPT !.order = "address"]

Endpoints ==
    {AccountOffers, AssetHolders,
     CommunityList, CommunitySearch, MemberList, TokenList, TransactionHistory, LoanList,
     LoanEvents, BalanceHistory, LoansOfAddress, LoansOfCommunity, Leaderboard}

-----------------------------------------------------------------------------
(* Parameters and what is told about them *)

\* A limit of 0 stands for any that is malformed or not positive.
ParsedLimit(asked) ==
    IF asked = 0 THEN DefaultLimit ELSE IF asked > MaxLimit THEN MaxLimit ELSE asked

\* Slip: pages are counted from 0.
FromZero(page, limit) == page * limit
Offset(page, limit) == (page - 1) * limit

\* parsePagination; with an offset, the page is the one that row is on.
ParsePagination(asked) ==
    LET limit == ParsedLimit(asked.limit)
        page == IF asked.page = 0 THEN 1 ELSE asked.page
    IN  IF asked.byOffset
        THEN [page |-> (asked.offset \div limit) + 1, limit |-> limit, offset |-> asked.offset]
        ELSE [page |-> page, limit |-> limit, offset |-> Offset(page, limit)]

Malformed(asked) == asked.page = 0 \/ asked.limit \notin 1..MaxLimit

\* Slip: a last page that is not full does not count.
FullPages(total, limit) == total \div limit

\* The pages of pageMeta.
Pages(total, limit) == (total + limit - 1) \div limit

\* LIMIT and OFFSET
PageOf(rows, at) == SubSeq(rows, at.offset + 1, Min({at.offset + at.limit, Len(rows)}))

-----------------------------------------------------------------------------
(* The list *)

Precedes(m, n) ==
    IF endpoint.order \in {"oldest", "address"} THEN key[m] < key[n] ELSE key[m] > key[n]

\* What ORDER BY may return.
Orders(rows) == {s \in SetToSeqs(rows) : \A i, j \in DOMAIN s : i < j => ~Precedes(s[j], s[i])}

Tied == \E m, n \in there : m # n /\ key[m] = key[n]

\* Keys of a new row: now, and for some lists the moment of the row before it.
NewKeys ==
    LET last == IF inserted = 0 THEN 0 ELSE key[inserted]
    IN  CASE endpoint.order = "score" -> 1..MaxKey
          [] endpoint.order = "address" -> (1..MaxRows) \ {key[n] : n \in 1..inserted}
          [] endpoint.order \in {"newest", "oldest"} /\ endpoint.ties /\ inserted > 0 -> {last, last + 1}
          [] OTHER -> {last + 1}

Reading == walk.pc \in {"counted", "turned"}

\* What happens after the walk is of no interest.
Note(rows, happened) ==
    /\ walk.pc \notin {"done", "refused"}
    /\ history' = [stayed |-> history.stayed \cap rows,
                   happened |-> IF Reading THEN history.happened \cup happened ELSE history.happened]

\* A new row; between the two statements of a request it counts as one that slipped in.
Insert ==
    /\ inserted < MaxRows
    /\ inserted' = inserted + 1
    /\ \E k \in NewKeys : key' = [key EXCEPT ![inserted + 1] = k]
    /\ there' = there \cup {inserted + 1}
    /\ Note(there', IF endpoint.order = "score" THEN {"moved"}
                    ELSE {"inserted"} \cup (IF walk.pc = "counted" THEN {"slippedIn"} ELSE {}))
    /\ UNCHANGED <<endpoint, walk>>

\* A row is deleted or does not match the filter any more, or it matches again (an
\* offer never).
LeaveOrReturn(n) ==
    /\ endpoint.leave
    /\ n \in there \/ endpoint # AccountOffers
    /\ there' = IF n \in there THEN there \ {n} ELSE there \cup {n}
    /\ Note(there', {"moved"})
    /\ UNCHANGED <<endpoint, key, inserted, walk>>

\* updateReputation
Rescore(n) ==
    /\ endpoint.order = "score"
    /\ \E k \in 1..MaxKey : key' = [key EXCEPT ![n] = k]
    /\ Note(there, {"moved"})
    /\ UNCHANGED <<endpoint, there, inserted, walk>>

-----------------------------------------------------------------------------
(* The requests of a reader *)

Init ==
    /\ endpoint \in Endpoints
    /\ key = [n \in 1..MaxRows |-> 0]
    /\ there = {}
    /\ inserted = 0
    /\ walk = [pc |-> "new", asked |-> [page |-> 1, limit |-> 1, byOffset |-> FALSE, offset |-> 0],
               total |-> 0, shown |-> <<>>, status |-> 0]
    /\ history = [stayed |-> {}, happened |-> {}]

\* What is refused before the database is asked for the list: a malformed parameter by
\* those that do not replace it, and what the endpoint has to refuse besides.
Refused(asked) ==
    \/ walk' = [walk EXCEPT !.pc = "refused", !.status = 400] /\ endpoint.strict /\ Malformed(asked)
    \/ \E status \in endpoint.refusals :
          walk' = [walk EXCEPT !.pc = "refused", !.status = status]

\* SELECT COUNT(*)
Counted(asked) ==
    walk' = [walk EXCEPT !.pc = "counted", !.asked = asked, !.total = Cardinality(there)]

\* The walk begins; what is malformed may be the page, the limit or both.
Open ==
    /\ walk.pc = "new" /\ ~endpoint.cursor
    /\ \E page \in {0, 1}, limit \in 0..MaxLimit + 1, byOffset \in {FALSE, endpoint.offset} :
          LET asked == [page |-> page, limit |-> limit, byOffset |-> byOffset, offset |-> 0]
          IN  \/ Refused(asked)
              \/ Counted(asked) /\ ~(endpoint.strict /\ Malformed(asked))
    /\ history' = [stayed |-> there, happened |-> {}]
    /\ UNCHANGED <<endpoint, key, there, inserted>>

\* nextPage, or the offset after what has been read.
Turned(at) ==
    [walk.asked EXCEPT !.page = at.page + 1, !.offset = at.offset + at.limit]

\* The page is read and shown; the reader turns it unless it is the last there is.
Select ==
    LET at == ParsePagination(walk.asked)
    IN  /\ walk.pc = "counted"
        /\ \E order \in Orders(there) :
              walk' = [walk EXCEPT
                  !.pc = IF at.page < Pages(walk.total, at.limit) THEN "turned" ELSE "done",
                  !.asked = Turned(at),
                  !.shown = @ \o PageOf(order, at)]
        /\ history' = IF Tied THEN [history EXCEPT !.happened = @ \cup {"ties"}] ELSE history
        /\ UNCHANGED <<endpoint, key, there, inserted>>

\* The next request: what was good enough for the first page is for this one, but the
\* community may have been deleted and the session may have ended.
AskNext ==
    /\ walk.pc = "turned" /\ ~endpoint.cursor
    /\ \/ Counted(walk.asked)
       \/ endpoint.refusals # {} /\ Refused(walk.asked)
    /\ UNCHANGED <<endpoint, key, there, inserted, history>>

\* The rows after the last one read.
AfterLast ==
    {n \in there : walk.shown = <<>> \/ Precedes(walk.shown[Len(walk.shown)], n)}

\* The whole walk is one call: limit(200), then page.next() until a page is not full.
\* A page that cannot be fetched ends it.
FetchPage ==
    /\ endpoint.cursor /\ walk.pc \in {"new", "turned"}
    /\ \/ \E order \in Orders(AfterLast) :
             LET page == PageOf(order, [offset |-> 0, limit |-> MaxLimit])
             IN  walk' = [walk EXCEPT !.pc = IF Len(page) < MaxLimit THEN "done" ELSE "turned",
                                      !.shown = @ \o page]
       \/ walk' = [walk EXCEPT !.pc = "refused", !.status = 502]
    /\ history' = IF walk.pc = "new" THEN [stayed |-> there, happened |-> {}] ELSE history
    /\ UNCHANGED <<endpoint, key, there, inserted>>

Next ==
    \/ Insert \/ Open \/ Select \/ AskNext \/ FetchPage
    \/ \E n \in 1..inserted : LeaveOrReturn(n) \/ Rescore(n)

Spec == Init /\ [][Next]_vars

-----------------------------------------------------------------------------
(* Properties *)

\* A reader who has turned all pages has seen every row that was there all along, unless
\* rows left, moved or were tied, or a row got in between a count and its page ahead of
\* the others.  On a list that did not change at all, no row came twice or out of order.
\* Of offers and holders he has seen those that stayed, once and in order, whatever
\* became of the others.
WalkIsComplete ==
    walk.pc = "done" =>
        /\ (\/ endpoint.cursor
            \/ /\ history.happened \cap {"moved", "ties"} = {}
               /\ ~("slippedIn" \in history.happened /\ endpoint.order = "newest"))
           => history.stayed \subseteq ToSet(walk.shown)
        /\ (endpoint.cursor \/ history.happened = {}) =>
              \A i, j \in DOMAIN walk.shown : i < j => Precedes(walk.shown[i], walk.shown[j])

=============================================================================

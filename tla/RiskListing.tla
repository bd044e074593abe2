----------------------------- MODULE RiskListing -----------------------------
(***************************************************************************)
(* Listing risks page by page while they come, go and change owner: the    *)
(* requests and workers of RiskApi, with clients that follow the "next"    *)
(* link of each page.  Pages are cut by offset and the query has no ORDER  *)
(* BY: the database returns rows in the order of their ids, the primary    *)
(* key, as InnoDB does for these queries.                                  *)
(***************************************************************************)
EXTENDS RiskApi, FiniteSets

CONSTANTS
    Queries,    \* client -> the arguments of its listings, NoVal if left out
    ApiLimit    \* API_LIMIT, the most rows a page may have

ASSUME ListingAssumption ==
    /\ RiskIds \subseteq Int /\ ApiLimit \in Nat \ {0}
    /\ \A c \in Clients : \A a \in Queries[c] :
        /\ a = [all |-> a.all, project |-> a.project, type |-> a.type,
                limit |-> a.limit]
        /\ a.all \in BOOLEAN /\ a.project \in Projects \cup {NoVal}
        /\ a.type \in TypeIds \cup {NoVal} /\ a.limit \in Int \cup {NoVal}

VARIABLE walk   \* client -> the listing it follows

listVars == <<vars, walk>>

(* seen are the rows listed so far.  History: what there was to list at    *)
(* the first page, and whether a row left or came since.                   *)
NoWalk == [by |-> NoVal, args |-> NoVal, page |-> 0, seen |-> {},
           first |-> {}, left |-> FALSE, came |-> FALSE]

ListInit == Init /\ walk = [c \in Clients |-> NoWalk]

Walking(c) == walk[c].page # 0

Listed(table, t, a) ==
    {i \in RiskIds :
        /\ table[i] # NoVal /\ table[i].project \in RiskScope(t, a)
        /\ a.type # NoVal => table[i].type = a.type}

Matching(c) == Listed(risks, walk[c].by, walk[c].args)

BadLimit(a) == a.limit # NoVal /\ a.limit < 1

PerPage(a) ==
    IF a.limit = NoVal \/ a.limit > ApiLimit THEN ApiLimit ELSE a.limit

Rank(i, rows) == Cardinality({j \in rows : j <= i})

(* Mutant of PageOf: the pages overlap by one row.                         *)
PageOverlapping(rows, page, per) ==
    {i \in rows : /\ (page - 1) * per <= Rank(i, rows)
                  /\ Rank(i, rows) <= page * per}

PageOf(rows, page, per) ==
    {i \in rows : /\ (page - 1) * per < Rank(i, rows)
                  /\ Rank(i, rows) <= page * per}

(* Not authorised, or a limit that is none; else the rows there are for    *)
(* page 1 to begin with.                                                   *)
StartList(c, t, a) ==
    /\ Ready(c) /\ ~Walking(c)
    /\ IF ~MayListRisks(t) THEN Refuse(c, 403) /\ UNCHANGED walk
       ELSE IF BadLimit(a) THEN Refuse(c, 400) /\ UNCHANGED walk
       ELSE /\ walk' = [walk EXCEPT ![c] =
                    [NoWalk EXCEPT !.by = t, !.args = a, !.page = 1,
                                   !.first = Listed(risks, t, a)]]
            /\ UNCHANGED vars

Page(c) == PageOf(Matching(c), walk[c].page, PerPage(walk[c].args))

(* A page after the first that has no rows is not found (404).             *)
NotFound(c) == Page(c) = {} /\ walk[c].page # 1

(* There is a link to a next page.                                         *)
HasNext(c) ==
    walk[c].page * PerPage(walk[c].args) < Cardinality(Matching(c))

ListPage(c) ==
    /\ Walking(c)
    /\ walk' = [walk EXCEPT ![c] =
            IF ~NotFound(c) /\ HasNext(c)
            THEN [walk[c] EXCEPT !.page = @ + 1, !.seen = @ \cup Page(c)]
            ELSE NoWalk]
    /\ UNCHANGED vars

(* What the listings under way have to put up with.                        *)
Watched(c) ==
    LET later == Listed(risks', walk[c].by, walk[c].args) IN
    [walk[c] EXCEPT !.left = @ \/ ~(Matching(c) \subseteq later),
                    !.came = @ \/ ~(later \subseteq Matching(c))]

Meanwhile ==
    walk' = [c \in Clients |-> IF Walking(c) THEN Watched(c) ELSE walk[c]]

(* A client follows one listing or makes other requests.                   *)
ListNext ==
    \/ \E c \in Clients :
        \/ ~Walking(c) /\ ClientStep(c) /\ Meanwhile
        \/ \E t \in Holds[c], a \in Queries[c] : StartList(c, t, a)
        \/ ListPage(c)
    \/ WorkerStep /\ Meanwhile

ListSpec == ListInit /\ [][ListNext]_listVars

-----------------------------------------------------------------------------
(* A page is listed: nothing else changes walk alone while it goes on.     *)
Listing(c) == Walking(c) /\ walk'[c] # walk[c] /\ UNCHANGED vars

(* What a listing is worth while the table changes: it repeats no row      *)
(* unless one came, ends in a page that is not there only after a row      *)
(* left, and when it ends otherwise has missed none of the rows there were *)
(* at its first page, unless one left meanwhile.                           *)
WalkFaithful ==
    [][\A c \in Clients : Listing(c) =>
        LET seen == walk[c].seen  page == Page(c) IN
        /\ ~walk[c].came => page \cap seen = {}
        /\ NotFound(c) => walk[c].left
        /\ walk[c].left \/ HasNext(c) \/ walk[c].first \subseteq seen \cup page
        ]_listVars

(* A reader is listed the risks of its own project only, as their owners   *)
(* are when the page is cut, unless it may list those of all projects.     *)
ListsOwnRows ==
    [][\A c \in Clients : Listing(c) =>
        \A i \in Page(c) :
            \/ walk[c].by.scope = "project"
                    /\ risks[i].project = walk[c].by.project
            \/ AnyProjectReader(walk[c].by)]_listVars

=============================================================================

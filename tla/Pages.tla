-------------------------------- MODULE Pages --------------------------------
(***************************************************************************)
(* A client that walks through the pages of an answer while the rows       *)
(* change: the contact export (services/contact_import_export.py), the     *)
(* events of a contact (services/api.py) and the members of a recipient    *)
(* list (services/recipient_lists.py).  A page is one query; nothing is    *)
(* kept between two pages but the cursor the client sends back.            *)
(***************************************************************************)
EXTENDS Naturals, FiniteSets, FiniteSetsExt

CONSTANTS MaxId,    \* rows have the ids 1..MaxId
          Limits    \* values of "limit"

ASSUME PagesAssumption == MaxId \in Nat /\ Limits \subseteq 1..500

RowId == 1..MaxId
\* The export goes up the ids, the events go down; the members have one page.
Walk == {"export", "events", "members"}

VARIABLES pgRow,     \* whether each row exists and passes the filters
          pgWalk,    \* which walk, with which limit, if one has begun
          pgCursor,  \* the last answer's next_cursor
          pgMore,    \* there was one, or has_more
          pgGot,     \* how often each row was returned
          pgAlways   \* ghost: rows that have passed the filters all along

pgVars == <<pgRow, pgWalk, pgCursor, pgMore, pgGot, pgAlways>>
NoCursor == 0
NotBegun == [of |-> "nothing", limit |-> 0]

PgTypeOK ==
    /\ pgRow \in [RowId -> {"none", "other", "match"}]
    /\ pgWalk \in [of : Walk, limit : Limits] \cup {NotBegun}
    /\ pgCursor \in RowId \cup {NoCursor} /\ pgMore \in BOOLEAN
    /\ pgGot \in [RowId -> Nat] /\ pgAlways \subseteq RowId

PgInit ==
    /\ pgRow \in [RowId -> {"none", "other", "match"}]
    /\ pgWalk = NotBegun /\ pgCursor = NoCursor /\ pgMore = TRUE
    /\ pgGot = [i \in RowId |-> 0] /\ pgAlways = {}

-----------------------------------------------------------------------------
\* A row is inserted; ids are drawn before the commit and need not appear in order.
InsertRow(i) ==
    /\ pgRow[i] = "none"
    /\ \E what \in {"other", "match"} : pgRow' = [pgRow EXCEPT ![i] = what]
    /\ UNCHANGED <<pgWalk, pgCursor, pgMore, pgGot, pgAlways>>

\* It begins or ceases to pass the filters.  An event stays what it is.
Refilter(i) ==
    /\ pgRow[i] # "none" /\ pgWalk.of # "events"
    /\ pgRow' = [pgRow EXCEPT ![i] = IF @ = "match" THEN "other" ELSE "match"]
    /\ pgAlways' = pgAlways \ {i}
    /\ UNCHANGED <<pgWalk, pgCursor, pgMore, pgGot>>

BeginWalk(of, limit) ==
    /\ pgWalk = NotBegun
    /\ pgWalk' = [of |-> of, limit |-> limit]
    /\ pgAlways' = {i \in RowId : pgRow[i] = "match"}
    /\ UNCHANGED <<pgRow, pgCursor, pgMore, pgGot>>

Matching == {i \in RowId : pgRow[i] = "match"}

\* The first n of ids as each walk orders them.
FirstUp(ids, n) == {i \in ids : Cardinality({j \in ids : j < i}) < n}
FirstDown(ids, n) == {i \in ids : Cardinality({j \in ids : j > i}) < n}

\* limit + 1 rows are read.  When that many are there, the cursor is the last of
\* the first limit rows, and those are returned.
AnswerPage(page, read, cursor) ==
    /\ pgMore' = (Cardinality(read) > pgWalk.limit)
    /\ pgCursor' = IF pgMore' THEN cursor ELSE NoCursor
    /\ pgGot' = [i \in RowId |-> pgGot[i] + (IF i \in page THEN 1 ELSE 0)]
    /\ UNCHANGED <<pgRow, pgWalk, pgAlways>>

\* Mutant: the cursor is the first row that was not returned.
NextUnreturned(page, read) == Max(read)

\* contacts[limit - 1].id
LastReturned(page, read) == Max(page)

\* export_contacts_for_client
ExportPage ==
    LET beyond == {i \in Matching : i > pgCursor}
        page == FirstUp(beyond, pgWalk.limit)
        read == FirstUp(beyond, pgWalk.limit + 1) IN
    /\ pgWalk.of = "export" /\ pgMore
    /\ AnswerPage(page, read, IF read = page THEN NoCursor ELSE LastReturned(page, read))

\* get_contact_history_for_client
EventsPage ==
    LET beyond == {i \in Matching : pgCursor = NoCursor \/ i < pgCursor}
        page == FirstDown(beyond, pgWalk.limit)
        read == FirstDown(beyond, pgWalk.limit + 1) IN
    /\ pgWalk.of = "events" /\ pgMore
    /\ AnswerPage(page, read, IF read = page THEN NoCursor ELSE Min(page))

\* get_recipient_list_members_for_client says that there is more and has no cursor.
MembersPage ==
    /\ pgWalk.of = "members" /\ pgMore
    /\ AnswerPage(FirstUp(Matching, pgWalk.limit), FirstUp(Matching, pgWalk.limit + 1), NoCursor)

PgNext ==
    \/ \E i \in RowId : InsertRow(i) \/ Refilter(i)
    \/ \E of \in Walk, limit \in Limits : BeginWalk(of, limit)
    \/ ExportPage \/ EventsPage
    \/ MembersPage /\ pgGot = [i \in RowId |-> 0]

PgSpec == PgInit /\ [][PgNext]_pgVars

-----------------------------------------------------------------------------
\* A walk that was told there is no more has returned every row that passed the
\* filters from its first page to its last, and none twice, whatever was inserted
\* or changed between two pages.
PgWalkComplete ==
    /\ \A i \in RowId : pgGot[i] <= 1
    /\ ~ pgMore => \A i \in pgAlways : pgGot[i] = 1

=============================================================================

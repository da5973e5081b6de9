---------------------------- MODULE StorageList ----------------------------
(***************************************************************************)
(* The unsorted pages of x/storage's StorageList, asked for one after the   *)
(* other by a client that hands back the key of each page for the next,     *)
(* while transactions write and delete entries in between.                  *)
(***************************************************************************)
EXTENDS Storage

CONSTANTS
    Prefixes,   \* index prefixes, as the range of indexes that have it:
                \* first, last, and whether the first is the prefix itself
    Requests    \* owner, prefix, filter (sizes that pass), reverse, offset, limit

VARIABLES
    listing,    \* the client: the request, and the key for the next page
    seen,       \* how often the client was given an index, in all its pages
    due         \* what it has to be given: matched when it began, and ever since

listVars == <<storageVars, listing, seen, due>>

NoKey == 0
Prefix == [first: Indexes, last: Indexes, exact: BOOLEAN]
Request == [owner: Owners, prefix: Prefixes, filter: SUBSET Sizes, reverse: BOOLEAN,
            offset: Nat, limit: Nat \ {0}]

ASSUME ListAssumption ==
    Prefixes \subseteq Prefix /\ Requests \subseteq Request /\ Requests # {}

-----------------------------------------------------------------------------
(* One page                                                                *)

\* the predicate on the data of the entries under the prefix
Matching(req) ==
    {i \in Stored(req.owner) :
        /\ req.prefix.first <= i /\ i <= req.prefix.last
        /\ entries[req.owner][i] \in req.filter}

\* the order of iteration
Before(req, i, j) == IF req.reverse THEN j < i ELSE i < j

\* the first n of S
Front(req, S, n) ==
    {i \in S : Cardinality({j \in S : Before(req, j, i)}) < n}

\* both ranges include the key they start from
From_Exclusive(req, key) == {i \in Matching(req) : Before(req, key, i)}
From(req, key) == {i \in Matching(req) : ~Before(req, i, key)}

\* what is left of an index behind the prefix: nothing of the prefix itself
KeyOf(req, i) == IF req.prefix.exact /\ i = req.prefix.first THEN NoKey ELSE i

\* the key of the first match that did not fit; an empty one says there is none
IsNextKey(req, rest, key) ==
    \/ rest = {} /\ key = NoKey
    \/ \E i \in rest : (\A j \in rest : ~Before(req, j, i)) /\ key = KeyOf(req, i)

\* A page of the matches S.  With count_total the iteration goes on behind the
\* page, and finds no other key: no index comes after one with an empty rest.
Page(req, S) ==
    LET page == Front(req, S, req.limit) IN
    /\ \E key \in Indexes \cup {NoKey} :
          /\ IsNextKey(req, S \ page, key)
          /\ listing' = [req |-> req, key |-> key]
    /\ seen' = [i \in Indexes |-> seen[i] + (IF i \in page THEN 1 ELSE 0)]

-----------------------------------------------------------------------------
(* The client                                                              *)

\* the first page, without a key; the offset is only for this one
FirstPage(req) ==
    /\ listing.key = NoKey /\ seen = [i \in Indexes |-> 0]
    /\ LET S == Matching(req) \ Front(req, Matching(req), req.offset) IN
          Page(req, S) /\ due' = S
    /\ UNCHANGED storageVars

NextPage ==
    /\ listing.key # NoKey
    /\ Page(listing.req, From(listing.req, listing.key))
    /\ UNCHANGED <<storageVars, due>>

Forget ==
    /\ listing.key = NoKey /\ seen # [i \in Indexes |-> 0]
    /\ seen' = [i \in Indexes |-> 0] /\ due' = {}
    /\ UNCHANGED <<storageVars, listing>>

\* what is deleted, or written so that it no longer passes, is no longer due
Write ==
    /\ Messages /\ UNCHANGED <<listing, seen>>
    /\ due' = due \cap Matching(listing.req)'

ListInit ==
    /\ StorageInit
    /\ listing = [req |-> CHOOSE req \in Requests : TRUE, key |-> NoKey]
    /\ seen = [i \in Indexes |-> 0] /\ due = {}

ListNext ==
    \/ Write
    \/ \E req \in Requests : FirstPage(req)
    \/ NextPage
    \/ Forget

ListSpec == ListInit /\ [][ListNext]_listVars

-----------------------------------------------------------------------------
(* Properties                                                              *)

\* No index is given twice, whatever is written between two pages; and the
\* client that has no key any more was given all that matched from the first page
\* to the last, except, backwards, the entry whose index is the prefix itself.
PagesAreExact ==
    /\ \A i \in Indexes : seen[i] <= 1
    /\ listing.key = NoKey =>
          \A i \in due : seen[i] = 1 \/ (listing.req.reverse /\ KeyOf(listing.req, i) = NoKey)

\* query_storage_list.go:41 promises "full pagination with offset/key-based
\* navigation and reverse iteration": at the end nothing is missing.
FullPagination == listing.key = NoKey => \A i \in due : seen[i] = 1
=============================================================================

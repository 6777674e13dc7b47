------------------------------- MODULE Paging -------------------------------
(***************************************************************************)
(* What GitLab's list endpoints return page by page: the items of the list *)
(* as it is at that moment, counted off in its order.  Nothing ties one    *)
(* page to the next: an item that leaves the list, or moves to its end,    *)
(* moves every later item one place up.                                    *)
(***************************************************************************)
EXTENDS Integers, FiniteSets

CONSTANT PageSize   \* per_page

ASSUME PagingAssumption == PageSize \in Nat \ {0}

\* A list gives each of its items the items ahead of it.
Page(list, n) ==
    {x \in DOMAIN list : Cardinality(list[x]) \in ((n - 1) * PageSize)..(n * PageSize - 1)}

\* parseNextCursor: no link to a next page.
IsLastPage(list, n) == Cardinality(DOMAIN list) <= n * PageSize
=============================================================================

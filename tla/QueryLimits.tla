------------------------------ MODULE QueryLimits ------------------------------
(***************************************************************************)
(* How many rows a query returns: the cap of query_sql, which probes with  *)
(* one row more than it will deliver, and the pages of an object type's    *)
(* instances. The operators have no state; a statement is its form, its    *)
(* own limit, and the number of rows it has without one.                   *)
(***************************************************************************)
EXTENDS Integers

CONSTANTS DefaultRows, RowsCap,   \* settings.query_default_max_rows, query_max_rows_cap
          MaxPageSize,            \* InstanceQueryBuilder._MAX_PAGE_SIZE
          MaxRows                 \* bound: numbers of rows

ASSUME LimitsAssumption ==
    /\ DefaultRows \in Nat \ {0} /\ RowsCap \in Nat \ {0}
    /\ MaxPageSize \in Nat \ {0}
    /\ MaxRows \in Nat

Least(a, b) == IF a < b THEN a ELSE b
Greatest(a, b) == IF a < b THEN b ELSE a

-----------------------------------------------------------------------------
(* query_sql.                                                              *)

(* min(max_rows or default, cap): no max_rows, and 0, ask for the default. *)
EffectiveRows(asked) == Least(IF asked = 0 THEN DefaultRows ELSE asked, RowsCap)

(* "select" carries its own limit, "union" is wrapped whole, "other" (a    *)
(* statement in parentheses) is passed on as it is. The limit is a number, *)
(* or one the rewriter cannot read: an expression, or FETCH FIRST.         *)
Forms  == {"select", "union", "other"}
Limits == {"none", "literal", "unread"}

(* What the statement itself asks for.                                     *)
Wanted(limit, n, rows) == IF limit = "none" THEN rows ELSE Least(n, rows)

(* Mutant: the probe has no row to spare.                                  *)
FetchedToCap(form, limit, n, rows, cap) ==
    IF form = "select" /\ limit = "unread" THEN Least(cap, rows)
    ELSE IF form = "other" THEN Wanted(limit, n, rows)
    ELSE Least(cap, Wanted(limit, n, rows))

(* _ensure_limit, and the rows that the rewritten statement fetches: the   *)
(* lower of its limit and cap + 1; cap + 1 in place of a limit not read.   *)
Fetched(form, limit, n, rows, cap) ==
    IF form = "select" /\ limit = "unread" THEN Least(cap + 1, rows)
    ELSE IF form = "other" THEN Wanted(limit, n, rows)
    ELSE Least(cap + 1, Wanted(limit, n, rows))

Truncated(fetched, cap) == fetched > cap
Delivered(fetched, cap) == IF Truncated(fetched, cap) THEN cap ELSE fetched

-----------------------------------------------------------------------------
(* InstanceQueryBuilder.query.                                             *)

PageSize(asked) == Least(Greatest(1, asked), MaxPageSize)

(* Mutant: pages are numbered from 0.                                      *)
OffsetFromZero(page, size) == page * size

Offset(page, size) == (page - 1) * size

(* The rows of a page, numbered in the order of the statement, and whether *)
(* there are more.                                                         *)
RowsOf(page, size, total) ==
    {r \in 1..total : Offset(page, size) < r /\ r <= Offset(page, size) + size}
HasMore(page, size, total) == total > page * size

-----------------------------------------------------------------------------
(* Properties.                                                             *)

(* At most the cap is delivered. Unless the statement is a SELECT whose    *)
(* own limit the rewriter cannot read, what is delivered is what the       *)
(* statement asks for up to the cap, and truncated says so exactly, also   *)
(* when it asks for just the cap, or one row more.                         *)
CapHolds(form, limit, n, rows, asked) ==
    LET cap     == EffectiveRows(asked)
        wanted  == Wanted(limit, n, rows)
        fetched == Fetched(form, limit, n, rows, cap)
    IN /\ Delivered(fetched, cap) <= RowsCap
       /\ ~(form = "select" /\ limit = "unread") =>
             /\ Delivered(fetched, cap) = Least(wanted, cap)
             /\ Truncated(fetched, cap) <=> wanted > cap

EveryCapIsExact ==
    \A form \in Forms, limit \in Limits, n, rows, asked \in 0..MaxRows :
       CapHolds(form, limit, n, rows, asked)

(* A reader who turns pages while has_more says so meets every row, and    *)
(* meets it on one page only, whatever the size asked for. The order of    *)
(* the rows is taken to be the same on every page.                         *)
PageOf(r, page, size, total) ==
    /\ r \in RowsOf(page, size, total)
    /\ \A earlier \in 1..(page - 1) : HasMore(earlier, size, total)

EveryPagingPartitions ==
    \A asked, total \in 0..MaxRows : LET size == PageSize(asked) IN
       \A r \in 1..total : \E page \in 1..total :
          /\ PageOf(r, page, size, total)
          /\ \A other \in 1..total : PageOf(r, other, size, total) => other = page
=============================================================================

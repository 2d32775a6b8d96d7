----------------------------- MODULE Pagination -----------------------------
(***************************************************************************)
(* PaginationUtil: the page of a list, and whether it has neighbours.      *)
(* Pages are counted from 0.                                               *)
(***************************************************************************)
EXTENDS Integers, Sequences

DEFAULT_PAGE_SIZE == 20

Smaller(m, n) == IF m < n THEN m ELSE n

\* slice(from, to) has the elements at from .. to - 1, counted from 0.
Slice(list, from, to) == SubSeq(list, from + 1, to)

\* A list that is null has the pages of an empty one.
GetPage(sourceList, page) ==
  LET fromIndex == page * DEFAULT_PAGE_SIZE IN
  IF page < 0 \/ Len(sourceList) <= fromIndex THEN <<>>
  ELSE Slice(sourceList, fromIndex,
             Smaller(fromIndex + DEFAULT_PAGE_SIZE, Len(sourceList)))

HasNextPage(totalRows, pageNumber, pageSize) ==
  totalRows > (pageNumber + 1) * pageSize

HasPreviousPage(totalRows, pageNumber, pageSize) ==
  pageNumber > 0 /\ totalRows > (pageNumber - 1) * pageSize

\* getPaginationMetadata of a list, and getPaginationMetadataTokenX of a length.
PaginationMetadata(dataCount, requestedPage, pageSize) ==
  [currentPage |-> requestedPage, pageSize |-> pageSize,
   hasNextPage |-> HasNextPage(dataCount, requestedPage, pageSize),
   hasPreviousPage |-> HasPreviousPage(dataCount, requestedPage, pageSize)]
=============================================================================

-------------------------- MODULE PaginationProofs --------------------------
(***************************************************************************)
(* That pages divide a list, and that the metadata agree with them.        *)
(***************************************************************************)
EXTENDS Pagination, SequenceTheorems, TLAPS

\* How much of a list is on a page.
PageLength(list, page) ==
  IF page < 0 \/ Len(list) <= page * DEFAULT_PAGE_SIZE THEN 0
  ELSE Smaller(DEFAULT_PAGE_SIZE, Len(list) - page * DEFAULT_PAGE_SIZE)

\* A page has that length, and its elements are those of the list that follow
\* the pages before.
LEMMA PageShape ==
  ASSUME NEW S, NEW list \in Seq(S), NEW page \in Int
  PROVE  /\ GetPage(list, page) \in Seq(S)
         /\ Len(GetPage(list, page)) = PageLength(list, page)
         /\ \A i \in 1 .. PageLength(list, page) :
              GetPage(list, page)[i] = list[page * DEFAULT_PAGE_SIZE + i]
  <1> DEFINE from == page * DEFAULT_PAGE_SIZE
             to == Smaller(from + DEFAULT_PAGE_SIZE, Len(list))
  <1>1. Len(list) \in Nat /\ from \in Int
    BY DEF DEFAULT_PAGE_SIZE
  <1>2. CASE page < 0 \/ Len(list) <= from
    <2>1. GetPage(list, page) = <<>> /\ PageLength(list, page) = 0
      BY <1>2 DEF GetPage, PageLength
    <2> QED BY <2>1
  <1>3. CASE ~(page < 0 \/ Len(list) <= from)
    <2>1. /\ GetPage(list, page) = SubSeq(list, from + 1, to)
          /\ PageLength(list, page) = Smaller(DEFAULT_PAGE_SIZE, Len(list) - from)
      BY <1>3 DEF GetPage, Slice, PageLength
    <2>2. from >= 0 /\ Len(list) > from
      BY <1>1, <1>3 DEF DEFAULT_PAGE_SIZE
    <2> HIDE DEF from
    <2>3. /\ to \in Int /\ to <= Len(list) /\ from + 1 <= to
          /\ Smaller(DEFAULT_PAGE_SIZE, Len(list) - from) = to - from
      BY <1>1, <2>2 DEF Smaller, DEFAULT_PAGE_SIZE
    <2> HIDE DEF to
    <2>4. \A i \in (from + 1) .. to : list[i] \in S
      BY <1>1, <2>2, <2>3
    <2>5. /\ SubSeq(list, from + 1, to) \in Seq(S)
          /\ Len(SubSeq(list, from + 1, to)) = to - from
          /\ \A i \in 1 .. to - from : SubSeq(list, from + 1, to)[i] = list[from + i]
      <3> DEFINE first == from + 1
      <3>1. first \in Int /\ to \in Int /\ first <= to /\ to - first + 1 = to - from
        BY <1>1, <2>3
      <3>2. \A i \in Int : first + i - 1 = from + i
        BY <1>1
      <3>3. \A i \in first .. to : list[i] \in S
        BY <2>4
      <3> HIDE DEF first
      <3>4. /\ SubSeq(list, first, to) \in Seq(S)
            /\ Len(SubSeq(list, first, to)) = to - from
            /\ \A i \in 1 .. to - first + 1 : SubSeq(list, first, to)[i] = list[first + i - 1]
        BY <3>1, <3>3, SubSeqProperties
      <3>5. ASSUME NEW i \in 1 .. to - from
            PROVE  SubSeq(list, first, to)[i] = list[from + i]
        <4>1. i \in Int /\ i \in 1 .. to - first + 1
          BY <3>1
        <4>2. SubSeq(list, first, to)[i] = list[first + i - 1]
          BY <3>4, <4>1
        <4>3. first + i - 1 = from + i
          BY <3>2, <4>1
        <4> QED BY <4>2, <4>3
      <3> QED BY <3>4, <3>5 DEF first
    <2>6. PageLength(list, page) = to - from
      BY <2>1, <2>3
    <2>7. \A i \in 1 .. PageLength(list, page) : GetPage(list, page)[i] = list[from + i]
      BY <2>1, <2>5, <2>6
    <2> QED BY <2>1, <2>5, <2>6, <2>7 DEF from
  <1> QED BY <1>2, <1>3

\* There is something on a page if and only if the list reaches it.
LEMMA PageReached ==
  ASSUME NEW S, NEW list \in Seq(S), NEW page \in Int
  PROVE  GetPage(list, page) # <<>>
           <=> page >= 0 /\ Len(list) > page * DEFAULT_PAGE_SIZE
  <1>1. Len(list) \in Nat /\ page * DEFAULT_PAGE_SIZE \in Int
    BY DEF DEFAULT_PAGE_SIZE
  <1>2. PageLength(list, page) # 0 <=> page >= 0 /\ Len(list) > page * DEFAULT_PAGE_SIZE
    <2> DEFINE from == page * DEFAULT_PAGE_SIZE
    <2>1. PageLength(list, page) =
            IF page < 0 \/ Len(list) <= from THEN 0
            ELSE Smaller(DEFAULT_PAGE_SIZE, Len(list) - from)
      BY DEF PageLength
    <2>2. from \in Int
      BY <1>1
    <2> HIDE DEF from
    <2>3. Len(list) > from => Smaller(DEFAULT_PAGE_SIZE, Len(list) - from) # 0
      BY <1>1, <2>2 DEF Smaller, DEFAULT_PAGE_SIZE
    <2>4. PageLength(list, page) # 0 <=> page >= 0 /\ Len(list) > from
      BY <1>1, <2>1, <2>2, <2>3
    <2> QED BY <2>4 DEF from
  <1>3. GetPage(list, page) # <<>> <=> Len(GetPage(list, page)) # 0
    BY PageShape, EmptySeq
  <1> QED BY <1>2, <1>3, PageShape

\* A next page is announced if and only if it has elements, for every list and
\* from the page before the first on; so is a previous one.
THEOREM MetadataAgreeWithPages ==
  ASSUME NEW S, NEW list \in Seq(S), NEW page \in Int, page >= -1
  PROVE  LET metadata == PaginationMetadata(Len(list), page, DEFAULT_PAGE_SIZE)
         IN  /\ metadata.hasNextPage <=> GetPage(list, page + 1) # <<>>
             /\ metadata.hasPreviousPage <=> GetPage(list, page - 1) # <<>>
  <1> DEFINE metadata == PaginationMetadata(Len(list), page, DEFAULT_PAGE_SIZE)
  <1>1. /\ metadata.hasNextPage <=> Len(list) > (page + 1) * DEFAULT_PAGE_SIZE
        /\ metadata.hasPreviousPage <=>
             page > 0 /\ Len(list) > (page - 1) * DEFAULT_PAGE_SIZE
    BY DEF PaginationMetadata, HasNextPage, HasPreviousPage
  <1>2. page + 1 \in Int /\ page - 1 \in Int /\ page + 1 >= 0 /\ (page - 1 >= 0 <=> page > 0)
    OBVIOUS
  <1>3. GetPage(list, page + 1) # <<>> <=> Len(list) > (page + 1) * DEFAULT_PAGE_SIZE
    BY <1>2, PageReached
  <1>4. GetPage(list, page - 1) # <<>>
          <=> page > 0 /\ Len(list) > (page - 1) * DEFAULT_PAGE_SIZE
    BY <1>2, PageReached
  <1> QED BY <1>1, <1>3, <1>4

\* Pages do not overlap.
LEMMA OnePage ==
  ASSUME NEW k \in Int, NEW p \in Int, NEW other \in Int,
         k - p * 20 >= 1, k - p * 20 <= 20,
         k - other * 20 >= 1, k - other * 20 <= 20
  PROVE  other = p
  OBVIOUS

\* Every element of a list is on one page, and on no other: no element is shown
\* twice, and none is left out.
THEOREM PagesDivideTheList ==
  ASSUME NEW S, NEW list \in Seq(S), NEW k \in 1 .. Len(list)
  PROVE  \E page \in Nat :
           /\ k - page * DEFAULT_PAGE_SIZE \in 1 .. Len(GetPage(list, page))
           /\ GetPage(list, page)[k - page * DEFAULT_PAGE_SIZE] = list[k]
           /\ \A other \in Nat \ {page} :
                k - other * DEFAULT_PAGE_SIZE \notin 1 .. Len(GetPage(list, other))
  <1> DEFINE p == (k - 1) \div DEFAULT_PAGE_SIZE
             i == k - p * DEFAULT_PAGE_SIZE
  <1>1. Len(list) \in Nat /\ k \in Nat /\ k <= Len(list)
    OBVIOUS
  <1>2. p \in Nat /\ i \in 1 .. DEFAULT_PAGE_SIZE
    BY <1>1 DEF DEFAULT_PAGE_SIZE
  <1> HIDE DEF p
  <1>3. /\ i \in 1 .. PageLength(list, p) /\ p * DEFAULT_PAGE_SIZE + i = k
    <2> DEFINE from == p * DEFAULT_PAGE_SIZE
    <2>1. from \in Int /\ i = k - from /\ i \in 1 .. DEFAULT_PAGE_SIZE
      BY <1>2 DEF DEFAULT_PAGE_SIZE
    <2>2. PageLength(list, p) =
            IF p < 0 \/ Len(list) <= from THEN 0
            ELSE Smaller(DEFAULT_PAGE_SIZE, Len(list) - from)
      BY Zenon DEF PageLength
    <2> HIDE DEF from, i
    <2>3. Len(list) > from /\ p >= 0
      BY <1>1, <1>2, <2>1 DEF DEFAULT_PAGE_SIZE
    <2>4. PageLength(list, p) = Smaller(DEFAULT_PAGE_SIZE, Len(list) - from)
      BY <1>1, <1>2, <2>1, <2>2, <2>3
    <2>5. i \in 1 .. Smaller(DEFAULT_PAGE_SIZE, Len(list) - from) /\ from + i = k
      BY <1>1, <2>1 DEF Smaller, DEFAULT_PAGE_SIZE
    <2> QED BY <2>4, <2>5 DEF from
  <1>4. i \in 1 .. Len(GetPage(list, p)) /\ GetPage(list, p)[i] = list[k]
    <2> HIDE DEF i
    <2>1. p \in Int
      BY <1>2
    <2> QED BY <1>3, <2>1, PageShape
  <1>5. ASSUME NEW other \in Nat, other # p
        PROVE  k - other * DEFAULT_PAGE_SIZE \notin 1 .. Len(GetPage(list, other))
    <2>1. k - other * DEFAULT_PAGE_SIZE \notin 1 .. DEFAULT_PAGE_SIZE
      <3>1. k - p * 20 >= 1 /\ k - p * 20 <= 20
        BY <1>1, <1>2 DEF DEFAULT_PAGE_SIZE
      <3>2. ~(k - other * 20 >= 1 /\ k - other * 20 <= 20)
        BY <1>1, <1>2, <1>5, <3>1, OnePage
      <3> QED BY <1>1, <3>2 DEF DEFAULT_PAGE_SIZE
    <2>2. PageLength(list, other) \in 0 .. DEFAULT_PAGE_SIZE
      <3> DEFINE from == other * DEFAULT_PAGE_SIZE
      <3>1. from \in Int
        BY DEF DEFAULT_PAGE_SIZE
      <3>2. PageLength(list, other) =
              IF other < 0 \/ Len(list) <= from THEN 0
              ELSE Smaller(DEFAULT_PAGE_SIZE, Len(list) - from)
        BY Zenon DEF PageLength
      <3> HIDE DEF from
      <3>3. Len(list) > from => Smaller(DEFAULT_PAGE_SIZE, Len(list) - from) \in 0 .. 20
        BY <1>1, <3>1 DEF Smaller, DEFAULT_PAGE_SIZE
      <3>4. PageLength(list, other) \in 0 .. 20
        BY <1>1, <3>1, <3>2, <3>3
      <3> QED BY <3>4 DEF DEFAULT_PAGE_SIZE
    <2>3. Len(GetPage(list, other)) = PageLength(list, other)
      <3>1. other \in Int
        OBVIOUS
      <3> QED BY <3>1, PageShape
    <2>4. k - other * DEFAULT_PAGE_SIZE \in Int /\ DEFAULT_PAGE_SIZE \in Int
      BY <1>1 DEF DEFAULT_PAGE_SIZE
    <2> QED BY <2>1, <2>2, <2>3, <2>4
  <1> QED BY <1>2, <1>4, <1>5
=============================================================================

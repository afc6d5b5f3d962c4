\* Three symbols, the id one past the table and one more; requests of nothing, of
\* less than a page, of a page and of more.
CONSTANTS
  PAGESZ = 2
  TblSz = 3
  Rgids = {0, 1, 2, 3, 4}
  Sizes = {0, 1, 2, 5}
  MaxEnd = 12
SPECIFICATION Spec
INVARIANTS TypeOK FoundIfRoom DisjointUntilRegrown WithinArea
PROPERTY AllocReturns

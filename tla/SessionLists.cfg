CONSTANTS
  u1 = u1
  u2 = u2
  Users = {u1, u2}
  Sessions = {1, 2, 3, 4}
  Messages = {5, 6, 7, 8}
  Owner <- MCOwner
  SessionOf <- MCSessionOf
  Readers = {r1}
  ReaderUser <- MCReaderUser
  Times = {1, 2}
  Limits = {0, 9}
  DefaultPageSize = 1
  MaxPageSize = 2
SPECIFICATION Spec
INVARIANTS PagesAreExact

CONSTANTS
  AtomicThreads = {t1, t2}
  Modulus = 4
  Args = {1, 3}
  Uses <- AllButDoubleInc
  RwThreads = {t1, t2, t3}
  WordSize <- MCWordSize
  Threads = {t1, t2, t3, t4}
  Tickets = 5
SPECIFICATION FairMoves
INVARIANTS
  RwTypeOK
  WordExact
  WaitBitOwned
  TypeOK
  ExclusiveUnlessMistaken
  TicketsExact
  GuessesRightUnlessLate
PROPERTIES
  IsAtomic
  SomeCallFinishes
  IsReadersWriterLock
  WaitBitServed
  ReadersNotStuck
  InTicketOrder
  NoStarvation

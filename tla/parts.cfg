CONSTANTS
  N = 1
  Gens = {g1, g2}
  Enables = {1}
  Loops = {1}
  Faulty = {}
  MaxSent = 1
  Cable = 1
  Room = 1
  W = 4
  NULL = NULL
  ERR = ERR
  Writers = {w1, w2}
  Messages = {short, long}
  LongMessages = {long}
  Nothing = Nothing
  MayFail = {"region", "buffers", "cdev", "class", "device"}
  Files = {f1, f2}
  Admins = {a1, a2}
  Chars <- CharsDef
  Urls <- UrlsDef
  URL_SIZE = 3
  None = None
  Numbers = {0, 8, 10, 25}
  MaxBlanks = 3
  Others <- OthersDef
  Stacks <- StacksDef
  Names <- NamesDef
SPECIFICATION PartsSpec
SYMMETRY Interchangeable
INVARIANTS NotMoreThanSent LossIsReal NoneStaysQueued EndIsOwn
INVARIANTS HoldsWhatItShould ThereWhileUsed 
INVARIANTS SigioBringsTheLevel UnreadIsAnnounced NoHandlerWithoutFile
 
INVARIANTS PaddingsUndone
PROPERTY EchoIsUnderstood
CHECK_DEADLOCK FALSE

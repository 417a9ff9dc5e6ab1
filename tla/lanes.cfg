CONSTANTS
  p1 = p1  g = g  u1 = u1  u2 = u2
  Chats = {p1, g}
  Groups = {g}
  Users = {u1, u2}
  MaxMsgs = 4
  Limits = {1, 2}
  MaxBatch = 2
SPECIFICATION FairSpec
INVARIANTS OneRunPerChat OneAuthor BufferHasWorker TextsInOrder
PROPERTIES AnsweredOnce EveryoneIsAnswered

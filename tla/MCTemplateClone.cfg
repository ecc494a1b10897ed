SPECIFICATION RemoteSpec
CONSTANTS
  c1 = c1
  c2 = c2
  l1 = l1
  r1 = r1
  r2 = r2
  k1 = k1
  k2 = k2
  u1 = u1
  u2 = u2
  root = root
  note = note
  board = board
  row = row
  frame = frame
  link = link
  Elsewhere = Elsewhere
  NoTemplate = NoTemplate
  TemplateDoc = TemplateDoc
  NewDoc = NewDoc
  Titles <- MCTitles
  CreateCalls <- MCCreateCalls
  PageCalls <- MCPageCalls
  Listings <- MCListings
  NoEntry = NoEntry
  TRASH_READBACK_ATTEMPTS = 2
  Requests <- MCRequests
  ClientOf <- MCClientOf
  NoCookie = NoCookie
  Responses <- MCResponses
  Endless = 100
  RETRY_DELAY = 2
  MAX_LIFETIME = 3
  MAX_TIME = 6
INVARIANT ClonesReadAlike

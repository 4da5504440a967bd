SPECIFICATION BrowserSpec
CONSTANTS
  People = {ann, bob}
  Google = {ann}
  Profiles <- MCProfiles
  Nobody = Nobody
  Unseen = Unseen
  MaxPresses = 2
  Accounts = {u1, u2}
  NoAccount = NoAccount
  MaxClicks = 3
  Feeds = {infy, tcs}
  PageFeeds = {gold}
  MaxDrops = 2
  MaxMoves = 4
  Companies = {infy}
  DualListed = {infy}
  Marks = {1, 2}
  MaxTicks = 2
  MaxWaiting = 2
  Symbols = {a, b}
  Shapes <- MCShapes
  Histories <- MCHistories
  LivePrices = {102, 160}
  Span = 2
  AtrSpan = 4
  MaxRows = 4
  Charted = {a, b}
  Periods = {day, week}
  NoCandles = NoCandles
  MaxSelections = 2
  Markets <- MCMarkets
  NoMarket = NoMarket
  Listed = {k1, k2}
  NoStock = NoStock
  MaxEdits = 2
  MaxMounts = 1
  Tabs = {l1, l2}
  Quoted = {q1, q2}
  Traded = {infy, tcs}
  MaxQty = 2
  MaxTouches = 2
  MaxOrders = 2
  Prices2 = {10, 12}
  MaxLot = 3
  MaxFills = 3
  OrderIds = {o1, o2}
  Details <- MCDetails
  Views <- MCViews
  NoId = NoId
  MaxCancels = 2
  Bots = {b1, b2}
  NoBot = NoBot
  MaxCommands = 2
  MaxFailures = 1
  Scrips = {s1}
  MaxEvents = 1
  MaxPolls = 2
  MaxFaults = 2
  Words = {w1, w2}
  NoWord = NoWord
  MaxKeys = 3
  Futures = {nifty, tata}
  Unlisted = {tata}
  NoFuture = NoFuture
  MaxChoices = 2
  MaxFetches = 3
  MaxSlips = 1
  Tickets = {t1}
  MaxMisses = 1
  MaxReads = 1
  Underlyings = {n1, n2}
  DatesOf <- MCDates
  NoDate = NoDate
  NoUnderlying = NoUnderlying
  MaxChains = 3
  MaxTurns = 2
  MaxLosses = 1
  OptionLegs = {c1, c2}
  MaxPlaced = 4
  MaxReloads = 1
  Photos = {p1, p2}
  NoPhoto = NoPhoto
  Details2 = {d1, d2}
  MaxSent = 3
  MaxSpoiled = 1
  Default = 3
  NoCapital = NoCapital
  MaxDeposits = 2
  MaxReadings = 0
  MaxUnread = 1
  MaxVisits = 1
INVARIANTS BrowserTypeOK RedirectsSettle UnverifiedStaysOut
  TrackedIsSubscribed IndicatorsInBounds AnswersBelong MirrorSymmetric EditsReachServer
  OwnSalesCounted BooksAddUp ShownCancelledIsTrue
PROPERTIES BusyEnds FeedRecovers ViewsCatchUp NoRepaint ChartAlwaysFills AgreementHolds OnlyRemovalsLoseActive ListGetsPriced
CHECK_DEADLOCK FALSE

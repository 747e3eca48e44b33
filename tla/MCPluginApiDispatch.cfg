SPECIFICATION DispatchSpec
CONSTANTS
  get = get
  post = post
  put = put
  root = root
  a = a
  listed = listed
  other = other
  alice = alice
  bob = bob
  biz = biz
  id = id
  vendor = vendor
  dumped_data = dumped_data
  Methods = {get, post}
  Get = get
  Post = post
  Bases = {root, a}
  Root = root
  Handlers = {h1, h2}
  None = None
  Blank = Blank
  AllowScope <- MCAllowScope
  Fields = {vendor, dumped_data}
  DumpedData = dumped_data
  NotJson = NotJson
  Requests <- MCRequests
INVARIANTS
  NoDuplicateRoute
  TwinsAgree
  ReachesItsHandler
  HandlerIsGivenItsInput

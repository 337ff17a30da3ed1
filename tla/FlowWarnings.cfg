SPECIFICATION Spec
CONSTANTS
  Blank = {"", " "}
  Long = {"long"}
  Trimmed <- MCTrimmed
  Lower <- MCLower
  Templates = {"{{v}}"}
  HttpUrls = {"http://h"}
  HttpTokens = {"x", "1", "0", "2"}
  VariableNames = {"x"}
  JsonPaths = {"$.a"}
  Regexes = {"", " ", "x", " x ", "1", "0", "2", "{{v}}", "http://h", "$.a", "{}", "[]", "break", "long"}
  Numbers = {"1", "0", "2"}
  JsonTexts = {"1", "0", "2", "{}", "[]"}
  JsonObjects = {"{}"}
  LineBreaks = {"break"}
  Undefined = Undefined
  Fraction = Fraction
  MaxSteps = 8
  MaxDepth = 3
  MaxTimeout = 3
  MaxDelay = 3
  LongDelay = 2
  MaxIterations = 3
  Slug <- MCSlug
  NameOrder <- MCNameOrder
  Trim <- MCTrim
  None = None
  Default = Default
  NETWORK_OPTION_KEYS = {"proxy"}
  NoOptions = NoOptions
  Endpoints = {e1, e2}
  SchemaCalls = {c1, c2}
  MaxVersion = 1
  MaxPanels = 2
  MaxExplorers = 2
  Template = Template
  NoEndpoint = NoEndpoint
  NoSchema = NoSchema
INVARIANT UnwarnedSeeResponses

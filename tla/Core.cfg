SPECIFICATION Spec
CONSTANTS
  MaxDepth = 2
  KnownDynamic = {"known"}
  ParsedAs <- MCParsedAs
  Below <- MCBelow
  InText <- MCInText
  HasToken = {"x-csrf-token"}
  MaxClock = 3
  MaxRoundTrips = 2
INVARIANTS SentAsShown SnippetsAreFaithful ResponseIsJudged

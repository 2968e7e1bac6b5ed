SPECIFICATION Spec
CONSTANTS
  Repos <- MCRepos
  Paths <- MCPaths
  File <- MCFile
  Lower <- MCLower
  Dotted <- MCDotted
  Alias <- MCAlias
  Assets = {"png"}
  TypeDefs = {"y"}
  Ancestors <- MCAncestors
  Twins <- MCTwins
  Abortable = {"peer"}
  Contents <- MCContents
  Unreadable <- MCUnreadable
  BatchLimit = 2
  Widened = "none"
INVARIANTS DiagnosticsAgree IndicesAgree

SPECIFICATION Spec
CONSTANTS
  Configs <- MCConfigs
  Default <- MCDefault
  Apps <- MCApps
  page = page
  form = form
  Contexts <- MCContexts
  Document <- MCDocument
  EngineFresh <- MCFresh
  EnginePush <- MCPushChar
  EngineBackspace <- MCBackspace
  EngineSeed <- MCSeedFrom
  EngineCommit <- MCCommitText
  Keys <- MCKeys
  MaxSteps = 5
  MaxTrouble = 2
SYMMETRY AnyContext
INVARIANT DigitsReachEngine
CHECK_DEADLOCK FALSE

SPECIFICATION Spec
CONSTANTS
  a = a
  b = b
  c = c
  hello = hello
  Chars = {a, b, c}
  Texts = {hello}
  FunctionKeys <- MCFunctionKeys
  MainKeys <- MCMainKeys
  Layouts = {"us", "other"}
  Table <- MCTable
  UsLayout = "us"
  NoLayout = NoLayout
  NoChar = NoChar
  NoKey = NoKey
  NoText = NoText
  kCapacity = 4
  Level3Known = TRUE
  Codes <- MCCodes
  NoCode = NoCode
  Announced <- MCAnnounced
  Unsupported <- MCUnsupported
  Buttons = {"Left"}
  UserMods <- MCUserMods
  Amounts <- MCAmounts
  kMaxSteps = 2
  Configs <- MCConfigs
  Found = Found
  Copied = Copied
  Field = Field
  MaxFailures = 1
  MaxRequests = 3
INVARIANTS
  NoStrayKeys
  TypedAsMeant
  ClipboardSafe
  CodesArrive
PROPERTIES
  ChordComplete

\* Lines of up to 5 characters, 2 arguments, 3 commands.
SPECIFICATION Spec
CONSTANTS
  x = x
  h1 = h1
  h2 = h2
  CLI_MAX_LINE_LEN = 6
  CLI_MAX_ARGS = 2
  CLI_MAX_CMDS = 3
  Letters = {x}
  SP = SP
  NUL = NUL
  help_cmd <- MCHelp
  Commands <- MCCommands
  Numbers <- MCNumbers
  GARBLED = GARBLED
  NONE = NONE
INVARIANTS
  CliTypeOK
  EchoAgrees
  NumbersRead
PROPERTIES
  ArgsAreTyped
  OthersStay

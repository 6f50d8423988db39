CONSTANTS
  Width = 3
  Height = 3
  a = a  b = b  nul = nul  prompt = prompt  blank = blank
  Keys <- MCKeys
  Chars <- MCChars
  Space <- blank
  Colors = {0, 4, 7}
  NoColor = 0
  Grey = 7
  Red = 4
  BufLen = 3
  IndexMod = 4
  Nul <- nul
  Prefix <- MCPrefix
  Names <- MCNames
  Effects <- MCEffects
  Message <- MCMessage
  MaxTyped = 4
SPECIFICATION ShellSpec
INVARIANTS EchoIsLine
PROPERTIES RunsTheNamed ImplementsConsole

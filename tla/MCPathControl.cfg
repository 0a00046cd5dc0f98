SPECIFICATION PathSpec
CONSTANTS
  Letters <- MCLetters
  Ascii <- MCAscii
  Fold <- MCFold
  Names <- MCNames
  MaxDepth = 2
  MaxSandboxes = 2
INVARIANTS ControlledIffWithin NoSandboxWithinSandbox ActsOnItsSandbox

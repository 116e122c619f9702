CONSTANTS
  Modulus = 48
  SecondsPerMinute = 2
  Letter = letter
  Character <- SomeCharacters
  MaxLength = 4
SPECIFICATION Spec
INVARIANTS
  TypeOK
  ParsedExactly

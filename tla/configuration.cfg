SPECIFICATION Spec
CHECK_DEADLOCK FALSE
CONSTANTS
  k1 = k1
  k2 = k2
  v1 = v1
  v2 = v2
  MaxLines = 5
  MaxSets = 3
  MaxValues = 2
  MaxText = 5
  MaxString = 5
  Words <- MCWords
  Letters = {"I", "1", "V", "v"}
  Numbers = {"1"}
  Booleans = {"1", "true"}
  Sampled = {"include", "I", "1"}
  Keys <- MCKeys
  Values <- MCValues
  OptionLists <- MCOptionLists
  Plain <- MCPlain
  MaxArguments = 3
  MaxParses = 2
  FileKeys <- MCFileKeys
  FileValues <- MCFileValues
  ShellLetters = {"A", "B"}
  Environments <- MCEnvironments
  Directories = {"d1", "d2"}
  Entries <- MCEntries
  MaxPath = 2
  Files <- MCFiles
  Systems <- MCSystems
  Alphabet = {"a", "b"}
  MaxSeparator = 2
INVARIANTS FileIsTree OptionMeansParts CommandLineObeyed TextsExact PriorityKept
PROPERTIES CallsReturn

SPECIFICATION Spec
CONSTANTS
  Labels = {"a", "b"}
  Vocabularies <- MCVocabularies
  MaxStructureDepth = 3
  Reach = 32768
CHECK_DEADLOCK FALSE
INVARIANT StructuresTypeOK
INVARIANT CodeFollowsSource
INVARIANT AcceptsExactly

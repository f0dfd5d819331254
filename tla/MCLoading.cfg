SPECIFICATION Spec
CHECK_DEADLOCK FALSE
CONSTANTS
  Files <- MCFiles
  Texts <- MCTexts
  Chats <- MCChats
  Specials <- MCSpecials
  EntrySize = 40
  Word = 1048576
  None = None
  NoString = NoString
INVARIANTS
  ConfigIsTheFiles
  CompleteFilesLoad
  BytesAreTheTensors
  RoundTrip
  EncodesAsTrained

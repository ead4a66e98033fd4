SPECIFICATION FolderSpec
CONSTANTS
  note = note
  noteLog = noteLog
  book = book
  NoFile = NoFile
  Plain = Plain
  Names = {note, book}
  Library = {book}
  Sibling <- NoSiblings
  Writers = {w1, w2, w3}
  Kinds = {"demote", "promote", "modified", "account", "import", "replace", "script"}
  Asked = 0
  Default = 2
  ReadOnly = {w3}
  MaxSaves = 1
SYMMETRY WriterSymmetry
PROPERTIES
  FrontmatterEditsKeepBodies
  EveryOverwriteIsUndoable
  ReadOnlyMeansUntouched
CHECK_DEADLOCK FALSE

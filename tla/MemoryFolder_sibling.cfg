SPECIFICATION FolderSpec
CONSTANTS
  note = note
  noteLog = noteLog
  book = book
  NoFile = NoFile
  Plain = Plain
  Names = {note, noteLog}
  Library = {}
  Sibling <- DottedSibling
  Writers = {w1, w2}
  Kinds = {"demote"}
  Asked = 1
  Default = 2
  ReadOnly = {}
  MaxSaves = 0
SYMMETRY WriterSymmetry
PROPERTY EveryOverwriteIsUndoable
CHECK_DEADLOCK FALSE

CONSTANTS
  x1 = x1
  xu = xu
  None = None
  Known <- MCKnown
  Unknown <- MCUnknown
  FilesDir <- MCFilesDir
  FileIdInputs <- MCFileIdInputs
  Existing <- MCExisting
  PostForms <- MCPostForms
  RespondForms <- MCRespondForms
SPECIFICATION Spec
INVARIANTS GetFileConfined

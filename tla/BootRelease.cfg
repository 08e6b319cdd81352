CONSTANTS
  Threads = {t1, t2}
  MaxRelease = 4
  BadSigning = {2}
  BadTunnel = {3}
  MaxWipes = 1
SPECIFICATION ReleaseSpec
INVARIANTS ReleaseTypeOK AnswerThere WholeOrNothing
CHECK_DEADLOCK FALSE

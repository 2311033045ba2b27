SPECIFICATION FairSpec
CONSTANTS
  Uids = {u1, u2}
  None = None
  Types = {"MANDAT_LIST", "AUTHOR_USER", "IS_MB_EXIST", "RegisterGlobal", "PrintThisFile"}
  MaxAsks = 3
INVARIANTS TypeOK AnswersOwnQuestion NoMoreAnswersThanAsked
PROPERTY LoneQuestionIsAnswered
CHECK_DEADLOCK FALSE

SPECIFICATION FairSpec
CONSTANTS
  Threads = {t1, t2}
  Users = {u1, u2, u3}
  Initiator = u1
  Nobody = Nobody
  MaxMessages = 4
INVARIANT TypeOK
INVARIANT SendersWereParties
INVARIANT OnlyRacersOverwrite
INVARIANT RepliesAnswerQuestions
PROPERTY EverySummarised

SPECIFICATION FairSpec
CONSTANTS
  Users = {u1, u2}
  Requests = {r1, r2, r3, r4}
  NoVote = NoVote
INVARIANTS
  TypeOK
  CountIsVotesLessMissed
  DriftOnlyFromDoubleDownvote
PROPERTIES
  EveryVoteAnswered

\* A behaviour ends when every request is answered.
CHECK_DEADLOCK FALSE

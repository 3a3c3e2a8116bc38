SPECIFICATION DashboardFairSpec
CONSTANTS
  q1 = q1
  q2 = q2
  q3 = q3
  ann = ann
  bob = bob
  operator = operator
  tab = tab
  Requests = {q1, q2, q3}
  Subjects = {ann, bob, operator}
  SubjectOf <- Tokens
  ClaimedBy <- Names
  Feedbacks = {"why"}
  AuthEnabled = TRUE
  Tabs = {tab}
  RequestsOf <- Sends
INVARIANTS
  TypeOK
  HistoryIsTrue
  AnsweredIsRecorded
  ShownIsRecorded
PROPERTIES
  RequestsEnd
  TabsCatchUp

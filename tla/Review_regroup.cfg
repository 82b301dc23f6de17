CONSTANTS
  m1 = m1  m2 = m2  m3 = m3  m4 = m4
  None = None
  MaxMessage = 2
  MaxDecoded = 6
  Opening = 2  Window = 2  Footer = 1
  Mail = {m1, m2, m3, m4}
  Content <- Mailbox
  Answer <- Answers
  Tab = {t1}
  Plan = {p1, p2}
  Verdict = {"marketing"}
  MaxItems = 1
  MaxRevision = 3
  MaxRestarts = 0
SPECIFICATION Spec
PROPERTIES RegroupInvalidates

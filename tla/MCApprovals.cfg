SPECIFICATION FairSpec
CONSTANTS
  lane = lane  plan = plan  runtime = runtime  spec = spec
  edit = edit  chat = chat  permit = permit
  r1 = r1  r2 = r2  a1 = a1
  None = None
  Kind <- KindOf
  Fingerprint <- PrintOf
  Raisers <- OneForEach
  Cards = {lane, plan, runtime, spec, edit, chat, permit}
  Requests = {r1, r2}
  Routes = {"panel", "spoken", "mobile"}
  Asks = {a1}
  Sweepers = {"next"}
  MaxStamp = 2
  MaxCards = 1
INVARIANTS OneExecutor ExecutedOnce OutcomeTrue SpokenWasSeen AskAnswers
PROPERTIES TerminalDecision AskersAnswered
CHECK_DEADLOCK FALSE

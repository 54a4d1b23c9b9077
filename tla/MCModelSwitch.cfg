SPECIFICATION SwitchSpec
CONSTANTS
  w1 = w1
  w2 = w2
  Wrappers = {w1, w2}
  Nobody = Nobody
  UserModels = {"haiku"}
  RoutedModels = {"opus"}
  Unset = Unset
  Users <- MCUsers
  MaxChoices = 1
INVARIANTS
  DefaultIsOwn
  FirstPromptRunsOnce
PROPERTIES
  PromptSettles
CHECK_DEADLOCK FALSE

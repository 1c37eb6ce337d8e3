SPECIFICATION Spec
CONSTANTS
  o1 = o1 o2 = o2 o3 = o3 o4 = o4
  t1 = t1 t2 = t2
  Outpoint = {o1, o2, o3, o4}
  Tx = {t1, t2}
  NoOutpoint = NoOutpoint
  MinValue = 2
  ScriptOf <- MCScriptOf
  Value <- MCValue
  SpentBy <- MCSpentBy
INVARIANTS TypeOK NothingLeftOut
PROPERTIES ImplementsJobsApi ClosedJobIsReported

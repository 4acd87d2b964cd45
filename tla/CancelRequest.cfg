\* One order, a manager who may ask twice, a telecaller and an admin who both answer.
SPECIFICATION Spec
CONSTANTS
  o1 = o1
  manager = manager
  caller = caller
  admin = admin
  NoOrder = NoOrder
  Orders = {o1}
  Users = {manager, caller, admin}
  RoleOf <- MCRoleOf
  OverrideTargets <- MCOverrideTargets
  MaxAsks = 2
INVARIANTS
  ApprovedIsCancelled
PROPERTIES
  AnswerStands
  AsksWhatCanBeCancelled
\* A deleted order is gone and asks are bounded: the instance may stop.
CHECK_DEADLOCK FALSE

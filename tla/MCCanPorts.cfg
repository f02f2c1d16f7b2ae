CONSTANTS
  Threads = {t1, t2}
  Ifaces = {"can0", "can2"}
  Fds = {0, 1, 2}
SPECIFICATION Spec
SYMMETRY ThreadSymmetry
INVARIANTS TypeOK OwnDescriptor Accounted
PROPERTIES OthersKept CanLockSpec

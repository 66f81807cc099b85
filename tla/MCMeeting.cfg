SPECIFICATION Spec
CONSTANTS
 Tabs = {"a1", "a2", "b"}
 PersonOf <- MCPersonOf
 Host = "ann"
 p = p
 q = q
 Procs = {p, q}
 ProcOf <- MCProcOf
 Scripts <- MCScripts
 None = None
INVARIANTS RosterTrue SharerTrue LockShown InOnce
CHECK_DEADLOCK FALSE

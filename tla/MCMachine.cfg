\* Three tasks in four environments; a queue of four descriptors; machines of
\* three and five devices; the bounds of the other parts are in MCMachine.
\* The kernel may panic, and boot ends, so deadlock is not an error.
CONSTANTS
  Parts = {"sched", "queue", "virtio", "lines", "clock", "timers", "block", "frames", "components", "initramfs"}
  init = init
  worker1 = worker1
  worker2 = worker2
  Tasks = {init, worker1, worker2}
  InitTask = init
  NoTask = NoTask
  Envs <- MCEnvs
  MaxReady = 2
  MaxWaits = 2
  MaxTick = 2
SPECIFICATION MCSpec
INVARIANTS SchedSound VirtioSound LinesSound BlockSound TimeSound BootSound
PROPERTIES StepsSound
CHECK_DEADLOCK FALSE

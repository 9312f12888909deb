---------------------------- MODULE MCProcesses -----------------------------
(* Processes, groups and sessions; credentials; the capabilities of        *)
(* memory; threads; and execve. A behaviour exercises one part, chosen in  *)
(* MCInit; the variables of the others are absent (0) or stay as they are. *)
EXTENDS Process, Credentials, Caps

(* Parts are those that the run exercises.                                 *)
CONSTANTS Parts

VARIABLES which, td_scene, td_thr, td_proc, td_thread_table, td_mem,
          td_files, td_handlers, td_queue, td_user, td_believes,
          td_destroyed, td_halt, ex_pc, ex_called, ex_file, ex_argv,
          ex_envp, ex_limit, ex_image, ex_stack, ex_base, ex_regs, ex_cred,
          ex_handlers, ex_space

MCRootRights == {{"READ"}, {"DUP", "READ"}}
MCPermSets == {{"READ"}, {"READ", "WRITE"}}
MCMasks == {{"DUP", "READ"}}

(* pthread_create, a thread nobody joins, fork of the C library, a plain   *)
(* fork, a child that shares memory, and one that shares files and         *)
(* dispositions.                                                           *)
CloneThread == {"VM", "FILES", "SIGHAND", "THREAD", "PARENT_SETTID", "CHILD_CLEARTID"}
CloneDetached == {"VM", "FILES", "SIGHAND", "THREAD"}
CloneFork == {"CHILD_SETTID", "CHILD_CLEARTID"}
MCCloneSets == [joins |-> {CloneThread, CloneDetached, CloneFork, {}, {"VM"}},
                locks |-> {CloneThread, CloneFork},
                resources |-> {{"FILES", "SIGHAND"}, {}}]

(* The files of execve: static, shared and interpreted programs, scripts,  *)
(* and files that cannot be loaded.                                        *)
NoName == "none"
Seg(o, v, n, m) == [offset |-> o, vaddr |-> v, size |-> n, mem |-> m, align |-> 4]
Elf(sh, ld, segs, suid) ==
  [type |-> "elf", executable |-> TRUE, shared |-> sh, ldso |-> ld, segs |-> segs, phoff |-> 1,
   entry |-> segs[1].vaddr + 2, setuid |-> suid, interpreter |-> NoName, words |-> 0]
Other(t, x, interp, n) ==
  [type |-> t, executable |-> x, shared |-> FALSE, ldso |-> NoName, segs |-> <<>>, phoff |-> 0,
   entry |-> 0, setuid |-> FALSE, interpreter |-> interp, words |-> n]
ExecFiles ==
  [ static |-> Elf(FALSE, NoName, <<Seg(0, 8, 6, 6), Seg(7, 19, 2, 8)>>, TRUE),
    pie |-> Elf(TRUE, "ld", <<Seg(0, 0, 3, 3), Seg(5, 5, 2, 5)>>, FALSE),
    ld |-> Elf(TRUE, NoName, <<Seg(0, 0, 5, 7)>>, FALSE),
    skewed |-> Elf(FALSE, NoName, <<Seg(0, 8, 6, 6), Seg(5, 18, 2, 3)>>, FALSE),
    script |-> Other("script", TRUE, "static", 1),
    nested |-> Other("script", TRUE, "script", 1),
    wordy |-> Other("script", TRUE, "static", 2),
    lost |-> Other("script", TRUE, "gone", 1),
    dynamic |-> Elf(TRUE, "gone", <<Seg(0, 0, 3, 3)>>, FALSE),
    headless |-> [Elf(FALSE, NoName, <<Seg(4, 8, 6, 6)>>, FALSE) EXCEPT !.phoff = 1],
    old |-> Other("elf32", TRUE, NoName, 0),
    text |-> Other("text", TRUE, NoName, 0),
    plain |-> Other("text", FALSE, NoName, 0),
    dir |-> Other("directory", TRUE, NoName, 0) ]
ExecArgs == {<<>>, <<2>>, <<3, 5>>, <<1, 9, 4>>, <<60, 60, 60>>}
ExecEnvs == {<<>>, <<7>>, <<4, 16>>}

TD == INSTANCE Threads WITH MaxTid <- 4, Locks <- {"l"}, JoinWords <- {"j"},
        CloneSets <- MCCloneSets, ROBUST_LIST_LIMIT <- 3, scene <- td_scene,
        thr <- td_thr, proc <- td_proc, thread_table <- td_thread_table,
        mem <- td_mem, files <- td_files, handlers <- td_handlers,
        queue <- td_queue, user <- td_user, believes <- td_believes,
        destroyed <- td_destroyed, halt <- td_halt
threadsVars == <<td_scene, td_thr, td_proc, td_thread_table, td_mem, td_files,
                 td_handlers, td_queue, td_user, td_believes, td_destroyed,
                 td_halt>>
EX == INSTANCE Exec WITH FileTable <- ExecFiles, ArgLens <- ExecArgs,
        EnvLens <- ExecEnvs, PAGE_SIZE <- 4, Bases <- {32, 48, 64},
        VDSO_TEXT_BASE <- 96, INIT_STACK_TOP <- 512, INIT_STACK_SIZE <- 352,
        MAX_ARGV_NUMBER <- 4, RANDOM_LEN <- 16, pc <- ex_pc,
        called <- ex_called, file <- ex_file, argv <- ex_argv,
        envp <- ex_envp, limit <- ex_limit, image <- ex_image,
        stack <- ex_stack, base <- ex_base, regs <- ex_regs, cred <- ex_cred,
        handlers <- ex_handlers, space <- ex_space
execVars == <<ex_pc, ex_called, ex_file, ex_argv, ex_envp, ex_limit, ex_image,
              ex_stack, ex_base, ex_regs, ex_cred, ex_handlers, ex_space>>

allVars == <<which, vars, cvars, capvars, threadsVars, execVars>>

MCInit ==
  /\ which \in Parts
  /\ Init
  /\ CInit
  /\ CapInit
  /\ IF which = "threads" THEN TD!THInit
     ELSE td_scene = 0 /\ td_thr = 0 /\ td_proc = 0 /\ td_thread_table = 0 /\
          td_mem = 0 /\ td_files = 0 /\ td_handlers = 0 /\ td_queue = 0 /\
          td_user = 0 /\ td_believes = 0 /\ td_destroyed = 0 /\ td_halt = 0
  /\ IF which = "exec" THEN EX!EXInit
     ELSE ex_pc = 0 /\ ex_called = 0 /\ ex_file = 0 /\ ex_argv = 0 /\ ex_envp
          = 0 /\ ex_limit = 0 /\ ex_image = 0 /\ ex_stack = 0 /\ ex_base = 0
          /\ ex_regs = 0 /\ ex_cred = 0 /\ ex_handlers = 0 /\ ex_space = 0

MCNext ==
  /\ UNCHANGED which
  /\ \/ which = "process" /\ Next /\ UNCHANGED <<cvars, capvars, threadsVars,
           execVars>>
     \/ which = "credentials" /\ CNext /\ UNCHANGED <<vars, capvars,
           threadsVars, execVars>>
     \/ which = "caps" /\ CapNext /\ UNCHANGED <<vars, cvars, threadsVars,
           execVars>>
     \/ which = "threads" /\ TD!THNext /\ UNCHANGED <<vars, cvars, capvars,
           execVars>>
     \/ which = "exec" /\ EX!EXNext /\ UNCHANGED <<vars, cvars, capvars,
           threadsVars>>

MCSpec == MCInit /\ [][MCNext]_allVars

(* Threads leave nothing behind, and execve builds the program that the    *)
(* file describes.                                                         *)
ThreadsSound == which = "threads" => TD!ThreadsSound
ProgramWhole == which = "exec" => EX!ProgramWhole

(* What load_elf.rs says of a program that cannot be loaded.               *)
FailedKeepsMemory == which = "exec" => EX!FailedKeepsMemory
=============================================================================

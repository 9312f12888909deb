-------------------------------- MODULE Exec --------------------------------
(***************************************************************************)
(* Starting a program: `syscall/execve.rs` and `process/program_loader`.    *)
(* The steps of a call are those between which it reads files and may       *)
(* sleep.  A file is a script, something with an ELF header, or neither.    *)
(* Memory is modelled byte by byte where segments go, and write by write    *)
(* for the initial stack.                                                   *)
(***************************************************************************)
EXTENDS Integers, Sequences, FiniteSets

CONSTANTS
    FileTable,          \* name -> the file
    ArgLens, EnvLens,   \* the lengths (with the final zero) of argv and envp
    PAGE_SIZE,
    Bases,              \* where the address space has room for a shared object
    VDSO_TEXT_BASE,
    INIT_STACK_TOP, INIT_STACK_SIZE,
    MAX_ARGV_NUMBER,
    RANDOM_LEN

VARIABLES
    pc,             \* where the call is
    called, file,   \* the file that was named, the one that is being loaded
    argv, envp,     \* what the new program is given: <<word, length>>
    limit,          \* how often an interpreter may be looked up
    image,          \* address -> byte: a place in a file, Zero, or absent
    stack,          \* the initial stack
    base,           \* where the program and its interpreter were mapped
    regs,           \* rip and rsp
    cred, handlers, \* is the effective uid the owner's; are there handlers
    space           \* "old", "cleared" or "new": whose program the memory holds

exvars == <<pc, called, file, argv, envp, limit, image, stack, base, regs, cred, handlers, space>>

Zero == <<"zero", 0>>
NoFile == "none"
NoStack == [pos |-> INIT_STACK_TOP, writes |-> <<>>, failed |-> FALSE]
NoBase == [elf |-> 0, ldso |-> 0]
NoRegs == [rip |-> 0, rsp |-> 0]
NoImage == [a \in {} |-> Zero]

F == FileTable[file]

EXInit ==
    /\ pc = "user" /\ called = NoFile /\ file = NoFile /\ argv = <<>> /\ envp = <<>> /\ limit = 0
    /\ image = NoImage /\ stack = NoStack /\ base = NoBase /\ regs = NoRegs
    /\ cred = "user" /\ handlers = TRUE /\ space = "old"

align_down(a, n) == (a \div n) * n
align_up(a, n) == align_down(a + n - 1, n)

-----------------------------------------------------------------------------
(* Up to the point of no return                                             *)
Words(name, lens) == [i \in 1..Len(lens) |-> <<name, i, lens[i]>>]

\* `FsResolver::lookup`
Found(f) == f \in DOMAIN FileTable

\* `lookup_executable_file` with `check_executable_file`
check_executable_file(f) == Found(f) /\ FileTable[f].type # "directory" /\ FileTable[f].executable

\* `read_cstring_vec`: the null pointer must come within the limit.
read_cstring_vec(lens) == Len(lens) < MAX_ARGV_NUMBER

\* `sys_execve` and the beginning of `do_execve`.
sys_execve(f, a, e) ==
    /\ pc = "user"
    /\ IF check_executable_file(f) /\ read_cstring_vec(a) /\ read_cstring_vec(e)
       THEN /\ pc' = "header" /\ called' = f /\ file' = f /\ limit' = 1
            /\ argv' = Words("argv", a) /\ envp' = Words("envp", e)
       ELSE /\ pc' = "failed" /\ UNCHANGED <<called, file, argv, envp, limit>>
    /\ UNCHANGED <<image, stack, base, regs, cred, handlers, space>>

\* `parse_shebang_line`: one word and nothing else.
parse_shebang_line(f) == FileTable[f].words = 1

\* A script: its interpreter is loaded instead, once.  The arguments of the
\* call, the name of the script among them, follow the interpreter's name.
Shebang ==
    /\ pc = "header" /\ F.type = "script"
    /\ IF parse_shebang_line(file) /\ limit > 0 /\ check_executable_file(F.interpreter)
       THEN /\ argv' = <<<<"interpreter", 0, 2>>>> \o argv
            /\ file' = F.interpreter /\ limit' = limit - 1
            /\ UNCHANGED pc
       ELSE pc' = "failed" /\ UNCHANGED <<argv, file, limit>>
    /\ UNCHANGED <<called, envp, image, stack, base, regs, cred, handlers, space>>

\* `map_vdso_to_vm`
map_vdso_to_vm(m) ==
    [a \in DOMAIN m \cup VDSO_TEXT_BASE..(VDSO_TEXT_BASE + PAGE_SIZE - 1) |->
        IF a < VDSO_TEXT_BASE THEN m[a] ELSE <<"vdso", a - VDSO_TEXT_BASE>>]

\* What is no script takes the place of the old program.
Clear ==
    /\ pc = "header" /\ F.type # "script"
    /\ pc' = "parse" /\ space' = "cleared" /\ image' = map_vdso_to_vm(NoImage)
    /\ UNCHANGED <<called, file, argv, envp, limit, stack, base, regs, cred, handlers>>

-----------------------------------------------------------------------------
(* ELF                                                                     *)
\* A header for another machine is a header, but not one to load.
parse_elf_header(f) == FileTable[f].type \in {"elf", "elf32"}
check_elf_header(f) == FileTable[f].type # "elf32"
parse_elf(f) == parse_elf_header(f) /\ check_elf_header(f)

is_shared_object(f) == FileTable[f].shared
ldso_path(f) == FileTable[f].ldso

lookup_and_parse_ldso(f) == Found(ldso_path(f)) /\ parse_elf(ldso_path(f))

Parse ==
    /\ pc = "parse"
    /\ pc' = IF parse_elf(file) /\ (is_shared_object(file) => lookup_and_parse_ldso(file)) THEN "map" ELSE "failed"
    /\ UNCHANGED <<called, file, argv, envp, limit, image, stack, base, regs, cred, handlers, space>>

\* `check_segment_align`
check_segment_align(s) == s.align \in {0, 1} \/ s.offset % s.align = s.vaddr % s.align

\* `init_segment_vmo`: the pages of the file, with zeros before and after
\* what belongs to the segment.
TailFromSize(f, s) ==
    LET start == align_down(s.vaddr, PAGE_SIZE)
        size == align_up(s.vaddr + s.mem, PAGE_SIZE) - start
        head == s.offset % PAGE_SIZE
    IN  [i \in 0..(size - 1) |->
            IF i < head \/ i >= s.size THEN Zero
            ELSE <<f, align_down(s.offset, PAGE_SIZE) + i>>]

init_segment_vmo(f, s) ==
    LET start == align_down(s.vaddr, PAGE_SIZE)
        size == align_up(s.vaddr + s.mem, PAGE_SIZE) - start
        head == s.offset % PAGE_SIZE
    IN  [i \in 0..(size - 1) |->
            IF i < head \/ i >= s.size + head THEN Zero
            ELSE <<f, align_down(s.offset, PAGE_SIZE) + i>>]

\* `map_segment_vmo`: over what is there.
map_segment_vmo(m, f, s, at) ==
    LET vmo == init_segment_vmo(f, s)
        from == at + align_down(s.vaddr, PAGE_SIZE)
    IN  [a \in DOMAIN m \cup {from + i : i \in DOMAIN vmo} |->
            IF a - from \in DOMAIN vmo THEN vmo[a - from] ELSE m[a]]

RECURSIVE MapSegments(_, _, _, _)
MapSegments(m, f, segs, at) ==
    IF segs = <<>> THEN m
    ELSE MapSegments(map_segment_vmo(m, f, Head(segs), at), f, Tail(segs), at)

\* `base_map_addr`: room for the highest address of any segment.
Max(S) == CHOOSE x \in S : \A y \in S : y <= x
base_map_size(f) ==
    align_up(Max({FileTable[f].segs[i].vaddr + FileTable[f].segs[i].mem : i \in DOMAIN FileTable[f].segs}),
             PAGE_SIZE)

Room(f, at) == {at + i : i \in 0..(base_map_size(f) - 1)}

Mappable(f) == FileTable[f].segs # <<>> /\ \A i \in DOMAIN FileTable[f].segs : check_segment_align(FileTable[f].segs[i])

\* `map_segment_vmos` of the interpreter and of the program.  Each has room
\* of its own; what is no shared object goes where it says.
MapElf(m, f, at) == MapSegments(m, f, FileTable[f].segs, at)

load_ldso(m, at) == MapElf(m, ldso_path(file), at)

Map ==
    /\ pc = "map"
    /\ IF ~Mappable(file) \/ (is_shared_object(file) /\ ~Mappable(ldso_path(file)))
       THEN pc' = "dead" /\ UNCHANGED <<image, base>>
       ELSE /\ \E b \in IF is_shared_object(file) THEN Bases ELSE {0}, l \in IF is_shared_object(file) THEN Bases ELSE {0} :
                /\ is_shared_object(file) => Room(file, b) \cap Room(ldso_path(file), l) = {}
                /\ base' = [elf |-> b, ldso |-> l]
                /\ image' = MapElf(IF is_shared_object(file) THEN load_ldso(image, l) ELSE image, file, b)
            /\ pc' = "stack"
    /\ UNCHANGED <<called, file, argv, envp, limit, stack, regs, cred, handlers, space>>

-----------------------------------------------------------------------------
(* The initial stack, written downwards.  A write below its bottom fails.    *)
Bottom == INIT_STACK_TOP - INIT_STACK_SIZE

Write(st, at, len, what) ==
    [pos |-> at, writes |-> Append(st.writes, [at |-> at, len |-> len, what |-> what]),
     failed |-> st.failed \/ at < Bottom]

write_u64(st, what) == Write(st, align_down(st.pos - 8, 8), 8, what)
write_bytes(st, len, what) == Write(st, st.pos - len, len, what)

\* The place of a write of w.
Address(st, w) == (CHOOSE x \in {st.writes[i] : i \in DOMAIN st.writes} : x.what = w).at

RECURSIVE WriteStrings(_, _)
WriteStrings(st, ws) ==
    IF ws = <<>> \/ st.failed THEN st
    ELSE WriteStrings(write_bytes(st, Head(ws)[3], Head(ws)), Tail(ws))

Rev(s) == [i \in 1..Len(s) |-> s[Len(s) + 1 - i]]

write_envp_strings(st) == WriteStrings(st, envp)
write_argv_strings(st) == WriteStrings(st, Rev(argv))

\* `init_aux_vec` and what the stack adds, by ascending key.
PhSegs(f) ==
    {i \in DOMAIN FileTable[f].segs :
        /\ FileTable[f].segs[i].offset <= FileTable[f].phoff
        /\ FileTable[f].phoff < FileTable[f].segs[i].offset + FileTable[f].segs[i].size}

ph_addr(f) ==
    LET i == CHOOSE i \in PhSegs(f) : \A j \in PhSegs(f) : i <= j
    IN  FileTable[f].phoff - FileTable[f].segs[i].offset + FileTable[f].segs[i].vaddr

base_load_address_offset(f) == FileTable[f].segs[1].vaddr - FileTable[f].segs[1].offset

AT_NULL == 0

\* The values are addresses, or numbers that nothing here depends on.
init_aux_vec(st) ==
    <<<<3, (IF is_shared_object(file) THEN ph_addr(file) + base.elf ELSE ph_addr(file))>>,
      <<4, 0>>, <<5, 0>>, <<6, PAGE_SIZE>>>>
    \o (IF is_shared_object(file) THEN <<<<7, base.ldso>>>> ELSE <<>>)
    \o <<<<9, (IF is_shared_object(file) THEN F.entry + base.elf - base_load_address_offset(file) ELSE F.entry)>>,
         <<25, Address(st, <<"random", 0, 0>>)>>, <<33, VDSO_TEXT_BASE>>>>

adjust_stack_alignment(st, aux) ==
    LET st1 == write_u64(st, <<"pad", 0, 0>>)
        rest == (Len(aux) + 1) * 16 + (Len(envp) + 1) * 8 + (Len(argv) + 1) * 8 + 8
    IN  IF (st1.pos - rest) % 16 # 0 THEN write_u64(st1, <<"pad", 1, 0>>) ELSE st1

RECURSIVE WriteAux(_, _)
WriteAux(st, aux) ==
    IF aux = <<>> \/ st.failed THEN st
    ELSE WriteAux(write_u64(write_u64(st, <<"num", Head(aux)[2], 0>>), <<"num", Head(aux)[1], 0>>), Tail(aux))

write_aux_vec(st, aux) ==
    WriteAux(write_u64(write_u64(st, <<"num", 0, 0>>), <<"num", AT_NULL, 0>>), aux)

RECURSIVE WriteNumbers(_, _)
WriteNumbers(st, ns) ==
    IF ns = <<>> \/ st.failed THEN st
    ELSE WriteNumbers(write_u64(st, <<"num", Head(ns), 0>>), Tail(ns))

Pointers(st, ws) == [i \in 1..Len(ws) |-> Address(st, ws[i])]

write_pointers(st, ws, strings) ==
    WriteNumbers(write_u64(st, <<"num", 0, 0>>), Rev(Pointers(strings, ws)))

write_stack_content ==
    LET s1 == write_bytes(NoStack, PAGE_SIZE, <<"zeros", 0, 0>>)
        s2 == write_argv_strings(write_envp_strings(s1))
        s3 == write_bytes(s2, RANDOM_LEN, <<"random", 0, 0>>)
        aux == init_aux_vec(s3)
        s4 == write_aux_vec(adjust_stack_alignment(s3, aux), aux)
        s5 == write_pointers(write_pointers(s4, envp, s3), argv, s3)
    IN  write_u64(s5, <<"num", Len(argv), 0>>)

\* An error once the segments are being mapped ends the process.
Stack ==
    /\ pc = "stack"
    /\ IF PhSegs(file) = {} THEN pc' = "dead" /\ UNCHANGED stack
       ELSE \E st \in {write_stack_content} :
                IF st.failed THEN pc' = "dead" /\ UNCHANGED stack
                ELSE pc' = "start" /\ stack' = st
    /\ UNCHANGED <<called, file, argv, envp, limit, image, base, regs, cred, handlers, space>>

set_uid_from_elf(f) == IF FileTable[f].setuid THEN "owner" ELSE cred

entry_point == IF is_shared_object(file) THEN FileTable[ldso_path(file)].entry + base.ldso ELSE F.entry

\* The rest of `do_execve`; the entry is the interpreter's if there is one.  It is
\* the file that was named whose set-user-id bit counts.
Start ==
    /\ pc = "start"
    /\ pc' = "running" /\ space' = "new" /\ handlers' = FALSE
    /\ cred' = set_uid_from_elf(called)
    /\ regs' = [rip |-> entry_point, rsp |-> stack.pos]
    /\ UNCHANGED <<called, file, argv, envp, limit, image, stack, base>>

\* A failed call returns to the program that made it.
Return ==
    /\ pc = "failed" /\ pc' = "user"
    /\ called' = NoFile /\ file' = NoFile /\ argv' = <<>> /\ envp' = <<>> /\ limit' = 0
    /\ UNCHANGED <<image, stack, base, regs, cred, handlers, space>>

EXNext ==
    \/ \E f \in DOMAIN FileTable, a \in ArgLens, e \in EnvLens : sys_execve(f, a, e)
    \/ Shebang \/ Clear \/ Parse \/ Map \/ Stack \/ Start \/ Return

EXSpec == EXInit /\ [][EXNext]_exvars

-----------------------------------------------------------------------------
(* What the new program finds.  `Word(a)` is the number at address a.        *)
At(a) == {i \in DOMAIN stack.writes : stack.writes[i].at = a /\ stack.writes[i].what[1] = "num"}
Word(a) == stack.writes[CHOOSE i \in At(a) : TRUE].what[2]
IsWord(a) == Cardinality(At(a)) = 1

\* The pointers from a on name the strings of ws in order and end with null.
Vector(a, ws) ==
    /\ \A i \in 0..Len(ws) : IsWord(a + 8 * i)
    /\ \A i \in 1..Len(ws) : Word(a + 8 * (i - 1)) = Address(stack, ws[i])
    /\ Word(a + 8 * Len(ws)) = 0

\* The keys from a on, up to AT_NULL.
AuxOk(a, n) ==
    /\ \A i \in 0..(2 * n + 1) : IsWord(a + 8 * i)
    /\ \A i \in 0..(n - 1) : Word(a + 16 * i) # AT_NULL
    /\ Word(a + 16 * n) = AT_NULL

\* The value of key k.
Aux(a, n, k) == Word(a + 8 + 16 * CHOOSE i \in 0..(n - 1) : Word(a + 16 * i) = k)

Disjoint ==
    \A i, j \in DOMAIN stack.writes : i # j =>
        \/ stack.writes[i].at + stack.writes[i].len <= stack.writes[j].at
        \/ stack.writes[j].at + stack.writes[j].len <= stack.writes[i].at

StackReads ==
    LET sp == regs.rsp
        env == sp + 8 + 8 * (Len(argv) + 1)
        aux == env + 8 * (Len(envp) + 1)
    IN  /\ sp % 16 = 0 /\ sp >= Bottom
        /\ IsWord(sp) /\ Word(sp) = Len(argv)
        /\ Vector(sp + 8, argv) /\ Vector(env, envp)
        /\ LET n == IF is_shared_object(file) THEN 8 ELSE 7 IN
            /\ AuxOk(aux, n)
            /\ image[Aux(aux, n, 3)] = <<file, F.phoff>>
            /\ image[Aux(aux, n, 33)] = <<"vdso", 0>>
            /\ Aux(aux, n, 9) = base.elf + F.entry
        /\ Disjoint

\* Each byte of a segment is the file's, or zero where the file has none.
SegmentsIn(f, at) ==
    \A i \in DOMAIN FileTable[f].segs : LET s == FileTable[f].segs[i] IN
        \A k \in 0..(s.mem - 1) :
            /\ at + s.vaddr + k \in DOMAIN image
            /\ image[at + s.vaddr + k] = IF k < s.size THEN <<f, s.offset + k>> ELSE Zero

\* A program that was started finds itself whole: every byte of its segments and
\* of its interpreter's where their headers say, and, reading upwards from an
\* aligned stack pointer, its arguments, its environment and its auxiliary
\* vector, for any number and length of arguments, through a script or not.
ProgramWhole ==
    pc = "running" =>
        /\ StackReads
        /\ SegmentsIn(file, base.elf)
        /\ is_shared_object(file) => SegmentsIn(ldso_path(file), base.ldso)
        /\ regs.rip \in DOMAIN image /\ image[regs.rip] # Zero
        /\ F.type = "elf" /\ space = "new" /\ ~handlers

\* "Since the process_vm is cleared, the process cannot return to user space
\* again": a program whose call failed still has its memory.
FailedKeepsMemory == pc = "user" => space = "old"
=============================================================================

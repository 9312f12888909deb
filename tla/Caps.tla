-------------------------------- MODULE Caps --------------------------------
(***************************************************************************)
(* VMOs and VMARs as capabilities (vm/vmo/{dyn_cap,static_cap,options}.rs, *)
(* vm/vmar/{dyn_cap,static_cap,options}.rs): the rights that every         *)
(* operation asks for, and the rights that it hands out.                   *)
(* A capability is dynamic (Rights, a value) or static (TRights, a type).  *)
(* The `require' attribute refuses a static call at compile time; here it  *)
(* is a guard like the runtime check of the dynamic one.                   *)
(* Pages, ranges and free regions are in Vm.  A range of a VMAR is         *)
(* the set of mappings in it; mappings are numbered in address order.  Of  *)
(* the page table entries only those matter here that a fault for reading  *)
(* gives a COW child: they show a frame of another VMO.                    *)
(***************************************************************************)
EXTENDS Integers

CONSTANTS MaxVmo, MaxVmar, MaxCap, MaxMapping,   \* bounds of the instance
          PermSets,       \* the permissions that are mapped and protected with
          RootRights,     \* the type arguments that VMOs are allocated with
          Masks           \* the masks and types that capabilities are restricted to

All == {"DUP", "READ", "WRITE", "EXEC", "SIGNAL"}

ASSUME CapAssumption ==
  /\ MaxVmo \in Nat /\ MaxVmar \in Nat /\ MaxCap \in Nat /\ MaxMapping \in Nat
  /\ PermSets \subseteq SUBSET All /\ RootRights \subseteq SUBSET All
  /\ Masks \subseteq SUBSET All

VARIABLES vmo,       \* VMO -> [from, cow, flags]; `from' is the parent, 0 for none
          vmar,      \* VMAR -> its parent, 0 for a root; -1 for one that does not exist
          cap,       \* capability -> [of, id, dyn, rights]; `limit', a ghost: the last mask
          mapping,   \* mapping -> [vmar, vmo, rights (those of its Vmo<Rights>), perms]
          shown,     \* the mappings with entries that show an inherited frame for reading
          open,      \* the mappings with entries that show one for writing
          gave,      \* ghost: VMO -> the rights that its allocation gave out
          changed,   \* ghost: the VMOs whose memory was written
          leaked,    \* ghost: <<w, v>>: memory of w was written through an entry for v
          halt       \* a panic

entryVars == <<shown, open, leaked>>
capvars == <<vmo, vmar, cap, mapping, entryVars, gave, changed, halt>>

NoVmo == [from |-> -1, cow |-> FALSE, flags |-> {}]
NoCap == [of |-> "none", id |-> 0, dyn |-> FALSE, rights |-> {}, limit |-> All]
NoMapping == [vmar |-> 0, vmo |-> 0, rights |-> {}, perms |-> {}]
Vmos == {v \in 1..MaxVmo : vmo[v] # NoVmo}
Mappings == {m \in 1..MaxMapping : mapping[m] # NoMapping}
CapsOf(kind) == {c \in 1..MaxCap : cap[c].of = kind}
FreshVmo == {v \in 1..MaxVmo : vmo[v] = NoVmo /\ \A w \in 1..(v - 1) : vmo[w] # NoVmo}
FreshCap == {c \in 1..MaxCap : cap[c] = NoCap /\ \A d \in 1..(c - 1) : cap[d] # NoCap}
FreshMapping == {m \in 1..MaxMapping : mapping[m] = NoMapping}
FreshVmar == {a \in 1..MaxVmar : vmar[a] = -1 /\ \A b \in 1..(a - 1) : vmar[b] # -1}

(* The VMOs that are reached from v through the parents of members of      *)
(* along: the least set with v that is closed under these steps.           *)
Line(v, along) == {w \in Vmos : \A S \in SUBSET Vmos :
                     v \in S /\ (\A x \in S \intersect along : vmo[x].from \in S) => w \in S}

(* The VMOs whose frames v writes: a slice child shares those of its       *)
(* parent (Vm!should_share_frame_with_parent), a COW child does not.       *)
Sharing == {v \in Vmos : vmo[v].from # 0 /\ ~vmo[v].cow}
Home(v) == Line(v, Sharing)

(* The VMOs that a frame which the COW child v has inherited may be of:    *)
(* its parent or, when that had not copied the page either, one further up.*)
Cow == {v \in Vmos : vmo[v].from # 0 /\ vmo[v].cow}
Lenders(v) == Line(vmo[v].from, Cow)

CapInit == /\ vmo = [v \in 1..MaxVmo |-> NoVmo]
           /\ vmar = [a \in 1..MaxVmar |-> -1]
           /\ cap = [c \in 1..MaxCap |-> NoCap]
           /\ mapping = [m \in 1..MaxMapping |-> NoMapping]
           /\ shown = {} /\ open = {} /\ leaked = {}
           /\ gave = [v \in 1..MaxVmo |-> {}]
           /\ changed = {}
           /\ halt = FALSE

-----------------------------------------------------------------------------
(* VMOs.                                                                   *)

(* contains, for both flavours.                                            *)
check_rights(c, rights) == rights \subseteq cap[c].rights

Made(c, of, id, dyn, rights) ==
  cap' = [cap EXCEPT ![c] = [of |-> of, id |-> id, dyn |-> dyn, rights |-> rights,
                              limit |-> All]]

(* VmoOptions<Rights>::alloc.                                              *)
AllocDyn(flags) ==
  \E v \in FreshVmo, c \in FreshCap :
    /\ vmo' = [vmo EXCEPT ![v] = [from |-> 0, cow |-> FALSE, flags |-> flags]]
    /\ Made(c, "vmo", v, TRUE, All)
    /\ gave' = [gave EXCEPT ![v] = All]
    /\ UNCHANGED <<vmar, mapping, entryVars, changed, halt>>

(* VmoOptions<TRightSet<R>>::alloc.                                        *)
AllocStatic(flags, R) ==
  \E v \in FreshVmo, c \in FreshCap :
    /\ vmo' = [vmo EXCEPT ![v] = [from |-> 0, cow |-> FALSE, flags |-> flags]]
    /\ Made(c, "vmo", v, FALSE, R)
    /\ gave' = [gave EXCEPT ![v] = R]
    /\ UNCHANGED <<vmar, mapping, entryVars, changed, halt>>

(* The flags of a child: only a COW child may be given RESIZABLE.          *)
SliceFlags == {}
CowFlags(wanted) == wanted \intersect {"RESIZABLE"}

(* The rights of the child.                                                *)
SliceRights(c) == cap[c].rights
CowRights(c) == IF cap[c].dyn THEN cap[c].rights ELSE cap[c].rights \union {"WRITE"}

(* new_slice_child, then VmoChildOptions<_, VmoSliceChild>::alloc.         *)
SliceChild(c) ==
  /\ check_rights(c, {"DUP"})
  /\ \E v \in FreshVmo, d \in FreshCap :
       /\ vmo' = [vmo EXCEPT ![v] = [from |-> cap[c].id, cow |-> FALSE, flags |-> SliceFlags]]
       /\ Made(d, "vmo", v, cap[c].dyn, SliceRights(c))
       /\ gave' = [gave EXCEPT ![v] = SliceRights(c)]
  /\ UNCHANGED <<vmar, mapping, entryVars, changed, halt>>

(* new_cow_child, then VmoChildOptions<_, VmoCowChild>::alloc.             *)
CowChild(c, flags) ==
  /\ check_rights(c, {"DUP"})
  /\ \E v \in FreshVmo, d \in FreshCap :
       /\ vmo' = [vmo EXCEPT ![v] = [from |-> cap[c].id, cow |-> TRUE,
                                     flags |-> CowFlags(flags)]]
       /\ Made(d, "vmo", v, cap[c].dyn, CowRights(c))
       /\ gave' = [gave EXCEPT ![v] = CowRights(c)]
  /\ UNCHANGED <<vmar, mapping, entryVars, changed, halt>>

(* write_bytes, clear, commit_page, commit, decommit: they need WRITE.     *)
Write(c) ==
  /\ check_rights(c, {"WRITE"})
  /\ changed' = changed \union Home(cap[c].id)
  /\ UNCHANGED <<vmo, vmar, cap, mapping, entryVars, gave, halt>>

(* resize asserts that the VMO is resizable; it changes this VMO only.     *)
Resize(c) ==
  /\ check_rights(c, {"WRITE"})
  /\ halt' = ("RESIZABLE" \notin vmo[cap[c].id].flags)
  /\ changed' = IF halt' THEN changed ELSE changed \union {cap[c].id}
  /\ UNCHANGED <<vmo, vmar, cap, mapping, entryVars, gave>>

Dup(c) == /\ check_rights(c, {"DUP"})
          /\ \E d \in FreshCap : cap' = [cap EXCEPT ![d] = cap[c]]
          /\ UNCHANGED <<vmo, vmar, mapping, entryVars, gave, changed, halt>>

(* Vmo<Rights>::restrict.                                                  *)
RestrictDyn(c, mask) ==
  /\ cap[c].dyn
  /\ cap' = [cap EXCEPT ![c].rights = @ \union mask, ![c].limit = mask]
  /\ UNCHANGED <<vmo, vmar, mapping, entryVars, gave, changed, halt>>

(* Vmo<TRightSet<R>>::restrict and the one of Vmar.                        *)
RestrictStatic(c, R1) ==
  /\ ~cap[c].dyn
  /\ check_rights(c, R1)
  /\ cap' = [cap EXCEPT ![c].rights = R1, ![c].limit = R1]
  /\ UNCHANGED <<vmo, vmar, mapping, entryVars, gave, changed, halt>>

to_dyn(c) == /\ cap' = [cap EXCEPT ![c].dyn = TRUE]
             /\ UNCHANGED <<vmo, vmar, mapping, entryVars, gave, changed, halt>>

to_static(c, R1) == /\ cap[c].dyn
                    /\ check_rights(c, R1)
                    /\ cap' = [cap EXCEPT ![c].dyn = FALSE, ![c].rights = R1]
                    /\ UNCHANGED <<vmo, vmar, mapping, entryVars, gave, changed, halt>>

DropCap(c) == /\ cap' = [cap EXCEPT ![c] = NoCap]
              /\ UNCHANGED <<vmo, vmar, mapping, entryVars, gave, changed, halt>>

-----------------------------------------------------------------------------
(* VMARs.  Their capabilities come from new_root (all rights, or the type  *)
(* argument), new_child (those of the parent) and fork_from.               *)

NewRoot(dyn, R) ==
  \E a \in FreshVmar, c \in FreshCap :
    /\ vmar' = [vmar EXCEPT ![a] = 0]
    /\ Made(c, "vmar", a, dyn, IF dyn THEN All ELSE R)
    /\ UNCHANGED <<vmo, mapping, entryVars, gave, changed, halt>>

NewChild(c) ==
  /\ check_rights(c, {"DUP"})
  /\ \E a \in FreshVmar, d \in FreshCap : /\ vmar' = [vmar EXCEPT ![a] = cap[c].id]
                                          /\ Made(d, "vmar", a, cap[c].dyn, cap[c].rights)
  /\ UNCHANGED <<vmo, mapping, entryVars, gave, changed, halt>>

(* VmarMapOptions::check_perms: v is the capability of the VMO.            *)
check_perms(v, perms) == check_rights(v, perms)

(* new_map and build: the VMO goes into the mapping, as a Vmo<Rights>.     *)
Map(c, v, perms) ==
  /\ check_rights(c, {"DUP"})
  /\ check_perms(v, perms)
  /\ \E m \in FreshMapping :
       mapping' = [mapping EXCEPT ![m] = [vmar |-> cap[c].id, vmo |-> cap[v].id,
                                          rights |-> cap[v].rights, perms |-> perms]]
  /\ cap' = [cap EXCEPT ![v] = NoCap]
  /\ UNCHANGED <<vmo, vmar, entryVars, gave, changed, halt>>

Within(a) == {b \in 1..MaxVmar : \/ b = a
                                 \/ vmar[b] = a
                                 \/ vmar[b] > 0 /\ vmar[vmar[b]] = a}
In(a) == {m \in Mappings : mapping[m].vmar \in Within(a)}

(* VmMapping::protect of the mappings ms: entries that are there change    *)
(* with the permission, also those that show an inherited frame.           *)
Protected(ms, perms) ==
  /\ mapping' = [m \in 1..MaxMapping |->
                   IF m \in ms THEN [mapping[m] EXCEPT !.perms = perms] ELSE mapping[m]]
  /\ IF "WRITE" \in perms THEN open' = open \union (shown \intersect ms) /\ shown' = shown \ ms
     ELSE shown' = shown \union (open \intersect ms) /\ open' = open \ ms

(* Mutant: VmMapping::protect asks nothing of the VMO.                     *)
ProtectAnyway(c, perms, range) ==
  /\ check_rights(c, perms)
  /\ Protected(range, perms)
  /\ UNCHANGED <<vmo, vmar, cap, leaked, gave, changed, halt>>

(* protect: from the lowest mapping of the range up to the first whose VMO *)
(* does not allow it; what was changed before stays so.                    *)
protect(c, perms, range) ==
  /\ check_rights(c, perms)
  /\ LET refusing == {m \in range : ~(perms \subseteq mapping[m].rights)}
     IN  Protected({m \in range : \A n \in refusing : m < n}, perms)
  /\ UNCHANGED <<vmo, vmar, cap, leaked, gave, changed, halt>>

(* destroy, destroy_all and clear: no right is asked for.                  *)
destroy(c, range) ==
  /\ mapping' = [m \in 1..MaxMapping |-> IF m \in range THEN NoMapping ELSE mapping[m]]
  /\ shown' = shown \ range /\ open' = open \ range
  /\ UNCHANGED <<vmo, vmar, cap, leaked, gave, changed, halt>>

(* A write of the kernel through the VMAR (write_bytes), or one of the     *)
(* user, whose fault comes to handle_page_fault.                           *)
VmarWrite(c, m) ==
  /\ check_rights(c, {"WRITE"})
  /\ "WRITE" \in mapping[m].perms
  /\ changed' = changed \union Home(mapping[m].vmo)
  /\ UNCHANGED <<vmo, vmar, cap, mapping, entryVars, gave, halt>>

(* handle_page_fault for reading a page that the COW child has not copied. *)
ReadFault(c, m) ==
  /\ check_rights(c, {"READ"})
  /\ "READ" \in mapping[m].rights /\ "READ" \in mapping[m].perms
  /\ mapping[m].vmo \in Cow
  /\ shown' = shown \union {m}
  /\ UNCHANGED <<vmo, vmar, cap, mapping, open, leaked, gave, changed, halt>>

(* The user writes where protect has opened such an entry: no fault, and   *)
(* no right is asked for.                                                  *)
UserWrites(m) ==
  /\ \E w \in Lenders(mapping[m].vmo) :
       leaked' = leaked \union (Home(w) \X {mapping[m].vmo})
  /\ UNCHANGED <<vmo, vmar, cap, mapping, shown, open, gave, changed, halt>>

(* One of ys for each of xs, in the same order.                            *)
Ascending(xs, ys) == {f \in [xs -> ys] : \A x, y \in xs : x < y => f[x] < f[y]}
Reached(f) == {f[x] : x \in DOMAIN f}
Source(f, y) == CHOOSE x \in DOMAIN f : f[x] = y

(* fork_from, of a root VMAR: every mapping gets a COW child of its VMO,   *)
(* after dup().unwrap(); new_cow_root and VmMapping::new_cow.              *)
fork_from(c, dyn, R) ==
  LET ms == In(cap[c].id)
  IN  /\ check_rights(c, {"READ"})
      /\ vmar[cap[c].id] = 0
      /\ Within(cap[c].id) = {cap[c].id}        \* child VMARs are not followed here
      /\ \E a \in FreshVmar, d \in FreshCap,
            new \in Ascending(ms, 1..MaxVmo \ Vmos), at \in Ascending(ms, FreshMapping) :
           IF \E m \in ms : "DUP" \notin mapping[m].rights
           THEN halt' = TRUE /\ UNCHANGED <<vmo, vmar, cap, mapping, entryVars, gave, changed>>
           ELSE /\ vmar' = [vmar EXCEPT ![a] = 0]
                /\ Made(d, "vmar", a, dyn, IF dyn THEN All ELSE R)
                /\ vmo' = [v \in 1..MaxVmo |->
                             IF v \in Reached(new)
                             THEN [from |-> mapping[Source(new, v)].vmo, cow |-> TRUE,
                                   flags |-> {}]
                             ELSE vmo[v]]
                /\ gave' = [v \in 1..MaxVmo |-> IF v \in Reached(new)
                                                THEN mapping[Source(new, v)].rights ELSE gave[v]]
                /\ mapping' = [m \in 1..MaxMapping |->
                                 IF m \in Reached(at)
                                 THEN [mapping[Source(at, m)] EXCEPT
                                         !.vmar = a, !.vmo = new[Source(at, m)]]
                                 ELSE mapping[m]]
                /\ UNCHANGED <<entryVars, changed, halt>>

-----------------------------------------------------------------------------
VmoStep(c) ==
  \/ SliceChild(c)
  \/ \E f \in SUBSET {"RESIZABLE"} : CowChild(c, f)
  \/ Write(c)
  \/ Resize(c)
  \/ \E mask \in Masks : RestrictDyn(c, mask) \/ RestrictStatic(c, mask) \/ to_static(c, mask)

VmarStep(c) ==
  \/ NewChild(c)
  \/ \E v \in CapsOf("vmo"), p \in PermSets : Map(c, v, p)
  \/ \E p \in PermSets, r \in SUBSET In(cap[c].id) : protect(c, p, r)
  \/ \E r \in SUBSET In(cap[c].id) : destroy(c, r)
  \/ \E m \in In(cap[c].id) : VmarWrite(c, m) \/ ReadFault(c, m)
  \/ \E R \in RootRights : fork_from(c, FALSE, R) \/ fork_from(c, TRUE, All)
  \/ \E R1 \in Masks : RestrictStatic(c, R1)

CapNext ==
  /\ ~halt
  /\ \/ \E f \in SUBSET {"RESIZABLE"} : AllocDyn(f) \/ \E R \in RootRights : AllocStatic(f, R)
     \/ \E R \in RootRights : NewRoot(FALSE, R) \/ NewRoot(TRUE, All)
     \/ \E c \in CapsOf("vmo") : VmoStep(c) \/ to_dyn(c)
     \/ \E c \in CapsOf("vmar") : VmarStep(c)
     \/ \E m \in open : UserWrites(m)
     \/ \E c \in CapsOf("vmo") \union CapsOf("vmar") : Dup(c) \/ DropCap(c)

CapSpec == CapInit /\ [][CapNext]_capvars

-----------------------------------------------------------------------------
(* What the dynamic restrict can add.                                      *)
Added == UNION Masks

(* Authority is not made up along the way: through a capability, a VMAR or *)
(* a fault, memory was written only where every VMO that shares it was     *)
(* handed out with WRITE; past them, only frames that a COW child with     *)
(* WRITE had inherited and protect had opened; and no capability has and   *)
(* no mapping allows more than the rights its VMO came with, whatever was  *)
(* restricted, converted, mapped, forked and protected in between (the     *)
(* rights of the masks aside, which the dynamic restrict adds).            *)
AuthorityKept ==
  /\ \A v \in changed : "WRITE" \in gave[v] \union Added
  /\ \A l \in leaked : /\ l[2] \in Cow /\ "WRITE" \in gave[l[2]] \union Added
                       /\ \E w \in Lenders(l[2]) : l[1] \in Home(w)
  /\ \A m \in Mappings : mapping[m].perms \subseteq gave[mapping[m].vmo] \union Added
  /\ \A c \in CapsOf("vmo") : cap[c].rights \subseteq gave[cap[c].id] \union Added

(* A capability that restrict was called on has no right outside the mask. *)
RestrictNarrows == \A c \in CapsOf("vmo") : cap[c].rights \subseteq cap[c].limit
=============================================================================

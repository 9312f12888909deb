------------------------------ MODULE CapsProofs ------------------------------
(***************************************************************************)
(* Proofs about the objects that user programs hold as capabilities (of    *)
(* aster-rights): the memory objects and regions of Caps, and the open     *)
(* files of Handles.  For any bounds and masks, memory is used within the  *)
(* rights that its VMO was handed out with.  For any threads and           *)
(* processes, the calls on a shared open file take one range after the     *)
(* other.                                                                  *)
(***************************************************************************)
EXTENDS Caps, Handles, TLAPS

-----------------------------------------------------------------------------
(* The proof of AuthorityKept, for any bounds, rights, masks and           *)
(* permissions.  CapInv is inductive: beside the types, a capability, a    *)
(* mapping and a slice child refer to VMOs that exist and stay within what *)
(* those were handed out with, and a mapping stays within its Vmo<Rights>. *)
VmoRecords == [from : Int, cow : BOOLEAN, flags : SUBSET {"RESIZABLE"}]
CapRecords == [of : {"none", "vmo", "vmar"}, id : Int, dyn : BOOLEAN,
               rights : SUBSET All, limit : SUBSET All]
MappingRecords == [vmar : Int, vmo : Int, rights : SUBSET All, perms : SUBSET All]

CapTypeOK ==
  /\ vmo \in [1..MaxVmo -> VmoRecords]
  /\ vmar \in [1..MaxVmar -> Int]
  /\ cap \in [1..MaxCap -> CapRecords]
  /\ mapping \in [1..MaxMapping -> MappingRecords]
  /\ gave \in [1..MaxVmo -> SUBSET All]

(* v is one of the VMOs vs, and the rights are some that v was handed out  *)
(* with (g), or that restrict may have added.                              *)
Covered(vs, g, v, rights) == v \in vs /\ rights \subseteq g[v] \union Added

CapsFit == \A c \in 1..MaxCap :
             cap[c].of = "vmo" => Covered(Vmos, gave, cap[c].id, cap[c].rights)
MappingsFit == \A m \in Mappings : /\ mapping[m].perms \subseteq mapping[m].rights
                                   /\ Covered(Vmos, gave, mapping[m].vmo, mapping[m].rights)
SlicesFit == \A v \in Sharing : Covered(Vmos, gave, vmo[v].from, gave[v])
WritesFit == \A v \in changed : v \in Vmos /\ "WRITE" \in gave[v] \union Added

CapInv == CapTypeOK /\ CapsFit /\ MappingsFit /\ SlicesFit /\ WritesFit

(* What every operation keeps: a VMO that exists goes on to, and its       *)
(* record and the rights that it was handed out with stay what they were.  *)
VmosStay == Vmos \subseteq Vmos' /\ \A v \in Vmos : vmo'[v] = vmo[v] /\ gave'[v] = gave[v]

(* A leaf that names no prover is for Zenon.                               *)
USE ZenonT(30)

(* What is covered stays so.                                               *)
LEMMA CoveredStays ==
  ASSUME VmosStay, NEW v, NEW R, Covered(Vmos, gave, v, R) PROVE Covered(Vmos', gave', v, R)
BY DEF VmosStay, Covered

(* The VMOs of W are new: they are handed out, as slices or otherwise, by  *)
(* holders of the rights.                                                  *)
LEMMA VmosGrow ==
  ASSUME CapInv, NEW W \in SUBSET ((1..MaxVmo) \ Vmos),
         \A v \in (1..MaxVmo) \ W : vmo'[v] = vmo[v] /\ gave'[v] = gave[v],
         \A v \in W : /\ vmo'[v] # NoVmo
                      /\ vmo'[v].from # 0 /\ ~vmo'[v].cow =>
                           Covered(Vmos, gave, vmo'[v].from, gave'[v])
  PROVE  VmosStay /\ W \subseteq Vmos' /\ SlicesFit' /\ (changed' = changed => WritesFit')
<1>1. Vmos' = Vmos \union W BY DEF Vmos
<1>2. VmosStay BY <1>1 DEF VmosStay, Vmos
<1>3. SlicesFit'
  <2>1. SUFFICES ASSUME NEW v \in Sharing' PROVE Covered(Vmos', gave', vmo'[v].from, gave'[v])
    BY DEF SlicesFit
  <2>2. CASE v \in W BY <1>2, <2>1, <2>2, CoveredStays DEF Sharing
  <2>3. CASE v \notin W
    <3>1. v \in Sharing /\ vmo'[v] = vmo[v] /\ gave'[v] = gave[v]
      BY <1>1, <2>1, <2>3 DEF Sharing, Vmos
    <3>2. Covered(Vmos, gave, vmo[v].from, gave[v]) BY <3>1 DEF CapInv, SlicesFit
    <3>3. QED BY <1>2, <3>1, <3>2, CoveredStays
  <2>4. QED BY <2>2, <2>3
<1>4. ASSUME changed' = changed PROVE WritesFit'
  BY <1>2, <1>4 DEF CapInv, WritesFit, VmosStay
<1>5. QED BY <1>1, <1>2, <1>3, <1>4

(* One capability is put in its place, over NoCap or over the old one.     *)
LEMMA CapsPut ==
  ASSUME CapTypeOK, CapsFit, VmosStay, NEW c \in 1..MaxCap, NEW x \in CapRecords,
         x.of = "vmo" => Covered(Vmos', gave', x.id, x.rights), cap' = [cap EXCEPT ![c] = x]
  PROVE  CapsFit' /\ cap' \in [1..MaxCap -> CapRecords]
<1>1. cap' \in [1..MaxCap -> CapRecords] /\ cap'[c] = x
      /\ \A d \in (1..MaxCap) \ {c} : cap'[d] = cap[d]
  BY DEF CapTypeOK
<1>2. ASSUME NEW d \in 1..MaxCap, cap'[d].of = "vmo"
      PROVE  Covered(Vmos', gave', cap'[d].id, cap'[d].rights)
  <2>1. CASE d = c BY <1>1, <1>2, <2>1
  <2>2. CASE d # c
    <3>1. cap'[d] = cap[d] BY <1>1, <2>2
    <3>2. Covered(Vmos, gave, cap[d].id, cap[d].rights) BY <1>2, <3>1 DEF CapsFit
    <3>3. QED BY <3>1, <3>2, CoveredStays
  <2>3. QED BY <2>1, <2>2
<1>3. QED BY <1>1, <1>2 DEF CapsFit

(* The mappings stay within the rights when they are left alone.           *)
LEMMA MappingsStay ==
  ASSUME MappingsFit, VmosStay, mapping' = mapping PROVE MappingsFit'
<1>1. SUFFICES ASSUME NEW m \in Mappings
               PROVE  /\ mapping[m].perms \subseteq mapping[m].rights
                      /\ Covered(Vmos', gave', mapping[m].vmo, mapping[m].rights)
  BY DEF MappingsFit, Mappings
<1>2. QED BY CoveredStays DEF MappingsFit

(* Writing through a VMO writes only where WRITE was handed out.           *)
LEMMA HomeIsCovered ==
  ASSUME CapInv, NEW v \in Vmos, "WRITE" \in gave[v] \union Added, NEW w \in Home(v)
  PROVE  w \in Vmos /\ "WRITE" \in gave[w] \union Added
<1> DEFINE S == {x \in Vmos : "WRITE" \in gave[x] \union Added}
<1>1. ASSUME NEW x \in S \intersect Sharing PROVE vmo[x].from \in S
  <2>1. Covered(Vmos, gave, vmo[x].from, gave[x]) BY <1>1 DEF CapInv, SlicesFit
  <2>2. QED BY <1>1, <2>1 DEF Covered
<1>2. S \in SUBSET Vmos /\ v \in S OBVIOUS
<1>3. w \in S BY <1>1, <1>2 DEF Home, Line
<1>4. QED BY <1>3

(* A VMO is made, and a capability for it.                                 *)
LEMMA HandedOut ==
  ASSUME CapInv, NEW v \in FreshVmo, NEW d \in FreshCap, NEW r \in VmoRecords,
         NEW R \in SUBSET All, NEW dyn \in BOOLEAN, r.from \in Nat,
         r.from # 0 /\ ~r.cow => Covered(Vmos, gave, r.from, R),
         vmo' = [vmo EXCEPT ![v] = r], gave' = [gave EXCEPT ![v] = R],
         Made(d, "vmo", v, dyn, R), UNCHANGED <<vmar, mapping, changed, halt>>
  PROVE  CapInv'
<1> DEFINE x == [of |-> "vmo", id |-> v, dyn |-> dyn, rights |-> R, limit |-> All]
<1>1. v \in 1..MaxVmo /\ v \notin Vmos /\ d \in 1..MaxCap BY DEF FreshVmo, FreshCap, Vmos
<1>2. /\ vmo' \in [1..MaxVmo -> VmoRecords] /\ gave' \in [1..MaxVmo -> SUBSET All]
      /\ vmo'[v] = r /\ gave'[v] = R
      /\ \A w \in (1..MaxVmo) \ {v} : vmo'[w] = vmo[w] /\ gave'[w] = gave[w]
  BY <1>1 DEF CapInv, CapTypeOK
<1>3. r # NoVmo BY SMTT(60) DEF NoVmo
<1>4. VmosStay /\ v \in Vmos' /\ SlicesFit' /\ WritesFit'
  <2>1. {v} \in SUBSET ((1..MaxVmo) \ Vmos) BY <1>1
  <2>2. VmosStay /\ {v} \subseteq Vmos' /\ SlicesFit' /\ (changed' = changed => WritesFit')
    BY ZenonT(60), <1>2, <1>3, <2>1, VmosGrow
  <2>3. QED BY <2>2
<1>5. x \in CapRecords BY SMTT(60), <1>1 DEF CapRecords
<1>6. Covered(Vmos', gave', x.id, x.rights) BY <1>2, <1>4 DEF Covered
<1>7. cap' = [cap EXCEPT ![d] = x] BY DEF Made
<1> HIDE DEF x
<1>8. CapsFit' /\ cap' \in [1..MaxCap -> CapRecords]
  BY <1>1, <1>4, <1>5, <1>6, <1>7, CapsPut DEF CapInv
<1>9. MappingsFit' BY <1>4, MappingsStay DEF CapInv
<1>10. QED BY <1>2, <1>4, <1>8, <1>9 DEF CapInv, CapTypeOK

(* A capability is made, changed or dropped.                               *)
LEMMA CapChanged ==
  ASSUME CapInv, NEW d \in 1..MaxCap, NEW x \in CapRecords,
         x.of = "vmo" => Covered(Vmos, gave, x.id, x.rights),
         cap' = [cap EXCEPT ![d] = x], vmar' \in [1..MaxVmar -> Int],
         UNCHANGED <<vmo, mapping, gave, changed>>
  PROVE  CapInv'
<1>1. Vmos' = Vmos /\ Sharing' = Sharing BY DEF Vmos, Sharing
<1>2. VmosStay BY <1>1 DEF VmosStay
<1>3. CapsFit' /\ cap' \in [1..MaxCap -> CapRecords] BY <1>1, <1>2, CapsPut DEF CapInv
<1>4. MappingsFit' BY <1>2, MappingsStay DEF CapInv
<1>5. SlicesFit' /\ WritesFit' BY <1>1 DEF CapInv, SlicesFit, WritesFit
<1>6. QED BY <1>3, <1>4, <1>5 DEF CapInv, CapTypeOK

(* Memory is written through v.                                            *)
LEMMA Written ==
  ASSUME CapInv, NEW v \in Vmos, "WRITE" \in gave[v] \union Added,
         changed' \subseteq changed \union Home(v) \union {v},
         UNCHANGED <<vmo, vmar, cap, mapping, gave>>
  PROVE  CapInv'
<1>1. Vmos' = Vmos /\ Sharing' = Sharing /\ Mappings' = Mappings
  BY DEF Vmos, Sharing, Mappings
<1>2. WritesFit'
  <2>1. SUFFICES ASSUME NEW w \in changed' PROVE w \in Vmos /\ "WRITE" \in gave[w] \union Added
    BY <1>1 DEF WritesFit
  <2>2. CASE w \in changed BY <2>2 DEF CapInv, WritesFit
  <2>3. CASE w \in Home(v) BY <2>3, HomeIsCovered
  <2>4. QED BY <2>2, <2>3
<1>3. QED BY <1>1, <1>2 DEF CapInv, CapTypeOK, CapsFit, MappingsFit, SlicesFit

(* Only mappings change.                                                   *)
LEMMA Remapped ==
  ASSUME CapInv, mapping' \in [1..MaxMapping -> MappingRecords],
         \A m \in 1..MaxMapping : mapping'[m] # NoMapping =>
           /\ mapping'[m].perms \subseteq mapping'[m].rights
           /\ Covered(Vmos, gave, mapping'[m].vmo, mapping'[m].rights),
         UNCHANGED <<vmo, vmar, gave, changed>>, CapsFit',
         cap' \in [1..MaxCap -> CapRecords]
  PROVE  CapInv'
<1>1. Vmos' = Vmos /\ Sharing' = Sharing BY DEF Vmos, Sharing
<1>2. MappingsFit' BY <1>1 DEF MappingsFit, Mappings
<1>3. QED BY <1>1, <1>2 DEF CapInv, CapTypeOK, SlicesFit, WritesFit

(* Nothing but page table entries changes.                                 *)
LEMMA SameKeeps ==
  ASSUME CapInv, UNCHANGED <<vmo, vmar, cap, mapping, gave, changed>> PROVE CapInv'
BY DEF CapInv, CapTypeOK, CapsFit, MappingsFit, SlicesFit, WritesFit, Vmos, Mappings, Sharing

(* The operations on a VMO capability.                                     *)
LEMMA VmoStepKeeps ==
  ASSUME CapInv, NEW c \in CapsOf("vmo"), VmoStep(c) \/ to_dyn(c)
  PROVE  CapInv'
<1>1. c \in 1..MaxCap /\ cap[c].of = "vmo" /\ cap[c] \in CapRecords
      /\ Covered(Vmos, gave, cap[c].id, cap[c].rights)
      /\ cap[c].id \in Vmos /\ Vmos \subseteq Nat
  BY SMTT(60) DEF CapInv, CapTypeOK, CapsOf, CapsFit, Covered, Vmos
<1>2. CASE SliceChild(c)
  <2>1. PICK v \in FreshVmo, d \in FreshCap :
          /\ vmo' = [vmo EXCEPT ![v] = [from |-> cap[c].id, cow |-> FALSE, flags |-> SliceFlags]]
          /\ Made(d, "vmo", v, cap[c].dyn, SliceRights(c))
          /\ gave' = [gave EXCEPT ![v] = SliceRights(c)]
    BY <1>2 DEF SliceChild
  <2>2. [from |-> cap[c].id, cow |-> FALSE, flags |-> SliceFlags] \in VmoRecords
    <3>1. SliceFlags \in SUBSET {"RESIZABLE"} BY ONLY ZenonT(30) DEF SliceFlags
    <3>2. cap[c].id \in Int BY ONLY ZenonT(30), <1>1 DEF CapRecords
    <3>3. QED BY ONLY ZenonT(30), <3>1, <3>2 DEF VmoRecords
  <2>3. SliceRights(c) \in SUBSET All /\ cap[c].dyn \in BOOLEAN /\ SliceRights(c) = cap[c].rights
    BY <1>1 DEF SliceRights, CapRecords
  <2>4. UNCHANGED <<vmar, mapping, changed, halt>> BY <1>2 DEF SliceChild
  <2>5. QED BY ZenonT(60), <1>1, <2>1, <2>2, <2>3, <2>4, HandedOut
<1>3. ASSUME NEW f \in SUBSET {"RESIZABLE"}, CowChild(c, f) PROVE CapInv'
  <2>1. PICK v \in FreshVmo, d \in FreshCap :
          /\ vmo' = [vmo EXCEPT ![v] = [from |-> cap[c].id, cow |-> TRUE, flags |-> CowFlags(f)]]
          /\ Made(d, "vmo", v, cap[c].dyn, CowRights(c))
          /\ gave' = [gave EXCEPT ![v] = CowRights(c)]
    BY <1>3 DEF CowChild
  <2>2. [from |-> cap[c].id, cow |-> TRUE, flags |-> CowFlags(f)] \in VmoRecords
    <3>1. CowFlags(f) \in SUBSET {"RESIZABLE"} BY ONLY ZenonT(30) DEF CowFlags
    <3>2. cap[c].id \in Int BY ONLY ZenonT(30), <1>1 DEF CapRecords
    <3>3. QED BY ONLY ZenonT(30), <3>1, <3>2 DEF VmoRecords
  <2>3. CowRights(c) \in SUBSET All /\ cap[c].dyn \in BOOLEAN
    BY <1>1 DEF CowRights, CapRecords, All
  <2>4. UNCHANGED <<vmar, mapping, changed, halt>> BY <1>3 DEF CowChild
  <2>5. QED BY <1>1, <2>1, <2>2, <2>3, <2>4, HandedOut
<1>4. CASE Write(c)
  <2>1. "WRITE" \in gave[cap[c].id] \union Added BY <1>1, <1>4 DEF Write, check_rights, Covered
  <2>2. QED BY <1>1, <1>4, <2>1, Written DEF Write
<1>5. CASE Resize(c)
  <2>1. "WRITE" \in gave[cap[c].id] \union Added BY <1>1, <1>5 DEF Resize, check_rights, Covered
  <2>2. changed' \subseteq changed \union Home(cap[c].id) \union {cap[c].id} BY <1>5 DEF Resize
  <2>3. QED BY <1>1, <1>5, <2>1, <2>2, Written DEF Resize
<1>6. ASSUME NEW mask \in Masks, NEW x \in CapRecords, x.of = "vmo", x.id = cap[c].id,
             x.rights \subseteq cap[c].rights \union mask, cap' = [cap EXCEPT ![c] = x],
             UNCHANGED <<vmo, vmar, mapping, gave, changed>>
      PROVE  CapInv'
  <2>1. mask \subseteq Added BY DEF Added
  <2>2. Covered(Vmos, gave, x.id, x.rights) BY <1>1, <1>6, <2>1 DEF Covered
  <2>3. vmar' \in [1..MaxVmar -> Int] BY <1>6 DEF CapInv, CapTypeOK
  <2>4. QED BY <1>1, <1>6, <2>2, <2>3, CapChanged
<1>7. ASSUME NEW mask \in Masks,
             RestrictDyn(c, mask) \/ RestrictStatic(c, mask) \/ to_static(c, mask)
      PROVE  CapInv'
  <2>1. mask \in SUBSET All BY CapAssumption
  <2>2. cap[c].rights \union mask \in SUBSET All BY <1>1, <2>1 DEF CapRecords
  <2>3. CASE RestrictDyn(c, mask)
    <3> DEFINE x == [cap[c] EXCEPT !.rights = @ \union mask, !.limit = mask]
    <3>1. /\ x \in CapRecords /\ x.of = "vmo" /\ x.id = cap[c].id
          /\ x.rights = cap[c].rights \union mask
      BY <1>1, <2>1, <2>2 DEF CapRecords
    <3>2. cap' = [cap EXCEPT ![c] = x] BY <2>3 DEF RestrictDyn
    <3>3. UNCHANGED <<vmo, vmar, mapping, gave, changed>> BY <2>3 DEF RestrictDyn
    <3> HIDE DEF x
    <3>4. QED BY <1>6, <3>1, <3>2, <3>3
  <2>4. CASE RestrictStatic(c, mask)
    <3> DEFINE x == [cap[c] EXCEPT !.rights = mask, !.limit = mask]
    <3>1. /\ x \in CapRecords /\ x.of = "vmo" /\ x.id = cap[c].id /\ x.rights = mask
      BY <1>1, <2>1 DEF CapRecords
    <3>2. cap' = [cap EXCEPT ![c] = x] BY <2>4 DEF RestrictStatic
    <3>3. UNCHANGED <<vmo, vmar, mapping, gave, changed>> BY <2>4 DEF RestrictStatic
    <3> HIDE DEF x
    <3>4. QED BY <1>6, <3>1, <3>2, <3>3
  <2>5. CASE to_static(c, mask)
    <3> DEFINE x == [cap[c] EXCEPT !.dyn = FALSE, !.rights = mask]
    <3>1. /\ x \in CapRecords /\ x.of = "vmo" /\ x.id = cap[c].id /\ x.rights = mask
      BY <1>1, <2>1 DEF CapRecords
    <3>2. cap' = [cap EXCEPT ![c] = x] BY <2>5 DEF to_static
    <3>3. UNCHANGED <<vmo, vmar, mapping, gave, changed>> BY <2>5 DEF to_static
    <3> HIDE DEF x
    <3>4. QED BY <1>6, <3>1, <3>2, <3>3
  <2>6. QED BY <1>7, <2>3, <2>4, <2>5
<1>8. CASE to_dyn(c)
  <2> DEFINE x == [cap[c] EXCEPT !.dyn = TRUE]
  <2>1. x \in CapRecords /\ x.id = cap[c].id /\ x.rights = cap[c].rights BY <1>1 DEF CapRecords
  <2>2. cap' = [cap EXCEPT ![c] = x] BY <1>8 DEF to_dyn
  <2>3. UNCHANGED <<vmo, vmar, mapping, gave, changed>> BY <1>8 DEF to_dyn
  <2> HIDE DEF x
  <2>4. vmar' \in [1..MaxVmar -> Int] BY <2>3 DEF CapInv, CapTypeOK
  <2>5. QED BY <1>1, <2>1, <2>2, <2>3, <2>4, CapChanged
<1>9. QED BY <1>2, <1>3, <1>4, <1>5, <1>7, <1>8 DEF VmoStep

(* new_map and build: what is mapped is within the rights of the VMO.      *)
LEMMA MapKeeps ==
  ASSUME CapInv, NEW c \in CapsOf("vmar"), NEW v \in CapsOf("vmo"), NEW p \in PermSets,
         Map(c, v, p)
  PROVE  CapInv'
<1>1. /\ v \in 1..MaxCap /\ cap[v].of = "vmo" /\ cap[v] \in CapRecords /\ cap[c].id \in Int
      /\ Covered(Vmos, gave, cap[v].id, cap[v].rights) /\ p \in SUBSET All
  BY CapAssumption DEF CapInv, CapTypeOK, CapsOf, CapsFit, CapRecords
<1>2. p \subseteq cap[v].rights BY DEF Map, check_perms, check_rights
<1>3. PICK m \in 1..MaxMapping :
        mapping' = [mapping EXCEPT ![m] = [vmar |-> cap[c].id, vmo |-> cap[v].id,
                                           rights |-> cap[v].rights, perms |-> p]]
  BY DEF Map, FreshMapping
<1> DEFINE y == [vmar |-> cap[c].id, vmo |-> cap[v].id, rights |-> cap[v].rights, perms |-> p]
<1>4. y \in MappingRecords BY <1>1 DEF MappingRecords, CapRecords
<1>5. /\ y.perms \subseteq y.rights /\ Covered(Vmos, gave, y.vmo, y.rights) BY <1>1, <1>2
<1>6. mapping' = [mapping EXCEPT ![m] = y] BY <1>3
<1> HIDE DEF y
<1>7. mapping' \in [1..MaxMapping -> MappingRecords] BY <1>4, <1>6 DEF CapInv, CapTypeOK
<1>8. ASSUME NEW n \in 1..MaxMapping, mapping'[n] # NoMapping
      PROVE  /\ mapping'[n].perms \subseteq mapping'[n].rights
             /\ Covered(Vmos, gave, mapping'[n].vmo, mapping'[n].rights)
  <2>1. CASE n = m BY <1>4, <1>5, <1>6, <2>1 DEF CapInv, CapTypeOK
  <2>2. CASE n # m
    <3>1. mapping'[n] = mapping[n] BY <1>6, <2>2 DEF CapInv, CapTypeOK
    <3>2. n \in Mappings BY <1>8, <3>1 DEF Mappings
    <3>3. QED BY <3>1, <3>2 DEF CapInv, MappingsFit
  <2>3. QED BY <2>1, <2>2
<1>9. UNCHANGED <<vmo, vmar, gave, changed>> /\ cap' = [cap EXCEPT ![v] = NoCap] BY DEF Map
<1>10. CapsFit' /\ cap' \in [1..MaxCap -> CapRecords]
  <2>1. NoCap \in CapRecords /\ NoCap.of # "vmo" BY SMTT(60) DEF NoCap, CapRecords
  <2>2. VmosStay BY <1>9 DEF VmosStay, Vmos
  <2>3. QED BY <1>1, <1>9, <2>1, <2>2, CapsPut DEF CapInv
<1>11. QED BY <1>7, <1>8, <1>9, <1>10, Remapped

(* protect and destroy.                                                    *)
LEMMA RangeKeeps ==
  ASSUME CapInv, NEW c \in CapsOf("vmar"), NEW range \in SUBSET Mappings,
         \/ \E p \in PermSets : protect(c, p, range)
         \/ destroy(c, range)
  PROVE  CapInv'
<1>1. mapping \in [1..MaxMapping -> MappingRecords] /\ Mappings \subseteq 1..MaxMapping
  BY DEF CapInv, CapTypeOK, Mappings
<1>2. UNCHANGED <<vmo, vmar, cap, gave, changed>> BY DEF protect, destroy
<1>3. CapsFit' /\ cap' \in [1..MaxCap -> CapRecords]
  BY <1>2 DEF CapInv, CapTypeOK, CapsFit, Vmos
<1>4. SUFFICES
        /\ mapping' \in [1..MaxMapping -> MappingRecords]
        /\ \A m \in 1..MaxMapping : mapping'[m] # NoMapping =>
             /\ mapping'[m].perms \subseteq mapping'[m].rights
             /\ Covered(Vmos, gave, mapping'[m].vmo, mapping'[m].rights)
  BY <1>2, <1>3, Remapped
<1>5. \A m \in Mappings : /\ mapping[m].perms \subseteq mapping[m].rights
                          /\ Covered(Vmos, gave, mapping[m].vmo, mapping[m].rights)
  BY DEF CapInv, MappingsFit
<1>6. ASSUME NEW p \in PermSets, protect(c, p, range)
      PROVE  \A m \in 1..MaxMapping :
               \/ mapping'[m] = mapping[m]
               \/ /\ m \in Mappings /\ p \subseteq mapping[m].rights
                  /\ mapping'[m] = [mapping[m] EXCEPT !.perms = p]
  BY SMTT(60), <1>6 DEF protect, Protected
<1>7. CASE \E p \in PermSets : protect(c, p, range)
  <2>1. PICK p \in PermSets : protect(c, p, range) BY <1>7
  <2>2. p \in SUBSET All BY CapAssumption
  <2>3. mapping' \in [1..MaxMapping -> MappingRecords]
    <3>1. DOMAIN mapping' = 1..MaxMapping /\ mapping' = [m \in 1..MaxMapping |-> mapping'[m]]
      BY <2>1 DEF protect, Protected
    <3>2. \A m \in 1..MaxMapping : mapping'[m] \in MappingRecords
      <4>1. \A m \in 1..MaxMapping : [mapping[m] EXCEPT !.perms = p] \in MappingRecords
        BY ONLY ZenonT(30), <1>1, <2>2 DEF MappingRecords
      <4>2. QED BY ONLY ZenonT(30), <1>1, <1>6, <2>1, <4>1
    <3>3. QED BY <3>1, <3>2
  <2>4. ASSUME NEW m \in 1..MaxMapping, mapping'[m] # NoMapping
        PROVE  /\ mapping'[m].perms \subseteq mapping'[m].rights
               /\ Covered(Vmos, gave, mapping'[m].vmo, mapping'[m].rights)
    <3>1. CASE mapping'[m] = mapping[m] BY <1>5, <2>4, <3>1 DEF Mappings
    <3>2. CASE /\ m \in Mappings /\ p \subseteq mapping[m].rights
               /\ mapping'[m] = [mapping[m] EXCEPT !.perms = p]
      <4>1. /\ mapping'[m].perms = p /\ mapping'[m].rights = mapping[m].rights
            /\ mapping'[m].vmo = mapping[m].vmo
        BY <1>1, <3>2 DEF MappingRecords
      <4>2. QED BY <1>5, <3>2, <4>1
    <3>3. QED BY <1>6, <2>1, <3>1, <3>2
  <2>5. QED BY <2>3, <2>4
<1>8. CASE destroy(c, range)
  <2>1. mapping' = [m \in 1..MaxMapping |-> IF m \in range THEN NoMapping ELSE mapping[m]]
    BY <1>8 DEF destroy
  <2>2. NoMapping \in MappingRecords BY SMTT(60) DEF NoMapping, MappingRecords
  <2>3. mapping' \in [1..MaxMapping -> MappingRecords] BY <1>1, <2>1, <2>2
  <2>4. \A m \in 1..MaxMapping : mapping'[m] = NoMapping \/ mapping'[m] = mapping[m] BY <2>1
  <2>5. QED BY <1>5, <2>3, <2>4 DEF Mappings
<1>9. QED BY <1>7, <1>8

(* What Source finds.                                                      *)
LEMMA SourceReaches ==
  ASSUME NEW f, NEW y \in Reached(f) PROVE Source(f, y) \in DOMAIN f /\ f[Source(f, y)] = y
BY DEF Reached, Source

(* fork_from: the new VMOs are COW children, and a new mapping has the     *)
(* rights and permissions of the one it copies.                            *)
LEMMA ForkKeeps ==
  ASSUME CapInv, NEW c \in CapsOf("vmar"), NEW dyn \in BOOLEAN, NEW R \in SUBSET All,
         fork_from(c, dyn, R)
  PROVE  CapInv'
<1> DEFINE ms == In(cap[c].id)
<1>1. PICK a \in FreshVmar, d \in FreshCap,
           new \in Ascending(ms, 1..MaxVmo \ Vmos), at \in Ascending(ms, FreshMapping) :
        IF \E m \in ms : "DUP" \notin mapping[m].rights
        THEN halt' = TRUE /\ UNCHANGED <<vmo, vmar, cap, mapping, entryVars, gave, changed>>
        ELSE /\ vmar' = [vmar EXCEPT ![a] = 0]
             /\ Made(d, "vmar", a, dyn, IF dyn THEN All ELSE R)
             /\ vmo' = [v \in 1..MaxVmo |->
                          IF v \in Reached(new)
                          THEN [from |-> mapping[Source(new, v)].vmo, cow |-> TRUE,
                                flags |-> {}]
                          ELSE vmo[v]]
             /\ gave' = [v \in 1..MaxVmo |-> IF v \in Reached(new)
                                             THEN mapping[Source(new, v)].rights ELSE gave[v]]
             /\ mapping' = [m \in 1..MaxMapping |->
                              IF m \in Reached(at)
                              THEN [mapping[Source(at, m)] EXCEPT
                                      !.vmar = a, !.vmo = new[Source(at, m)]]
                              ELSE mapping[m]]
             /\ UNCHANGED <<entryVars, changed, halt>>
  BY DEF fork_from
<1>2. /\ ms \subseteq Mappings /\ Mappings \subseteq 1..MaxMapping
      /\ a \in 1..MaxVmar /\ d \in 1..MaxCap
      /\ new \in [ms -> 1..MaxVmo \ Vmos] /\ at \in [ms -> 1..MaxMapping]
  BY <1>1 DEF In, Mappings, FreshVmar, FreshCap, FreshMapping, Ascending
<1>3. \A m \in ms : /\ mapping[m] \in MappingRecords
                    /\ mapping[m].perms \subseteq mapping[m].rights
                    /\ Covered(Vmos, gave, mapping[m].vmo, mapping[m].rights)
  BY <1>2 DEF CapInv, CapTypeOK, MappingsFit
<1> HIDE DEF ms
<1>4. CASE \E m \in ms : "DUP" \notin mapping[m].rights
  <2>1. UNCHANGED <<vmo, vmar, cap, mapping, gave, changed>> BY <1>1, <1>4
  <2>2. QED BY <2>1 DEF CapInv, CapTypeOK, CapsFit, MappingsFit, SlicesFit, WritesFit, Vmos,
                       Mappings, Sharing
<1>5. CASE ~\E m \in ms : "DUP" \notin mapping[m].rights
  <2>1. /\ vmar' = [vmar EXCEPT ![a] = 0]
        /\ Made(d, "vmar", a, dyn, IF dyn THEN All ELSE R)
        /\ changed' = changed
    BY <1>1, <1>5
  <2>2. vmo' = [v \in 1..MaxVmo |->
                  IF v \in Reached(new)
                  THEN [from |-> mapping[Source(new, v)].vmo, cow |-> TRUE, flags |-> {}]
                  ELSE vmo[v]]
    BY <1>1, <1>5
  <2>3. gave' = [v \in 1..MaxVmo |-> IF v \in Reached(new)
                                     THEN mapping[Source(new, v)].rights ELSE gave[v]]
    BY <1>1, <1>5
  <2>4. mapping' = [m \in 1..MaxMapping |->
                      IF m \in Reached(at)
                      THEN [mapping[Source(at, m)] EXCEPT
                              !.vmar = a, !.vmo = new[Source(at, m)]]
                      ELSE mapping[m]]
    BY <1>1, <1>5
  <2> DEFINE W == Reached(new)
  <2>5. W \in SUBSET ((1..MaxVmo) \ Vmos) BY <1>2 DEF Reached
  <2>6. \A m \in ms : new[m] \in W /\ new[m] \in 1..MaxVmo BY <1>2 DEF Reached
  <2>7. \A v \in W : Source(new, v) \in ms BY <1>2, SourceReaches
  <2>8. \A m \in Reached(at) : Source(at, m) \in ms BY <1>2, SourceReaches
  <2> HIDE DEF W
  <2>9. VmosStay /\ W \subseteq Vmos' /\ SlicesFit' /\ WritesFit'
    <3>1. \A v \in (1..MaxVmo) \ W : vmo'[v] = vmo[v] /\ gave'[v] = gave[v]
      BY <2>2, <2>3 DEF W
    <3>2. \A v \in W : vmo'[v].cow /\ vmo'[v] # NoVmo
      <4>1. SUFFICES ASSUME NEW v \in W PROVE vmo'[v].cow /\ vmo'[v] # NoVmo OBVIOUS
      <4> DEFINE from == mapping[Source(new, v)].vmo
      <4>2. vmo'[v] = [from |-> from, cow |-> TRUE, flags |-> {}] BY <2>2, <2>5 DEF W
      <4> HIDE DEF from
      <4>3. [from |-> from, cow |-> TRUE, flags |-> {}].cow = TRUE OBVIOUS
      <4>4. NoVmo.cow = FALSE BY DEF NoVmo
      <4>5. QED BY ONLY ZenonT(30), <4>2, <4>3, <4>4
    <3>3. VmosStay /\ W \subseteq Vmos' /\ SlicesFit' /\ (changed' = changed => WritesFit')
      BY <2>5, <3>1, <3>2, VmosGrow
    <3>4. QED BY <2>1, <3>3
  <2>10. vmo' \in [1..MaxVmo -> VmoRecords]
    <3>1. \A v \in W : mapping[Source(new, v)].vmo \in Int BY <1>3, <2>7 DEF MappingRecords
    <3>2. {} \in SUBSET {"RESIZABLE"} OBVIOUS
    <3>3. \A v \in W : [from |-> mapping[Source(new, v)].vmo, cow |-> TRUE, flags |-> {}]
                         \in VmoRecords
      BY <3>1, <3>2 DEF VmoRecords
    <3>4. \A v \in 1..MaxVmo : vmo[v] \in VmoRecords BY DEF CapInv, CapTypeOK
    <3>5. QED BY <2>2, <3>3, <3>4 DEF W
  <2>11. gave' \in [1..MaxVmo -> SUBSET All]
    <3>1. \A v \in W : mapping[Source(new, v)].rights \in SUBSET All
      BY <1>3, <2>7 DEF MappingRecords
    <3>2. \A v \in 1..MaxVmo : gave[v] \in SUBSET All BY DEF CapInv, CapTypeOK
    <3>3. QED BY <2>3, <3>1, <3>2 DEF W
  <2>12. CapsFit' /\ cap' \in [1..MaxCap -> CapRecords]
    <3> DEFINE x == [of |-> "vmar", id |-> a, dyn |-> dyn,
                     rights |-> IF dyn THEN All ELSE R, limit |-> All]
    <3>1. x \in CapRecords /\ x.of # "vmo" BY SMTT(60), <1>2 DEF CapRecords
    <3>2. cap' = [cap EXCEPT ![d] = x] BY <2>1 DEF Made
    <3> HIDE DEF x
    <3>3. QED BY <1>2, <2>9, <3>1, <3>2, CapsPut DEF CapInv
  <2>13. vmar' \in [1..MaxVmar -> Int]
    <3>1. vmar \in [1..MaxVmar -> Int] BY DEF CapInv, CapTypeOK
    <3>2. vmar' = [vmar EXCEPT ![a] = 0] BY <2>1
    <3> DEFINE z == 0
    <3>3. z \in Int /\ vmar' = [vmar EXCEPT ![a] = z] BY SMTT(60), <3>2
    <3> HIDE DEF z
    <3>4. QED BY ONLY ZenonT(30), <3>1, <3>3
  <2>14. ASSUME NEW m \in 1..MaxMapping, m \in Reached(at)
         PROVE  /\ mapping'[m] \in MappingRecords
                /\ mapping'[m].perms \subseteq mapping'[m].rights
                /\ Covered(Vmos', gave', mapping'[m].vmo, mapping'[m].rights)
    <3> DEFINE n == Source(at, m)
               v == new[n]
    <3>1. n \in ms BY <2>8, <2>14
    <3>2. mapping'[m] = [mapping[n] EXCEPT !.vmar = a, !.vmo = v] BY <2>4, <2>14
    <3>3. v \in W /\ v \in 1..MaxVmo BY <2>6, <3>1
    <3>4. gave'[v] = mapping[n].rights
      <4>1. Source(new, v) = n
        <5>1. Source(new, v) \in ms /\ new[Source(new, v)] = v
          BY <1>2, <3>3, SourceReaches DEF W
        <5>2. ms \subseteq Int BY SMTT(60), <1>2, CapAssumption
        <5>3. \A i, j \in ms : i < j => new[i] < new[j] BY <1>1 DEF Ascending
        <5>4. new[n] = v /\ v \in Int BY SMTT(60), <3>3
        <5> DEFINE o == Source(new, v)
        <5> HIDE DEF o, n, v
        <5>5. o \in ms /\ new[o] = v BY <5>1 DEF o
        <5>6. o = n BY ONLY SMTT(60), <3>1, <5>2, <5>3, <5>4, <5>5
        <5>7. QED BY <5>6 DEF o
      <4>2. QED BY <2>3, <3>3, <4>1 DEF W
    <3> HIDE DEF n, v
    <3>5. a \in Int /\ v \in Int BY SMTT(60), <1>2, <3>3
    <3>6. mapping[n] \in MappingRecords BY <1>3, <3>1
    <3>7. /\ mapping'[m] \in MappingRecords /\ mapping'[m].perms = mapping[n].perms
          /\ mapping'[m].rights = mapping[n].rights /\ mapping'[m].vmo = v
      BY ONLY ZenonT(30), <3>2, <3>5, <3>6 DEF MappingRecords
    <3>8. mapping[n].perms \subseteq mapping[n].rights BY <1>3, <3>1
    <3>9. v \in Vmos' BY <2>9, <3>3
    <3>10. QED BY <3>4, <3>7, <3>8, <3>9 DEF Covered
  <2>15. ASSUME NEW m \in 1..MaxMapping, m \notin Reached(at)
         PROVE  /\ mapping'[m] = mapping[m] /\ mapping[m] \in MappingRecords
                /\ mapping[m] # NoMapping =>
                     /\ mapping[m].perms \subseteq mapping[m].rights
                     /\ Covered(Vmos', gave', mapping[m].vmo, mapping[m].rights)
    <3>1. mapping'[m] = mapping[m] BY <2>4, <2>15
    <3>2. mapping[m] \in MappingRecords BY DEF CapInv, CapTypeOK
    <3>3. ASSUME mapping[m] # NoMapping
          PROVE  /\ mapping[m].perms \subseteq mapping[m].rights
                 /\ Covered(Vmos, gave, mapping[m].vmo, mapping[m].rights)
      BY <3>3 DEF CapInv, MappingsFit, Mappings
    <3>4. QED BY <2>9, <3>1, <3>2, <3>3, CoveredStays
  <2>16. mapping' \in [1..MaxMapping -> MappingRecords]
    <3>1. mapping' = [m \in 1..MaxMapping |-> mapping'[m]] BY <2>4
    <3>2. \A m \in 1..MaxMapping : mapping'[m] \in MappingRecords BY <2>14, <2>15
    <3>3. QED BY ONLY ZenonT(30), <3>1, <3>2
  <2>17. MappingsFit'
    <3>1. SUFFICES ASSUME NEW m \in 1..MaxMapping, mapping'[m] # NoMapping
                   PROVE  /\ mapping'[m].perms \subseteq mapping'[m].rights
                          /\ Covered(Vmos', gave', mapping'[m].vmo, mapping'[m].rights)
      BY DEF MappingsFit, Mappings
    <3>2. CASE m \in Reached(at) BY <2>14, <3>2
    <3>3. CASE m \notin Reached(at) BY <2>15, <3>1, <3>3
    <3>4. QED BY <3>2, <3>3
  <2>18. QED BY <2>9, <2>10, <2>11, <2>12, <2>13, <2>16, <2>17 DEF CapInv, CapTypeOK
<1>6. QED BY <1>4, <1>5

(* A VMAR is made, and a capability for it.                                *)
LEMMA VmarMade ==
  ASSUME CapInv, NEW a \in FreshVmar, NEW d \in FreshCap, NEW parent \in Int,
         NEW dyn \in BOOLEAN, NEW R \in SUBSET All, vmar' = [vmar EXCEPT ![a] = parent],
         Made(d, "vmar", a, dyn, R), UNCHANGED <<vmo, mapping, gave, changed>>
  PROVE  CapInv'
<1> DEFINE x == [of |-> "vmar", id |-> a, dyn |-> dyn, rights |-> R, limit |-> All]
<1>1. a \in Int /\ d \in 1..MaxCap BY SMTT(60) DEF FreshVmar, FreshCap
<1>2. x \in CapRecords /\ x.of # "vmo" BY <1>1 DEF CapRecords
<1>3. cap' = [cap EXCEPT ![d] = x] BY DEF Made
<1> HIDE DEF x
<1>4. vmar \in [1..MaxVmar -> Int] BY DEF CapInv, CapTypeOK
<1>5. vmar' \in [1..MaxVmar -> Int] BY <1>4
<1>6. QED BY <1>1, <1>2, <1>3, <1>5, CapChanged

(* The steps of a VMAR capability.                                         *)
LEMMA VmarStepKeeps ==
  ASSUME CapInv, NEW c \in CapsOf("vmar"), VmarStep(c) PROVE CapInv'
<1>1. c \in 1..MaxCap /\ cap[c] \in CapRecords /\ cap[c].of = "vmar"
  BY DEF CapsOf, CapInv, CapTypeOK
<1>2. CASE NewChild(c)
  <2>1. PICK a \in FreshVmar, d \in FreshCap : /\ vmar' = [vmar EXCEPT ![a] = cap[c].id]
                                              /\ Made(d, "vmar", a, cap[c].dyn, cap[c].rights)
    BY <1>2 DEF NewChild
  <2>2. UNCHANGED <<vmo, mapping, gave, changed>> BY <1>2 DEF NewChild
  <2>3. cap[c].id \in Int /\ cap[c].dyn \in BOOLEAN /\ cap[c].rights \in SUBSET All
    BY <1>1 DEF CapRecords
  <2>4. QED BY <2>1, <2>2, <2>3, VmarMade
<1>3. CASE \E v \in CapsOf("vmo"), p \in PermSets : Map(c, v, p)
  BY <1>3, MapKeeps
<1>4. CASE \E p \in PermSets, r \in SUBSET In(cap[c].id) : protect(c, p, r)
  BY <1>4, RangeKeeps DEF In
<1>5. CASE \E r \in SUBSET In(cap[c].id) : destroy(c, r)
  BY <1>5, RangeKeeps DEF In
<1>10. CASE \E m \in In(cap[c].id) : ReadFault(c, m) BY <1>10, SameKeeps DEF ReadFault
<1>6. CASE \E m \in In(cap[c].id) : VmarWrite(c, m)
  <2>1. PICK m \in In(cap[c].id) : VmarWrite(c, m) BY <1>6
  <2>2. m \in Mappings BY DEF In
  <2>3. /\ "WRITE" \in mapping[m].rights
        /\ Covered(Vmos, gave, mapping[m].vmo, mapping[m].rights)
    BY <2>1, <2>2 DEF VmarWrite, CapInv, MappingsFit
  <2>4. mapping[m].vmo \in Vmos /\ "WRITE" \in gave[mapping[m].vmo] \union Added
    BY <2>3 DEF Covered
  <2>5. QED BY <2>1, <2>4, Written DEF VmarWrite
<1>7. CASE \E R \in RootRights : fork_from(c, FALSE, R) \/ fork_from(c, TRUE, All)
  BY <1>7, ForkKeeps, CapAssumption
<1>8. CASE \E R1 \in Masks : RestrictStatic(c, R1)
  <2>1. PICK R1 \in Masks : RestrictStatic(c, R1) BY <1>8
  <2> DEFINE x == [cap[c] EXCEPT !.rights = R1, !.limit = R1]
  <2>2. R1 \in SUBSET All BY CapAssumption
  <2>3. x \in CapRecords /\ x.of # "vmo" BY <1>1, <2>2 DEF CapRecords
  <2>4. cap' = [cap EXCEPT ![c] = x] BY <2>1 DEF RestrictStatic
  <2>5. UNCHANGED <<vmo, vmar, mapping, gave, changed>> BY <2>1 DEF RestrictStatic
  <2> HIDE DEF x
  <2>6. vmar' \in [1..MaxVmar -> Int] BY <2>5 DEF CapInv, CapTypeOK
  <2>7. QED BY <1>1, <2>3, <2>4, <2>5, <2>6, CapChanged
<1>9. QED BY <1>2, <1>3, <1>4, <1>5, <1>6, <1>7, <1>8, <1>10 DEF VmarStep

(* CapInv holds at first: nothing exists.                                  *)
LEMMA CapInvHolds == CapInit => CapInv
<1>1. SUFFICES ASSUME CapInit PROVE CapInv OBVIOUS
<1>2. NoVmo \in VmoRecords
  <2>1. {} \in SUBSET {"RESIZABLE"} OBVIOUS
  <2>2. QED BY SMTT(60), <2>1 DEF NoVmo, VmoRecords
<1>3. NoCap \in CapRecords /\ NoCap.of = "none"
  <2>1. {} \in SUBSET All /\ All \in SUBSET All OBVIOUS
  <2>2. QED BY SMTT(60), <2>1 DEF NoCap, CapRecords
<1>4. NoMapping \in MappingRecords
  <2>1. {} \in SUBSET All OBVIOUS
  <2>2. QED BY SMTT(60), <2>1 DEF NoMapping, MappingRecords
<1>5. CapTypeOK BY SMTT(60), <1>1, <1>2, <1>3, <1>4 DEF CapInit, CapTypeOK
<1>6. Vmos = {} /\ Mappings = {} /\ changed = {} /\ \A c \in 1..MaxCap : cap[c].of = "none"
  BY <1>1, <1>3 DEF CapInit, Vmos, Mappings
<1>7. QED BY <1>5, <1>6 DEF CapInv, CapsFit, MappingsFit, SlicesFit, WritesFit, Sharing

(* Every operation keeps CapInv.                                           *)
LEMMA CapInvKept == CapInv /\ [CapNext]_capvars => CapInv'
<1>1. SUFFICES ASSUME CapInv, [CapNext]_capvars PROVE CapInv' OBVIOUS
<1>2. CASE UNCHANGED capvars BY <1>1, <1>2, SameKeeps DEF capvars
<1>3. ASSUME NEW f \in SUBSET {"RESIZABLE"},
             AllocDyn(f) \/ \E R \in RootRights : AllocStatic(f, R)
      PROVE  CapInv'
  <2>1. PICK R \in SUBSET All, dyn \in BOOLEAN, v \in FreshVmo, c \in FreshCap :
          /\ vmo' = [vmo EXCEPT ![v] = [from |-> 0, cow |-> FALSE, flags |-> f]]
          /\ Made(c, "vmo", v, dyn, R)
          /\ gave' = [gave EXCEPT ![v] = R]
          /\ UNCHANGED <<vmar, mapping, changed, halt>>
    <3>1. CASE AllocDyn(f) BY <3>1 DEF AllocDyn
    <3>2. CASE \E R \in RootRights : AllocStatic(f, R) BY <3>2, CapAssumption DEF AllocStatic
    <3>3. QED BY <1>3, <3>1, <3>2
  <2> DEFINE r == [from |-> 0, cow |-> FALSE, flags |-> f]
  <2>2. r \in VmoRecords /\ r.from = 0 BY SMTT(60) DEF VmoRecords
  <2>3. vmo' = [vmo EXCEPT ![v] = r] BY <2>1
  <2> HIDE DEF r
  <2>4. r.from \in Nat /\ (r.from # 0 /\ ~r.cow => Covered(Vmos, gave, r.from, R)) BY SMTT(60), <2>2
  <2>5. Made(c, "vmo", v, dyn, R) /\ gave' = [gave EXCEPT ![v] = R] BY <2>1
  <2>6. UNCHANGED <<vmar, mapping, changed, halt>> BY <2>1
  <2>7. QED BY <1>1, <2>2, <2>3, <2>4, <2>5, <2>6, HandedOut
<1>4. ASSUME NEW R \in RootRights, NewRoot(FALSE, R) \/ NewRoot(TRUE, All) PROVE CapInv'
  <2>1. PICK S \in SUBSET All, dyn \in BOOLEAN, a \in FreshVmar, c \in FreshCap :
          /\ vmar' = [vmar EXCEPT ![a] = 0]
          /\ Made(c, "vmar", a, dyn, S)
          /\ UNCHANGED <<vmo, mapping, gave, changed, halt>>
    <3>1. CASE NewRoot(FALSE, R) BY <3>1, CapAssumption DEF NewRoot
    <3>2. CASE NewRoot(TRUE, All) BY <3>2 DEF NewRoot
    <3>3. QED BY <1>4, <3>1, <3>2
  <2> DEFINE z == 0
  <2>2. z \in Int /\ vmar' = [vmar EXCEPT ![a] = z] BY SMTT(60), <2>1
  <2> HIDE DEF z
  <2>3. Made(c, "vmar", a, dyn, S) /\ UNCHANGED <<vmo, mapping, gave, changed>> BY <2>1
  <2>4. QED BY <1>1, <2>2, <2>3, VmarMade
<1>5. ASSUME NEW c \in CapsOf("vmo"), VmoStep(c) \/ to_dyn(c) PROVE CapInv'
  BY <1>1, <1>5, VmoStepKeeps
<1>6. ASSUME NEW c \in CapsOf("vmar"), VmarStep(c) PROVE CapInv'
  BY <1>1, <1>6, VmarStepKeeps
<1>7. ASSUME NEW c \in CapsOf("vmo") \union CapsOf("vmar"), Dup(c) \/ DropCap(c) PROVE CapInv'
  <2>1. PICK d \in 1..MaxCap, x \in {cap[c], NoCap} : cap' = [cap EXCEPT ![d] = x]
    BY <1>7 DEF Dup, DropCap, FreshCap, CapsOf
  <2>2. UNCHANGED <<vmo, vmar, mapping, gave, changed>> BY <1>7 DEF Dup, DropCap
  <2>3. x \in CapRecords /\ (x.of = "vmo" => Covered(Vmos, gave, x.id, x.rights))
    <3>1. CASE x = NoCap
      <4>1. {} \in SUBSET All /\ All \in SUBSET All OBVIOUS
      <4>2. QED BY SMTT(60), <3>1, <4>1 DEF NoCap, CapRecords
    <3>2. CASE x = cap[c] BY <1>1, <3>2 DEF CapInv, CapTypeOK, CapsFit, CapsOf
    <3>3. QED BY <3>1, <3>2
  <2>4. vmar' \in [1..MaxVmar -> Int] BY <1>1, <2>2 DEF CapInv, CapTypeOK
  <2>5. QED BY <1>1, <2>1, <2>2, <2>3, <2>4, CapChanged
<1>8. CASE \E m \in open : UserWrites(m) BY <1>1, <1>8, SameKeeps DEF UserWrites
<1>9. QED BY <1>1, <1>2, <1>3, <1>4, <1>5, <1>6, <1>7, <1>8 DEF CapNext

-----------------------------------------------------------------------------
(* What is written past the rights.  LeakInv is inductive together with    *)
(* CapInv: the entries that show inherited frames are those of mappings of *)
(* COW children, and are writable only where the mapping may be; the line  *)
(* of parents of a VMO does not change.                                    *)
CowsFit == \A v \in Cow : vmo[v].from \in Vmos
EntriesFit == /\ \A m \in shown \union open : m \in Mappings /\ mapping[m].vmo \in Cow
              /\ \A m \in open : "WRITE" \in mapping[m].rights
LeaksFit == \A l \in leaked : /\ l[2] \in Cow /\ "WRITE" \in gave[l[2]] \union Added
                             /\ \E w \in Lenders(l[2]) : l[1] \in Home(w)
LeakInv == CowsFit /\ EntriesFit /\ LeaksFit

(* A VMO keeps its homes and its lenders when others are made.             *)
LEMMA LinesStay ==
  ASSUME CapInv, CowsFit, VmosStay, NEW v \in Vmos
  PROVE  /\ Home(v) \subseteq Home(v)'
         /\ v \in Cow => Lenders(v) \subseteq Lenders(v)'
<1>1. \A x \in Vmos : x \in Vmos' /\ vmo'[x] = vmo[x] BY DEF VmosStay
<1>2. \A x \in Sharing : x \in Sharing' /\ vmo[x].from \in Vmos
  BY <1>1 DEF Sharing, CapInv, SlicesFit, Covered
<1>3. \A x \in Cow : x \in Cow' /\ vmo[x].from \in Vmos BY <1>1 DEF Cow, CowsFit
<1>4. ASSUME NEW w \in Home(v) PROVE w \in Home(v)'
  <2>1. SUFFICES ASSUME NEW S \in SUBSET Vmos', v \in S,
                        \A x \in S \intersect Sharing' : vmo'[x].from \in S
                 PROVE  w \in S
    BY <1>1, <1>4 DEF Home, Line
  <2>2. \A x \in (S \intersect Vmos) \intersect Sharing : vmo[x].from \in S \intersect Vmos
    BY <1>1, <1>2, <2>1
  <2>3. QED BY <1>4, <2>1, <2>2 DEF Home, Line
<1>5. ASSUME v \in Cow, NEW w \in Lenders(v) PROVE w \in Lenders(v)'
  <2>1. vmo'[v].from = vmo[v].from /\ vmo[v].from \in Vmos BY <1>1, <1>3, <1>5
  <2>2. SUFFICES ASSUME NEW S \in SUBSET Vmos', vmo[v].from \in S,
                        \A x \in S \intersect Cow' : vmo'[x].from \in S
                 PROVE  w \in S
    BY <1>1, <1>5, <2>1 DEF Lenders, Line
  <2>3. \A x \in (S \intersect Vmos) \intersect Cow : vmo[x].from \in S \intersect Vmos
    BY <1>1, <1>3, <2>2
  <2>4. QED BY <1>5, <2>1, <2>2, <2>3 DEF Lenders, Line
<1>6. QED BY <1>4, <1>5

(* What was written so stays explained.                                    *)
LEMMA LeaksStay ==
  ASSUME CapInv, LeakInv, VmosStay, NEW l \in leaked
  PROVE  /\ l[2] \in Cow' /\ "WRITE" \in gave'[l[2]] \union Added
         /\ \E w \in Lenders(l[2])' : l[1] \in Home(w)'
<1>1. /\ l[2] \in Cow /\ l[2] \in Vmos /\ "WRITE" \in gave[l[2]] \union Added
      /\ \E w \in Lenders(l[2]) : l[1] \in Home(w)
  BY DEF LeakInv, LeaksFit, Cow
<1>2. PICK w \in Lenders(l[2]) : l[1] \in Home(w) BY <1>1
<1>3. w \in Vmos BY DEF Lenders, Line
<1>4. w \in Lenders(l[2])' BY <1>1, LinesStay DEF LeakInv
<1>5. l[1] \in Home(w)' BY <1>2, <1>3, LinesStay DEF LeakInv
<1>6. l[2] \in Cow' /\ gave'[l[2]] = gave[l[2]] BY <1>1 DEF Cow, VmosStay
<1>7. QED BY <1>1, <1>4, <1>5, <1>6

(* The steps that leave the entries alone.                                 *)
LEMMA EntriesLeft ==
  ASSUME CapInv, LeakInv, VmosStay, CowsFit', UNCHANGED entryVars,
         \A m \in Mappings : mapping'[m] = mapping[m]
  PROVE  LeakInv'
<1>1. shown' = shown /\ open' = open /\ leaked' = leaked BY DEF entryVars
<1>2. \A m \in Mappings : m \in Mappings' BY DEF Mappings
<1>3. \A v \in Cow : v \in Cow' BY DEF VmosStay, Cow
<1>4. EntriesFit' BY <1>1, <1>2, <1>3 DEF LeakInv, EntriesFit
<1>5. LeaksFit' BY <1>1, LeaksStay DEF LeaksFit
<1>6. QED BY <1>4, <1>5 DEF LeakInv

(* No VMO is made, and no mapping changes.                                 *)
LEMMA NothingMade ==
  ASSUME CapInv, LeakInv, UNCHANGED <<vmo, gave>>
  PROVE  VmosStay /\ CowsFit' /\ Cow' = Cow /\ Vmos' = Vmos
BY DEF VmosStay, CowsFit, LeakInv, Vmos, Cow

(* One VMO is made.                                                        *)
LEMMA OneMade ==
  ASSUME CapInv, LeakInv, NEW v \in FreshVmo, NEW r \in VmoRecords, NEW R,
         r.cow => r.from \in Vmos,
         vmo' = [vmo EXCEPT ![v] = r], gave' = [gave EXCEPT ![v] = R],
         UNCHANGED entryVars, mapping' = mapping
  PROVE  LeakInv'
<1>1. v \in 1..MaxVmo /\ v \notin Vmos BY DEF FreshVmo, Vmos
<1>2. vmo'[v] = r /\ \A w \in (1..MaxVmo) \ {v} : vmo'[w] = vmo[w] /\ gave'[w] = gave[w]
  BY <1>1 DEF CapInv, CapTypeOK
<1>3. Vmos \subseteq Vmos' /\ Vmos' \subseteq Vmos \union {v} BY <1>1, <1>2 DEF Vmos
<1>4. VmosStay BY <1>1, <1>2, <1>3 DEF VmosStay, Vmos
<1>5. CowsFit'
  <2>1. SUFFICES ASSUME NEW w \in Cow' PROVE vmo'[w].from \in Vmos' BY DEF CowsFit
  <2>2. CASE w = v BY <1>2, <1>3, <2>1, <2>2 DEF Cow
  <2>3. CASE w # v
    <3>1. w \in Cow /\ vmo'[w] = vmo[w] BY <1>2, <1>3, <2>1, <2>3 DEF Cow, Vmos
    <3>2. QED BY <1>3, <3>1 DEF LeakInv, CowsFit
  <2>4. QED BY <2>2, <2>3
<1>6. QED BY <1>4, <1>5, EntriesLeft

(* The VMOs are made that the operations on capabilities of VMOs make.     *)
LEMMA VmoStepLeaks ==
  ASSUME CapInv, LeakInv, NEW c \in CapsOf("vmo"), VmoStep(c) \/ to_dyn(c)
  PROVE  LeakInv'
<1>1. c \in 1..MaxCap /\ cap[c].id \in Vmos /\ cap[c] \in CapRecords
  BY DEF CapInv, CapTypeOK, CapsOf, CapsFit, Covered
<1>2. cap[c].id \in Int BY <1>1 DEF CapRecords
<1>3. CASE SliceChild(c)
  <2>1. PICK v \in FreshVmo :
          /\ vmo' = [vmo EXCEPT ![v] = [from |-> cap[c].id, cow |-> FALSE, flags |-> SliceFlags]]
          /\ gave' = [gave EXCEPT ![v] = SliceRights(c)]
    BY <1>3 DEF SliceChild
  <2> DEFINE r == [from |-> cap[c].id, cow |-> FALSE, flags |-> SliceFlags]
  <2>2. r \in VmoRecords /\ ~r.cow
    <3>1. SliceFlags \in SUBSET {"RESIZABLE"} BY ONLY ZenonT(30) DEF SliceFlags
    <3>2. QED BY ONLY ZenonT(30), <1>2, <3>1 DEF VmoRecords
  <2>3. UNCHANGED entryVars /\ mapping' = mapping BY <1>3 DEF SliceChild
  <2>4. vmo' = [vmo EXCEPT ![v] = r] BY <2>1
  <2> HIDE DEF r
  <2>5. QED BY <2>1, <2>2, <2>3, <2>4, OneMade
<1>4. ASSUME NEW f \in SUBSET {"RESIZABLE"}, CowChild(c, f) PROVE LeakInv'
  <2>1. PICK v \in FreshVmo :
          /\ vmo' = [vmo EXCEPT ![v] = [from |-> cap[c].id, cow |-> TRUE, flags |-> CowFlags(f)]]
          /\ gave' = [gave EXCEPT ![v] = CowRights(c)]
    BY <1>4 DEF CowChild
  <2> DEFINE r == [from |-> cap[c].id, cow |-> TRUE, flags |-> CowFlags(f)]
  <2>2. r \in VmoRecords /\ r.from = cap[c].id
    <3>1. CowFlags(f) \in SUBSET {"RESIZABLE"} BY ONLY ZenonT(30) DEF CowFlags
    <3>2. QED BY ONLY ZenonT(30), <1>2, <3>1 DEF VmoRecords
  <2>3. UNCHANGED entryVars /\ mapping' = mapping BY <1>4 DEF CowChild
  <2>4. vmo' = [vmo EXCEPT ![v] = r] BY <2>1
  <2> HIDE DEF r
  <2>5. r.from \in Vmos BY <1>1, <2>2
  <2>6. QED BY <2>1, <2>2, <2>3, <2>4, <2>5, OneMade
<1>5. ASSUME UNCHANGED <<vmo, gave>>, UNCHANGED entryVars, mapping' = mapping PROVE LeakInv'
  BY <1>5, NothingMade, EntriesLeft
<1>6. CASE Write(c) \/ Resize(c) \/ to_dyn(c) BY <1>5, <1>6 DEF Write, Resize, to_dyn
<1>7. ASSUME NEW mask \in Masks,
             RestrictDyn(c, mask) \/ RestrictStatic(c, mask) \/ to_static(c, mask)
      PROVE  LeakInv'
  BY <1>5, <1>7 DEF RestrictDyn, RestrictStatic, to_static
<1>8. QED BY <1>3, <1>4, <1>6, <1>7 DEF VmoStep

(* protect opens entries, where the VMO may be written, and closes them;   *)
(* destroy removes them with their mappings.                               *)
LEMMA RangeLeaks ==
  ASSUME CapInv, LeakInv, NEW c \in CapsOf("vmar"), NEW range \in SUBSET Mappings,
         \/ \E p \in PermSets : protect(c, p, range)
         \/ destroy(c, range)
  PROVE  LeakInv'
<1>1. UNCHANGED <<vmo, gave>> /\ leaked' = leaked BY DEF protect, destroy
<1>2. VmosStay /\ CowsFit' /\ Cow' = Cow BY <1>1, NothingMade
<1>3. LeaksFit' BY <1>1, <1>2, LeaksStay DEF LeaksFit
<1>4. \A m \in shown \union open : m \in Mappings /\ mapping[m].vmo \in Cow
  BY DEF LeakInv, EntriesFit
<1>5. \A m \in open : "WRITE" \in mapping[m].rights BY DEF LeakInv, EntriesFit
<1>6. Mappings \subseteq 1..MaxMapping /\ mapping \in [1..MaxMapping -> MappingRecords]
  BY DEF Mappings, CapInv, CapTypeOK
<1>7. SUFFICES
        /\ shown' \union open' \subseteq shown \union open
        /\ \A m \in shown' \union open' : m \in Mappings =>
             /\ mapping'[m] # NoMapping /\ mapping'[m].vmo = mapping[m].vmo
             /\ mapping'[m].rights = mapping[m].rights
        /\ \A m \in open' \ open : "WRITE" \in mapping[m].rights
  <2>1. EntriesFit'
    <3>1. ASSUME NEW m \in shown' \union open'
          PROVE  m \in Mappings' /\ mapping'[m].vmo \in Cow'
      <4>1. m \in Mappings /\ mapping[m].vmo \in Cow BY <1>4, <1>7
      <4>2. QED BY <1>2, <1>6, <1>7, <4>1 DEF Mappings
    <3>2. ASSUME NEW m \in open' PROVE "WRITE" \in mapping'[m].rights
      <4>1. m \in Mappings BY <1>4, <1>7
      <4>2. mapping'[m].rights = mapping[m].rights BY <1>7, <4>1
      <4>3. QED BY <1>5, <1>7, <4>2
    <3>3. QED BY <3>1, <3>2 DEF EntriesFit
  <2>2. QED BY <1>2, <1>3, <2>1 DEF LeakInv
<1>8. CASE \E p \in PermSets : protect(c, p, range)
  <2>1. PICK p \in PermSets : protect(c, p, range) BY <1>8
  <2> DEFINE refusing == {m \in range : ~(p \subseteq mapping[m].rights)}
             done == {m \in range : \A n \in refusing : m < n}
  <2>2. Protected(done, p) BY <2>1 DEF protect
  <2>3. \A m \in done : p \subseteq mapping[m].rights
    <3>1. ASSUME NEW m \in done, ~(p \subseteq mapping[m].rights) PROVE FALSE
      <4>1. m \in refusing /\ m \in 1..MaxMapping BY <1>6, <3>1
      <4>2. m < m BY <3>1, <4>1
      <4>3. QED BY SMTT(60), <4>1, <4>2
    <3>2. QED BY <3>1
  <2> HIDE DEF refusing, done
  <2>4. ASSUME NEW m \in Mappings
        PROVE  /\ mapping'[m] # NoMapping /\ mapping'[m].vmo = mapping[m].vmo
               /\ mapping'[m].rights = mapping[m].rights
    <3>1. mapping[m] \in MappingRecords /\ mapping[m] # NoMapping BY <1>6 DEF Mappings
    <3>2. mapping'[m] = IF m \in done THEN [mapping[m] EXCEPT !.perms = p] ELSE mapping[m]
      BY <1>6, <2>2 DEF Protected
    <3>3. mapping'[m].vmo = mapping[m].vmo /\ mapping'[m].rights = mapping[m].rights
      BY <3>1, <3>2 DEF MappingRecords
    <3>4. mapping[m].vmo \in Vmos BY DEF CapInv, MappingsFit, Covered
    <3>5. NoMapping.vmo = 0 /\ 0 \notin Vmos BY SMTT(60) DEF NoMapping, Vmos
    <3>6. QED BY <3>3, <3>4, <3>5
  <2>5. shown' \union open' \subseteq shown \union open BY <2>2 DEF Protected
  <2>6. \A m \in open' \ open : m \in done /\ "WRITE" \in p BY <2>2 DEF Protected
  <2>7. QED BY <2>3, <2>4, <2>5, <2>6
<1>9. CASE destroy(c, range)
  <2>1. shown' \union open' \subseteq (shown \union open) \ range /\ open' \subseteq open
    BY <1>9 DEF destroy
  <2>2. \A m \in Mappings \ range : mapping'[m] = mapping[m] BY <1>6, <1>9 DEF destroy
  <2>3. QED BY <2>1, <2>2 DEF Mappings
<1>10. QED BY <1>8, <1>9

(* fork_from: the new VMOs are COW children of VMOs, the new mappings have *)
(* no entries.                                                             *)
LEMMA ForkLeaks ==
  ASSUME CapInv, LeakInv, NEW c \in CapsOf("vmar"), NEW dyn \in BOOLEAN, NEW R \in SUBSET All,
         fork_from(c, dyn, R)
  PROVE  LeakInv'
<1> DEFINE ms == In(cap[c].id)
<1>1. PICK a \in FreshVmar, d \in FreshCap,
           new \in Ascending(ms, 1..MaxVmo \ Vmos), at \in Ascending(ms, FreshMapping) :
        IF \E m \in ms : "DUP" \notin mapping[m].rights
        THEN halt' = TRUE /\ UNCHANGED <<vmo, vmar, cap, mapping, entryVars, gave, changed>>
        ELSE /\ vmar' = [vmar EXCEPT ![a] = 0]
             /\ Made(d, "vmar", a, dyn, IF dyn THEN All ELSE R)
             /\ vmo' = [v \in 1..MaxVmo |->
                          IF v \in Reached(new)
                          THEN [from |-> mapping[Source(new, v)].vmo, cow |-> TRUE,
                                flags |-> {}]
                          ELSE vmo[v]]
             /\ gave' = [v \in 1..MaxVmo |-> IF v \in Reached(new)
                                             THEN mapping[Source(new, v)].rights ELSE gave[v]]
             /\ mapping' = [m \in 1..MaxMapping |->
                              IF m \in Reached(at)
                              THEN [mapping[Source(at, m)] EXCEPT
                                      !.vmar = a, !.vmo = new[Source(at, m)]]
                              ELSE mapping[m]]
             /\ UNCHANGED <<entryVars, changed, halt>>
  BY DEF fork_from
<1>2. /\ new \in [ms -> 1..MaxVmo \ Vmos] /\ at \in [ms -> FreshMapping]
      /\ ms \subseteq Mappings /\ Mappings \subseteq 1..MaxMapping /\ Vmos \subseteq 1..MaxVmo
  BY DEF Ascending, In, Mappings, Vmos
<1>3. Reached(new) \intersect Vmos = {} /\ Reached(at) \intersect Mappings = {}
  BY <1>2 DEF Reached, FreshMapping, Mappings
<1>4. \A v \in Reached(new) : mapping[Source(new, v)].vmo \in Vmos
  <2>1. \A v \in Reached(new) : Source(new, v) \in Mappings BY <1>2, SourceReaches
  <2>2. QED BY <2>1 DEF CapInv, MappingsFit, Covered
<1> HIDE DEF ms
<1>5. CASE \E m \in ms : "DUP" \notin mapping[m].rights
  <2>1. UNCHANGED <<vmo, gave>> /\ UNCHANGED entryVars /\ mapping' = mapping BY <1>1, <1>5
  <2>2. QED BY <2>1, NothingMade, EntriesLeft
<1>6. CASE ~\E m \in ms : "DUP" \notin mapping[m].rights
  <2>1. /\ vmo' = [v \in 1..MaxVmo |->
                     IF v \in Reached(new)
                     THEN [from |-> mapping[Source(new, v)].vmo, cow |-> TRUE, flags |-> {}]
                     ELSE vmo[v]]
        /\ gave' = [v \in 1..MaxVmo |-> IF v \in Reached(new)
                                        THEN mapping[Source(new, v)].rights ELSE gave[v]]
        /\ mapping' = [m \in 1..MaxMapping |->
                         IF m \in Reached(at)
                         THEN [mapping[Source(at, m)] EXCEPT
                                 !.vmar = a, !.vmo = new[Source(at, m)]]
                         ELSE mapping[m]]
        /\ UNCHANGED entryVars
    BY <1>1, <1>6
  <2>2. \A v \in (1..MaxVmo) \ Reached(new) : vmo'[v] = vmo[v] /\ gave'[v] = gave[v] BY <2>1
  <2>3. VmosStay BY <1>2, <1>3, <2>2 DEF VmosStay, Vmos
  <2>4. CowsFit'
    <3>1. SUFFICES ASSUME NEW v \in Cow' PROVE vmo'[v].from \in Vmos'
      BY DEF CowsFit
    <3>6. Vmos \subseteq Vmos' BY <2>3 DEF VmosStay
    <3>2. v \in 1..MaxVmo BY DEF Cow, Vmos
    <3>3. CASE v \in Reached(new)
      <4>1. vmo'[v] = [from |-> mapping[Source(new, v)].vmo, cow |-> TRUE, flags |-> {}]
        BY <2>1, <3>2, <3>3
      <4>2. vmo'[v].from = mapping[Source(new, v)].vmo BY <4>1, SMTT(60)
      <4>3. QED BY <1>4, <3>3, <3>6, <4>2
    <3>4. CASE v \notin Reached(new)
      <4>1. v \in Cow /\ vmo'[v] = vmo[v] BY <2>2, <3>1, <3>2, <3>4 DEF Cow, Vmos
      <4>2. QED BY <3>6, <4>1 DEF LeakInv, CowsFit
    <3>5. QED BY <3>3, <3>4
  <2>5. \A m \in Mappings : mapping'[m] = mapping[m] BY <1>2, <1>3, <2>1
  <2>6. QED BY <2>1, <2>3, <2>4, <2>5, EntriesLeft
<1>7. QED BY <1>5, <1>6

(* The steps of a VMAR capability.                                         *)
LEMMA VmarStepLeaks ==
  ASSUME CapInv, LeakInv, NEW c \in CapsOf("vmar"), VmarStep(c) PROVE LeakInv'
<1>1. ASSUME UNCHANGED <<vmo, gave>>, UNCHANGED entryVars,
             \A m \in Mappings : mapping'[m] = mapping[m]
      PROVE  LeakInv'
  BY <1>1, NothingMade, EntriesLeft
<1>2. CASE NewChild(c) \/ (\E m \in In(cap[c].id) : VmarWrite(c, m))
           \/ (\E R1 \in Masks : RestrictStatic(c, R1))
  BY <1>1, <1>2 DEF NewChild, VmarWrite, RestrictStatic
<1>3. ASSUME NEW v \in CapsOf("vmo"), NEW p \in PermSets, Map(c, v, p) PROVE LeakInv'
  <2>1. UNCHANGED <<vmo, gave>> /\ UNCHANGED entryVars BY <1>3 DEF Map
  <2>2. \A m \in Mappings : mapping'[m] = mapping[m]
    BY <1>3 DEF Map, FreshMapping, Mappings, CapInv, CapTypeOK
  <2>3. QED BY <1>1, <2>1, <2>2
<1>4. CASE \E p \in PermSets, r \in SUBSET In(cap[c].id) : protect(c, p, r)
  BY <1>4, RangeLeaks DEF In
<1>5. CASE \E r \in SUBSET In(cap[c].id) : destroy(c, r)
  BY <1>5, RangeLeaks DEF In
<1>6. CASE \E R \in RootRights : fork_from(c, FALSE, R) \/ fork_from(c, TRUE, All)
  BY <1>6, ForkLeaks, CapAssumption
<1>7. ASSUME NEW m \in In(cap[c].id), ReadFault(c, m) PROVE LeakInv'
  <2>1. /\ UNCHANGED <<vmo, gave>> /\ leaked' = leaked /\ open' = open /\ mapping' = mapping
        /\ shown' = shown \union {m} /\ mapping[m].vmo \in Cow /\ m \in Mappings
    BY <1>7 DEF ReadFault, In
  <2>2. VmosStay /\ CowsFit' /\ Cow' = Cow BY <2>1, NothingMade
  <2>3. LeaksFit' BY <2>1, <2>2, LeaksStay DEF LeaksFit
  <2>4. EntriesFit' BY <2>1, <2>2 DEF LeakInv, EntriesFit, Mappings
  <2>5. QED BY <2>2, <2>3, <2>4 DEF LeakInv
<1>8. QED BY <1>2, <1>3, <1>4, <1>5, <1>6, <1>7 DEF VmarStep

(* LeakInv holds at first: nothing exists.                                 *)
LEMMA LeakInvHolds == CapInit => LeakInv
<1>1. SUFFICES ASSUME CapInit PROVE LeakInv OBVIOUS
<1>2. Vmos = {} /\ shown = {} /\ open = {} /\ leaked = {} BY <1>1 DEF CapInit, Vmos
<1>3. QED BY <1>2 DEF LeakInv, CowsFit, EntriesFit, LeaksFit, Cow

(* Every operation keeps LeakInv.                                          *)
LEMMA LeakInvKept == CapInv /\ LeakInv /\ [CapNext]_capvars => LeakInv'
<1>1. SUFFICES ASSUME CapInv, LeakInv, [CapNext]_capvars PROVE LeakInv' OBVIOUS
<1>2. ASSUME UNCHANGED <<vmo, gave>>, UNCHANGED entryVars, mapping' = mapping PROVE LeakInv'
  BY <1>1, <1>2, NothingMade, EntriesLeft
<1>3. CASE UNCHANGED capvars BY <1>2, <1>3 DEF capvars
<1>4. ASSUME NEW f \in SUBSET {"RESIZABLE"},
             AllocDyn(f) \/ \E R \in RootRights : AllocStatic(f, R)
      PROVE  LeakInv'
  <2>1. PICK v \in FreshVmo, R \in SUBSET All :
          /\ vmo' = [vmo EXCEPT ![v] = [from |-> 0, cow |-> FALSE, flags |-> f]]
          /\ gave' = [gave EXCEPT ![v] = R]
          /\ UNCHANGED entryVars /\ mapping' = mapping
    <3>1. CASE AllocDyn(f) BY <3>1 DEF AllocDyn
    <3>2. CASE \E R \in RootRights : AllocStatic(f, R) BY <3>2, CapAssumption DEF AllocStatic
    <3>3. QED BY <1>4, <3>1, <3>2
  <2> DEFINE r == [from |-> 0, cow |-> FALSE, flags |-> f]
  <2>2. r \in VmoRecords /\ ~r.cow BY SMTT(60) DEF VmoRecords
  <2>3. vmo' = [vmo EXCEPT ![v] = r] BY <2>1
  <2> HIDE DEF r
  <2>4. QED BY <1>1, <2>1, <2>2, <2>3, OneMade
<1>5. ASSUME NEW R \in RootRights, NewRoot(FALSE, R) \/ NewRoot(TRUE, All) PROVE LeakInv'
  BY <1>2, <1>5 DEF NewRoot
<1>6. ASSUME NEW c \in CapsOf("vmo"), VmoStep(c) \/ to_dyn(c) PROVE LeakInv'
  BY <1>1, <1>6, VmoStepLeaks
<1>7. ASSUME NEW c \in CapsOf("vmar"), VmarStep(c) PROVE LeakInv'
  BY <1>1, <1>7, VmarStepLeaks
<1>8. ASSUME NEW c \in CapsOf("vmo") \union CapsOf("vmar"), Dup(c) \/ DropCap(c) PROVE LeakInv'
  BY <1>2, <1>8 DEF Dup, DropCap
<1>9. ASSUME NEW m \in open, UserWrites(m) PROVE LeakInv'
  <2>1. /\ UNCHANGED <<vmo, gave>> /\ shown' = shown /\ open' = open /\ mapping' = mapping
        /\ \E w \in Lenders(mapping[m].vmo) :
             leaked' = leaked \union (Home(w) \X {mapping[m].vmo})
    BY <1>9 DEF UserWrites
  <2>2. PICK w \in Lenders(mapping[m].vmo) :
          leaked' = leaked \union (Home(w) \X {mapping[m].vmo})
    BY <2>1
  <2>3. VmosStay /\ CowsFit' /\ Cow' = Cow /\ Vmos' = Vmos BY <1>1, <2>1, NothingMade
  <2>4. EntriesFit' BY <1>1, <2>1, <2>3 DEF LeakInv, EntriesFit, Mappings
  <2>5. /\ m \in Mappings /\ mapping[m].vmo \in Cow
        /\ "WRITE" \in gave[mapping[m].vmo] \union Added
    <3>1. m \in Mappings /\ mapping[m].vmo \in Cow /\ "WRITE" \in mapping[m].rights
      BY <1>1, <1>9 DEF LeakInv, EntriesFit
    <3>2. Covered(Vmos, gave, mapping[m].vmo, mapping[m].rights)
      BY <1>1, <3>1 DEF CapInv, MappingsFit
    <3>3. QED BY <3>1, <3>2 DEF Covered
  <2>6. ASSUME NEW v PROVE Home(v)' = Home(v) /\ Lenders(v)' = Lenders(v)
    BY <2>1 DEF Home, Lenders, Line, Sharing, Cow, Vmos
  <2>7. ASSUME NEW l \in leaked'
        PROVE  /\ l[2] \in Cow /\ "WRITE" \in gave[l[2]] \union Added
               /\ \E x \in Lenders(l[2]) : l[1] \in Home(x)
    <3>1. CASE l \in leaked BY <1>1, <3>1 DEF LeakInv, LeaksFit
    <3>2. CASE l \in Home(w) \X {mapping[m].vmo}
      <4>1. l[1] \in Home(w) /\ l[2] = mapping[m].vmo BY <3>2
      <4>2. QED BY <2>2, <2>5, <4>1
    <3>3. QED BY <2>2, <3>1, <3>2
  <2>8. LeaksFit'
    <3>1. SUFFICES ASSUME NEW l \in leaked'
                   PROVE  /\ l[2] \in Cow' /\ "WRITE" \in gave'[l[2]] \union Added
                          /\ \E x \in Lenders(l[2])' : l[1] \in Home(x)'
      BY DEF LeaksFit
    <3>2. PICK x \in Lenders(l[2]) : l[1] \in Home(x) BY <2>7
    <3>3. x \in Lenders(l[2])' /\ l[1] \in Home(x)' BY <2>6, <3>2
    <3>4. QED BY <2>1, <2>3, <2>7, <3>3
  <2>9. QED BY <2>3, <2>4, <2>8 DEF LeakInv
<1>10. QED BY <1>1, <1>3, <1>4, <1>5, <1>6, <1>7, <1>8, <1>9 DEF CapNext

(* Whatever the operations on VMOs and VMARs, their order and number, the  *)
(* masks, the type arguments and the permissions: through capabilities,    *)
(* VMARs and faults memory is written and mapped, and capabilities are     *)
(* held, within the rights that the allocation of the VMO gave out and the *)
(* masks of the dynamic restrict; and what is written past them is a frame *)
(* that a COW child with WRITE had inherited.                              *)
THEOREM AuthorityIsKept == CapSpec => []AuthorityKept
<1>1. CapInv /\ LeakInv => AuthorityKept
  BY DEF CapInv, CapsFit, MappingsFit, WritesFit, Covered, AuthorityKept, CapsOf, LeakInv, LeaksFit
<1>2. QED BY <1>1, CapInvHolds, CapInvKept, LeakInvHolds, LeakInvKept, PTL DEF CapSpec

-----------------------------------------------------------------------------
(* The proof of OffsetShared, for any threads, handles and sizes.  HInv is *)
(* inductive: who is past the lock of an offset owns it, and has the       *)
(* offset of the handle in hand from then on, so that the range a call     *)
(* adds begins where the ranges before it end.                             *)
Holding == {"length", "inode", "upgrade", "io"}

HandleRecords == [off : Nat, owner : HThreads \cup {None}, append : BOOLEAN, base : Nat,
                  done : SUBSET (HThreads \X Nat \X Nat)]
CallRecords == [pc : {"idle", "offset"} \cup Holding, op : {None, "read", "write", "seek", "pread"},
                h : Handles \cup {None}, n : Nat, at : Nat, more : Nat]
FileRecords == [len : Nat, writer : HThreads \cup {None}, up : HThreads \cup {None},
                readers : SUBSET HThreads]

HTypes == /\ hnd \in [Handles -> HandleRecords]
          /\ file \in FileRecords
          /\ call \in [HThreads -> CallRecords]
          /\ \A t \in HThreads : call[t].pc # "idle" => call[t].h \in Handles

OwnersFit ==
  \A t \in HThreads :
    call[t].pc \in Holding =>
      /\ hnd[call[t].h].owner = t
      /\ call[t].pc # "length" => call[t].at = hnd[call[t].h].off

(* The ranges in done are not empty, lie apart and fill base .. off - 1.   *)
RangesFit(r) ==
  /\ r.base <= r.off
  /\ \A d \in r.done : r.base <= d[2] /\ d[3] > 0 /\ d[2] + d[3] <= r.off
  /\ \A x, y \in r.done : x # y => x[2] + x[3] <= y[2] \/ y[2] + y[3] <= x[2]
  /\ \A k \in r.base .. (r.off - 1) : \E x \in r.done : x[2] <= k /\ k < x[2] + x[3]

HInv == HTypes /\ OwnersFit /\ \A h \in Handles : RangesFit(hnd[h])

(* The range of a call that begins at the offset goes with the others.     *)
LEMMA RangesGrow ==
  ASSUME NEW r \in HandleRecords, RangesFit(r), NEW q \in HandleRecords,
         NEW t \in HThreads, NEW n \in Nat,
         q.base = r.base, q.off = r.off + n,
         q.done = IF n = 0 THEN r.done ELSE r.done \cup {<<t, r.off, n>>}
  PROVE  RangesFit(q)
<1>1. CASE n = 0
  <2>1. q.off = r.off /\ q.done = r.done BY SMTT(60), <1>1 DEF HandleRecords
  <2>2. QED BY <2>1 DEF RangesFit
<1>2. CASE n > 0
  <2> DEFINE e == <<t, r.off, n>>
  <2>1. q.done = r.done \cup {e} BY SMTT(60), <1>2
  <2>2. e[2] = r.off /\ e[3] = n OBVIOUS
  <2>3. /\ r.base \in Nat /\ r.off \in Nat /\ q.base = r.base /\ q.off = r.off + n
        /\ \A d \in r.done : d[2] \in Nat /\ d[3] \in Nat
    BY DEF HandleRecords
  <2> HIDE DEF e
  <2>4. q.base <= q.off BY SMTT(60), <2>3 DEF RangesFit
  <2>5. \A d \in q.done : q.base <= d[2] /\ d[3] > 0 /\ d[2] + d[3] <= q.off
    BY SMTT(60), <1>2, <2>1, <2>2, <2>3 DEF RangesFit
  <2>6. ASSUME NEW x \in q.done, NEW y \in q.done, x # y
        PROVE  x[2] + x[3] <= y[2] \/ y[2] + y[3] <= x[2]
    BY <2>1, <2>2, <2>3, <2>6 DEF RangesFit
  <2>7. ASSUME NEW k \in q.base .. (q.off - 1)
        PROVE  \E x \in q.done : x[2] <= k /\ k < x[2] + x[3]
    <3>1. CASE k < r.off BY SMTT(60), <2>1, <2>3, <2>7, <3>1 DEF RangesFit
    <3>2. CASE k >= r.off BY SMTT(60), <2>1, <2>2, <2>3, <2>7, <3>2
    <3>3. QED BY SMTT(60), <2>3, <3>1, <3>2
  <2>8. QED BY <2>4, <2>5, <2>6, <2>7 DEF RangesFit
<1>3. QED BY SMTT(60), <1>1, <1>2

(* A step of thread t that changes at most the handle h: HInv is kept if   *)
(* nobody else owns h, or if its owner and its offset stay.                *)
LEMMA StepKeeps ==
  ASSUME HInv, NEW t \in HThreads, NEW h \in Handles,
         NEW r \in HandleRecords, NEW c \in CallRecords,
         hnd' = [hnd EXCEPT ![h] = r], call' = [call EXCEPT ![t] = c], file' \in FileRecords,
         RangesFit(r),
         hnd[h].owner \in {None, t} \/ (r.owner = hnd[h].owner /\ r.off = hnd[h].off),
         c.pc # "idle" => c.h \in Handles,
         c.pc \in Holding => c.h = h /\ r.owner = t /\ (c.pc # "length" => c.at = r.off)
  PROVE  HInv'
<1>1. /\ hnd' \in [Handles -> HandleRecords] /\ call' \in [HThreads -> CallRecords]
      /\ hnd'[h] = r /\ \A k \in Handles \ {h} : hnd'[k] = hnd[k]
      /\ call'[t] = c /\ \A u \in HThreads \ {t} : call'[u] = call[u]
  BY DEF HInv, HTypes
<1>2. HTypes' BY SMTT(60), <1>1 DEF HInv, HTypes
<1>3. ASSUME NEW u \in HThreads, call'[u].pc \in Holding
      PROVE  /\ hnd'[call'[u].h].owner = u
             /\ call'[u].pc # "length" => call'[u].at = hnd'[call'[u].h].off
  <2>1. CASE u = t BY <1>1, <1>3, <2>1
  <2>2. CASE u # t
    <3>1. /\ call'[u] = call[u] /\ call[u].h \in Handles /\ hnd[call[u].h].owner = u
          /\ call[u].pc # "length" => call[u].at = hnd[call[u].h].off
      BY <1>1, <1>3, <2>2 DEF HInv, HTypes, OwnersFit, Holding
    <3>2. CASE call[u].h = h BY SMTT(60), <1>1, <2>2, <3>1, <3>2, HandlesAssumption
    <3>3. CASE call[u].h # h BY <1>1, <3>1, <3>3
    <3>4. QED BY <3>2, <3>3
  <2>3. QED BY <2>1, <2>2
<1>4. \A k \in Handles : RangesFit(hnd'[k]) BY <1>1 DEF HInv
<1>5. QED BY <1>2, <1>3, <1>4 DEF HInv, OwnersFit, RangesFit

(* A file that was just positioned has no ranges.                          *)
LEMMA RangesStart ==
  ASSUME NEW r \in HandleRecords, r.base = r.off, r.done = {} PROVE RangesFit(r)
BY SMTT(60) DEF RangesFit, HandleRecords

LEMMA StartFits == ASSUME HInit PROVE HInv
<1>1. /\ NoCall \in CallRecords /\ NoCall.pc = "idle"
      /\ [off |-> 0, owner |-> None, append |-> FALSE, base |-> 0, done |-> {}] \in HandleRecords
  BY DEF NoCall, CallRecords, HandleRecords
<1>2. HTypes
  <2>1. PICK len \in 0..1 : file = [len |-> len, writer |-> None, up |-> None, readers |-> {}]
    BY DEF HInit
  <2>2. len \in Nat BY SMTT(60), <2>1
  <2>3. file \in FileRecords BY <2>1, <2>2 DEF FileRecords
  <2>4. QED BY <1>1, <2>3 DEF HInit, HTypes
<1>3. OwnersFit BY <1>1 DEF HInit, OwnersFit, Holding
<1>4. ASSUME NEW h \in Handles PROVE RangesFit(hnd[h])
  BY <1>1, RangesStart DEF HInit
<1>5. QED BY <1>2, <1>3, <1>4 DEF HInv

(* The start of a call leaves the handles alone.                           *)
LEMMA EnterKeeps ==
  ASSUME HInv, NEW t \in HThreads, NEW h \in Handles, NEW c \in CallRecords, Enter(t, h, c)
  PROVE  HInv'
<1> DEFINE d == [c EXCEPT !.pc = "offset", !.h = h]
<1>1. d \in CallRecords /\ d.pc = "offset" /\ d.h = h BY DEF CallRecords
<1>2. /\ call' = [call EXCEPT ![t] = d] /\ file' \in FileRecords
      /\ hnd[h] \in HandleRecords /\ hnd' = [hnd EXCEPT ![h] = hnd[h]] /\ RangesFit(hnd[h])
  BY DEF Enter, Now, HInv, HTypes
<1>3. "offset" \notin Holding BY DEF Holding
<1> HIDE DEF d
<1>4. QED BY <1>1, <1>2, <1>3, StepKeeps

LEMMA SetflKeeps ==
  ASSUME HInv, NEW t \in HThreads, NEW h \in Handles, NEW a \in BOOLEAN, sys_fcntl_setfl(t, h, a)
  PROVE  HInv'
<1> DEFINE r == [hnd[h] EXCEPT !.append = a]
<1>1. /\ hnd[h] \in HandleRecords /\ RangesFit(hnd[h]) /\ call[t] \in CallRecords
      /\ call[t].pc = "idle" /\ file' \in FileRecords
      /\ hnd' = [hnd EXCEPT ![h] = r] /\ call' = [call EXCEPT ![t] = call[t]]
  BY DEF sys_fcntl_setfl, HInv, HTypes
<1>2. /\ r \in HandleRecords /\ r.owner = hnd[h].owner /\ r.off = hnd[h].off
      /\ r.base = hnd[h].base /\ r.done = hnd[h].done
  BY <1>1 DEF HandleRecords
<1>3. RangesFit(r) BY <1>1, <1>2 DEF RangesFit
<1>4. "idle" \notin Holding BY DEF Holding
<1> HIDE DEF r
<1>5. QED BY <1>1, <1>2, <1>3, <1>4, StepKeeps

(* A handle is positioned by who owns it, or while nobody does.            *)
LEMMA SeekKeeps ==
  ASSUME HInv, NEW t \in HThreads, NEW h \in Handles, NEW c \in CallRecords, NEW at \in Nat,
         hnd[h].owner \in {None, t}, UNCHANGED file, call' = [call EXCEPT ![t] = c],
         hnd' = [hnd EXCEPT ![h].off = at, ![h].base = at, ![h].done = {}],
         c.pc # "idle" => c.h = h,
         c.pc \in Holding => hnd[h].owner = t /\ c.at = at
  PROVE  HInv'
<1> DEFINE r == [hnd[h] EXCEPT !.off = at, !.base = at, !.done = {}]
<1>1. hnd[h] \in HandleRecords /\ file' \in FileRecords BY DEF HInv, HTypes
<1>2. hnd' = [hnd EXCEPT ![h] = r] OBVIOUS
<1>3. /\ r \in HandleRecords /\ r.owner = hnd[h].owner /\ r.off = at
      /\ r.base = at /\ r.done = {}
  BY <1>1 DEF HandleRecords
<1>4. RangesFit(r) BY <1>3, RangesStart
<1>5. c.pc \in Holding => c.pc # "idle" BY DEF Holding
<1> HIDE DEF r
<1>6. QED BY ZenonT(60), <1>1, <1>2, <1>3, <1>4, <1>5, StepKeeps

LEMMA PositionKeeps ==
  ASSUME HInv, NEW t \in HThreads,
         seek(t) \/ SeekEnd(t) \/ SeekCurrent(t) \/ SeekRefused(t) \/ inode_len(t)
  PROVE  HInv'
<1> DEFINE c == call[t]
<1>1. /\ c \in CallRecords /\ c.h \in Handles /\ c.at \in Nat /\ file.len \in Nat
      /\ NoCall \in CallRecords /\ NoCall.pc = "idle" /\ "idle" \notin Holding
      /\ "offset" \notin Holding
  BY DEF HInv, HTypes, CallRecords, FileRecords, seek, SeekEnd, SeekCurrent, SeekRefused,
         inode_len, NoCall, Holding
<1>2. CASE seek(t) /\ c.op = "seek"
  <2>1. /\ hnd[c.h].owner = None /\ UNCHANGED file /\ call' = [call EXCEPT ![t] = NoCall]
        /\ hnd' = [hnd EXCEPT ![c.h].off = c.at, ![c.h].base = c.at, ![c.h].done = {}]
    BY <1>2 DEF seek, Return, Now
  <2>2. QED BY <1>1, <2>1, SeekKeeps
<1>3. CASE seek(t) /\ c.op # "seek"
  <2> DEFINE d == [c EXCEPT !.op = "read"]
  <2>1. /\ hnd[c.h].owner = None /\ UNCHANGED file /\ call' = [call EXCEPT ![t] = d]
        /\ hnd' = [hnd EXCEPT ![c.h].off = c.at, ![c.h].base = c.at, ![c.h].done = {}]
        /\ c.pc = "offset"
    BY <1>3 DEF seek, Now
  <2>2. d \in CallRecords /\ d.pc = "offset" /\ d.h = c.h BY <1>1, <2>1 DEF CallRecords
  <2> HIDE DEF d
  <2>3. QED BY <1>1, <2>1, <2>2, SeekKeeps
<1>4. CASE SeekEnd(t)
  <2>1. /\ hnd[c.h].owner = None /\ UNCHANGED file /\ call' = [call EXCEPT ![t] = NoCall]
        /\ hnd' = [hnd EXCEPT ![c.h].off = file.len, ![c.h].base = file.len, ![c.h].done = {}]
    BY <1>4 DEF SeekEnd, Return, Now
  <2>2. QED BY <1>1, <2>1, SeekKeeps
<1>5. CASE inode_len(t)
  <2> DEFINE d == [c EXCEPT !.pc = "inode", !.at = file.len]
  <2>1. /\ c.pc = "length" /\ UNCHANGED file /\ call' = [call EXCEPT ![t] = d]
        /\ hnd' = [hnd EXCEPT ![c.h].off = file.len, ![c.h].base = file.len, ![c.h].done = {}]
    BY <1>5 DEF inode_len, Now
  <2>2. d \in CallRecords /\ d.h = c.h /\ d.at = file.len BY <1>1 DEF CallRecords, Holding
  <2>3. hnd[c.h].owner = t BY <2>1 DEF HInv, OwnersFit, Holding
  <2> HIDE DEF d
  <2>4. QED BY <1>1, <2>1, <2>2, <2>3, SeekKeeps
<1>6. CASE SeekCurrent(t)
  <2>1. hnd[c.h].off \in Nat BY <1>1 DEF HInv, HTypes, HandleRecords
  <2>2. PICK at \in 0..hnd[c.h].off :
          hnd' = [hnd EXCEPT ![c.h].off = at, ![c.h].base = at, ![c.h].done = {}]
    BY <1>6 DEF SeekCurrent
  <2>3. at \in Nat BY SMTT(60), <2>1
  <2>4. /\ hnd[c.h].owner = None /\ UNCHANGED file /\ call' = [call EXCEPT ![t] = NoCall]
    BY <1>6 DEF SeekCurrent, Return, Now
  <2>5. QED BY <1>1, <2>2, <2>3, <2>4, SeekKeeps
<1>7. CASE SeekRefused(t)
  <2>1. /\ hnd[c.h] \in HandleRecords /\ RangesFit(hnd[c.h]) /\ file' \in FileRecords
        /\ hnd' = [hnd EXCEPT ![c.h] = hnd[c.h]] /\ call' = [call EXCEPT ![t] = NoCall]
    BY <1>1, <1>7 DEF SeekRefused, Return, Now, HInv, HTypes
  <2>2. QED BY <1>1, <2>1, StepKeeps
<1>8. QED BY <1>2, <1>3, <1>4, <1>5, <1>6, <1>7

(* Who takes the lock of an offset has the offset in hand.                 *)
LEMMA TakeKeeps ==
  ASSUME HInv, NEW t \in HThreads, read(t) \/ write(t)
  PROVE  HInv'
<1> DEFINE c == call[t]
           h == c.h
           d == [c EXCEPT !.pc = IF c.op = "write" /\ hnd[h].append THEN "length" ELSE "inode",
                          !.at = hnd[h].off]
           r == [hnd[h] EXCEPT !.owner = t]
<1>1. /\ c \in CallRecords /\ h \in Handles /\ hnd[h] \in HandleRecords
      /\ RangesFit(hnd[h]) /\ file' \in FileRecords
  BY DEF HInv, HTypes, read, write
<1>2. /\ hnd[h].owner = None /\ hnd' = [hnd EXCEPT ![h] = r] /\ call' = [call EXCEPT ![t] = d]
  <2>1. CASE read(t) BY <2>1 DEF read, Now
  <2>2. CASE write(t) BY <2>2 DEF write, Now
  <2>3. QED BY <2>1, <2>2
<1>3. d \in CallRecords /\ d.h = h /\ d.at = hnd[h].off
  BY <1>1 DEF CallRecords, HandleRecords, Holding
<1>4. /\ r \in HandleRecords /\ r.owner = t /\ r.off = hnd[h].off
      /\ r.base = hnd[h].base /\ r.done = hnd[h].done
  BY <1>1 DEF HandleRecords
<1>5. RangesFit(r) BY <1>1, <1>4 DEF RangesFit
<1> HIDE DEF d, r
<1>6. QED BY <1>1, <1>2, <1>3, <1>4, <1>5, StepKeeps

(* The lock of the inode is taken under the lock of the offset.            *)
LEMMA StartKeeps ==
  ASSUME HInv, NEW t \in HThreads, ReadStarts(t) \/ WriteStarts(t) \/ Upgrade(t)
  PROVE  HInv'
<1> DEFINE c == call[t]
           h == c.h
<1>1. /\ c \in CallRecords /\ h \in Handles /\ hnd[h] \in HandleRecords
      /\ RangesFit(hnd[h]) /\ hnd[h].owner = t /\ c.at = hnd[h].off
  BY DEF HInv, HTypes, OwnersFit, Holding, ReadStarts, WriteStarts, Upgrade
<1>2. PICK p \in {"upgrade", "io"} : call' = [call EXCEPT ![t] = [c EXCEPT !.pc = p]]
  BY DEF ReadStarts, WriteStarts, Upgrade, Now
<1>3. file' \in FileRecords
  BY ZenonT(60) DEF HInv, HTypes, FileRecords, ReadStarts, WriteStarts, Upgrade
<1>4. hnd' = [hnd EXCEPT ![h] = hnd[h]]
  BY <1>1 DEF HInv, HTypes, ReadStarts, WriteStarts, Upgrade
<1> DEFINE d == [c EXCEPT !.pc = p]
<1>5. d \in CallRecords /\ d.h = h /\ d.at = c.at BY <1>1 DEF CallRecords, Holding
<1> HIDE DEF d
<1>6. call' = [call EXCEPT ![t] = d] BY <1>2 DEF d
<1>7. QED BY <1>1, <1>3, <1>4, <1>5, <1>6, StepKeeps

(* A call ends: the handle moves past the bytes and is free.               *)
LEMMA EndKeeps ==
  ASSUME HInv, NEW t \in HThreads, NEW n \in Nat, NEW c \in CallRecords,
         call[t].pc = "io", Advance(t, n), file' \in FileRecords,
         call' = [call EXCEPT ![t] = c], c.pc \in {"idle", "offset"},
         c.pc = "offset" => c.h = call[t].h
  PROVE  HInv'
<1> DEFINE h == call[t].h
           r == [hnd[h] EXCEPT !.off = @ + n, !.owner = None,
                               !.done = IF n = 0 THEN @ ELSE @ \cup {<<t, call[t].at, n>>}]
<1>1. /\ call[t] \in CallRecords /\ h \in Handles /\ hnd[h] \in HandleRecords
      /\ RangesFit(hnd[h]) /\ hnd[h].owner = t /\ call[t].at = hnd[h].off
  BY DEF HInv, HTypes, OwnersFit, Holding
<1>2. hnd' = [hnd EXCEPT ![h] = r] BY DEF Advance
<1>3. hnd[h].off \in Nat /\ hnd[h].done \in SUBSET (HThreads \X Nat \X Nat)
  BY <1>1 DEF HandleRecords
<1>4. /\ r.off = hnd[h].off + n /\ r.base = hnd[h].base
      /\ r.done = IF n = 0 THEN hnd[h].done ELSE hnd[h].done \cup {<<t, hnd[h].off, n>>}
  BY <1>1 DEF HandleRecords
<1>5. r \in HandleRecords
  <2> DEFINE off == hnd[h].off + n
             done == IF n = 0 THEN hnd[h].done ELSE hnd[h].done \cup {<<t, call[t].at, n>>}
  <2>1. off \in Nat /\ done \in SUBSET (HThreads \X Nat \X Nat) BY SMTT(60), <1>1, <1>3
  <2>2. r = [hnd[h] EXCEPT !.off = off, !.owner = None, !.done = done] OBVIOUS
  <2> HIDE DEF off, done, r
  <2>3. QED BY <1>1, <2>1, <2>2 DEF HandleRecords
<1> HIDE DEF r
<1>6. RangesFit(r) BY <1>1, <1>4, <1>5, RangesGrow
<1>7. c.pc \notin Holding BY DEF Holding
<1>8. QED BY <1>1, <1>2, <1>5, <1>6, <1>7, StepKeeps

LEMMA EndsKeep ==
  ASSUME HInv, NEW t \in HThreads, ReadEnds(t) \/ WriteEnds(t) \/ Fails(t)
  PROVE  HInv'
<1> DEFINE c == call[t]
<1>1. /\ c \in CallRecords /\ c.at \in Nat /\ c.n \in Nat /\ c.more \in Nat
      /\ file \in FileRecords /\ file.len \in Nat
      /\ NoCall \in CallRecords /\ NoCall.pc = "idle"
  BY DEF HInv, HTypes, CallRecords, FileRecords, NoCall
<1>2. CASE ReadEnds(t)
  <2> DEFINE end == IF c.at + c.n < file.len THEN c.at + c.n ELSE file.len
             n == IF c.at < end THEN end - c.at ELSE 0
  <2>1. n \in Nat BY SMTT(60), <1>1
  <2>2. /\ c.pc = "io" /\ Advance(t, n) /\ call' = [call EXCEPT ![t] = NoCall]
        /\ file' = [file EXCEPT !.readers = @ \ {t}]
    BY <1>2 DEF ReadEnds, Return, Now
  <2> HIDE DEF n
  <2>3. file' \in FileRecords BY <1>1, <2>2 DEF FileRecords
  <2>4. QED BY <1>1, <2>1, <2>2, <2>3, EndKeeps
<1>3. CASE WriteEnds(t)
  <2>1. /\ c.pc = "io" /\ Advance(t, c.n)
        /\ file' = [file EXCEPT !.up = IF @ = t THEN None ELSE @,
                                !.writer = IF @ = t THEN None ELSE @,
                                !.len = IF c.at + c.n > @ THEN c.at + c.n ELSE @]
    BY <1>3 DEF WriteEnds
  <2>2. file' \in FileRecords
    <3> DEFINE up == IF file.up = t THEN None ELSE file.up
               writer == IF file.writer = t THEN None ELSE file.writer
               len == IF c.at + c.n > file.len THEN c.at + c.n ELSE file.len
    <3>1. up \in HThreads \cup {None} /\ writer \in HThreads \cup {None} /\ len \in Nat
      BY SMTT(60), <1>1 DEF FileRecords
    <3>2. file' = [file EXCEPT !.up = up, !.writer = writer, !.len = len] BY <2>1
    <3> HIDE DEF up, writer, len
    <3>3. QED BY <1>1, <3>1, <3>2 DEF FileRecords
  <2>3. CASE c.more = 0
    <3>1. call' = [call EXCEPT ![t] = NoCall] BY <1>3, <2>3 DEF WriteEnds, Return, Now
    <3>2. QED BY <1>1, <2>1, <2>2, <3>1, EndKeeps
  <2>4. CASE c.more # 0
    <3> DEFINE d == [c EXCEPT !.pc = "offset", !.more = c.more - 1]
    <3>1. call' = [call EXCEPT ![t] = d] BY <1>3, <2>4 DEF WriteEnds, Now
    <3>2. PICK m \in Nat : m = c.more - 1 BY SMTT(60), <1>1, <2>4
    <3>3. d = [c EXCEPT !.pc = "offset", !.more = m] BY <3>2
    <3>4. d \in CallRecords /\ d.pc = "offset" /\ d.h = c.h
      BY ONLY ZenonT(30), <1>1, <3>3, m \in Nat DEF CallRecords
    <3> HIDE DEF d
    <3>5. QED BY <1>1, <2>1, <2>2, <3>1, <3>4, EndKeeps
  <2>5. QED BY <2>3, <2>4
<1>4. CASE Fails(t)
  <2> DEFINE up == IF file.up = t THEN None ELSE file.up
             writer == IF file.writer = t THEN None ELSE file.writer
  <2>1. /\ c.pc = "io" /\ Advance(t, 0) /\ call' = [call EXCEPT ![t] = NoCall]
        /\ file' = [file EXCEPT !.up = up, !.writer = writer, !.readers = @ \ {t}]
    BY <1>4 DEF Fails, Return, Now
  <2>2. up \in HThreads \cup {None} /\ writer \in HThreads \cup {None}
    BY <1>1 DEF FileRecords
  <2> HIDE DEF up, writer
  <2>3. file' \in FileRecords BY <1>1, <2>1, <2>2 DEF FileRecords
  <2>4. 0 \in Nat OBVIOUS
  <2>5. QED BY <1>1, <2>1, <2>3, <2>4, EndKeeps
<1>5. QED BY <1>2, <1>3, <1>4

LEMMA HNextKeeps == ASSUME HInv, [HNext]_hvars PROVE HInv'
<1>1. CASE UNCHANGED hvars
  BY <1>1 DEF hvars, HInv, HTypes, OwnersFit, RangesFit
<1>2. ASSUME NEW t \in HThreads, NEW h \in Handles, NEW n \in Sizes, NEW pos \in Nat,
             \/ sys_read(t, h, n) \/ sys_write(t, h, n) \/ sys_writev(t, h, n)
             \/ sys_lseek(t, h, pos) \/ sys_pread64(t, h, n, pos)
      PROVE  HInv'
  <2>1. n \in Nat BY HandlesAssumption
  <2>2. PICK c \in CallRecords : Enter(t, h, c)
    <3>1. /\ [NoCall EXCEPT !.op = "read", !.n = n] \in CallRecords
          /\ [NoCall EXCEPT !.op = "write", !.n = n] \in CallRecords
          /\ [NoCall EXCEPT !.op = "write", !.n = n, !.more = 1] \in CallRecords
          /\ [NoCall EXCEPT !.op = "seek", !.at = pos] \in CallRecords
          /\ [NoCall EXCEPT !.op = "pread", !.n = n, !.at = pos] \in CallRecords
      BY <2>1 DEF NoCall, CallRecords
    <3>2. QED BY <1>2, <3>1 DEF sys_read, sys_write, sys_writev, sys_lseek, sys_pread64
  <2>3. QED BY <2>2, EnterKeeps
<1>3. ASSUME NEW t \in HThreads, NEW h \in Handles, sys_lseek(t, h, 0) PROVE HInv'
  <2>1. [NoCall EXCEPT !.op = "seek", !.at = 0] \in CallRecords BY DEF NoCall, CallRecords
  <2>2. QED BY <1>3, <2>1, EnterKeeps DEF sys_lseek
<1>4. QED
  BY <1>1, <1>2, <1>3, SetflKeeps, PositionKeeps, TakeKeeps, StartKeeps, EndsKeep DEF HNext

(* The ranges that fit are those of OffsetShared.                          *)
LEMMA InvShares == ASSUME HInv PROVE OffsetShared
<1> SUFFICES ASSUME NEW h \in Handles
             PROVE  /\ \A x, y \in hnd[h].done : x # y => Span(x) \cap Span(y) = {}
                    /\ UNION {Span(x) : x \in hnd[h].done} = hnd[h].base .. (hnd[h].off - 1)
  BY DEF OffsetShared
<1>1. /\ RangesFit(hnd[h]) /\ hnd[h].base \in Nat /\ hnd[h].off \in Nat
      /\ \A d \in hnd[h].done : d[2] \in Nat /\ d[3] \in Nat
  BY SMTT(60) DEF HInv, HTypes, HandleRecords
<1>2. \A x, y \in hnd[h].done : x # y => Span(x) \cap Span(y) = {}
  BY SMTT(60), <1>1 DEF RangesFit, Span
<1>3. ASSUME NEW k PROVE k \in hnd[h].base .. (hnd[h].off - 1) <=>
                        \E x \in hnd[h].done : k \in Span(x)
  BY SMTT(60), <1>1 DEF RangesFit, Span
<1>4. QED BY SMTT(60), <1>2, <1>3

(* Calls of any number of threads and processes that share an open file,   *)
(* read, write, writev, pread64, lseek and O_APPEND among them, take       *)
(* ranges that neither overlap nor leave a gap, also where some of them    *)
(* fail (InodeHandle_ moves the offset under its lock).                    *)
THEOREM OffsetsAreShared == HSpec => []OffsetShared
<1>1. HInit => HInv BY StartFits
<1>2. HInv /\ [HNext]_hvars => HInv' BY HNextKeeps
<1>3. HInv => OffsetShared BY InvShares
<1>4. QED BY <1>1, <1>2, <1>3, PTL DEF HSpec
=============================================================================

--------------------------- MODULE QcvmManagerProofs ---------------------------
(***************************************************************************)
(* Proofs about QcvmManager and Dtbo, for any number of VMs and entries    *)
(* and any widths of the integers: types, what AVF is told of the memory   *)
(* of a VM, and what it reads as its overlay.                              *)
(***************************************************************************)
EXTENDS QcvmManager, FiniteSetTheorems, TLAPS

-----------------------------------------------------------------------------
(* Arithmetic *)

LEMMA AsI32Small ==
    ASSUME NEW n \in Nat, n <= IntMax
    PROVE  AsI32(n) = n
BY RangeAssumption DEF AsI32

(* A sum beyond i32 wraps to a number from which a part of it cannot be taken off again. *)
LEMMA WrapOverflows ==
    ASSUME NEW n \in Nat, NEW s \in Nat, IntMax < n, n <= s + IntMax, s <= IntMax
    PROVE  ~InI32(AsI32(n) - AsI32(s))
BY AsI32Small, RangeAssumption DEF AsI32, InI32

LEMMA WholeMiB ==
    ASSUME NEW b \in Nat, NEW c \in Nat, b <= c * MiB
    PROVE  b \div MiB \in 0..c
BY DEF MiB

-----------------------------------------------------------------------------
(* The objects *)

OemSumOf(c) == c.name # "trustedvm" => c.total_memory = c.cma_size + c.swiotlb_size

LEMMA ConfigsOfFile ==
    ASSUME TypeOK, Acceptable
    PROVE  /\ Configs \in SUBSET Describable
           /\ IsFiniteSet(Configs)
           /\ \A c \in Configs : OemSumOf(c)
<1>1. ASSUME NEW i \in DOMAIN json, json[i] # Malformed
      PROVE  /\ Filled(json[i]) \in Config
             /\ OemSumOf(Filled(json[i]))
  <2>1. json[i] \in Config
    BY <1>1, EntriesAssumption DEF TypeOK
  <2>2. ASSUME NEW n \in Nat, NEW d \in Nat PROVE Default(n, d) \in Nat
    BY DEF Default
  <2>3. CASE json[i].name = "trustedvm"
    BY <2>1, <2>2, <2>3 DEF Filled, Config, OemSumOf, Default
  <2>4. CASE json[i].name # "trustedvm"
    <3> DEFINE cma == Default(json[i].cma_size, 76)
               swiotlb == Default(json[i].swiotlb_size, 4)
    <3>1. cma \in Nat /\ swiotlb \in Nat
      BY <2>1, <2>2 DEF Config
    <3>2. Filled(json[i]) = [name |-> json[i].name, enabled |-> json[i].enabled,
                             cma_size |-> cma, swiotlb_size |-> swiotlb,
                             total_memory |-> cma + swiotlb]
      BY <2>1, <2>4 DEF Filled, Config
    <3>3. json[i].name \in Vms /\ json[i].enabled \in BOOLEAN
      BY <2>1 DEF Config
    <3> HIDE DEF cma, swiotlb
    <3>4. QED BY <3>1, <3>2, <3>3 DEF Config, OemSumOf
  <2>5. QED BY <2>3, <2>4
<1>2. \A c \in Configs : c \in Config /\ Representable(c) /\ OemSumOf(c)
  BY <1>1 DEF Configs, Acceptable
<1>3. \A c \in Config : Representable(c) => c \in Describable
  BY RangeAssumption DEF Config, Representable, Describable
<1>4. IsFiniteSet(Configs)
  <2>1. PICK n \in Nat : DOMAIN json = 1..n
    BY DEF TypeOK
  <2> DEFINE J == {j \in DOMAIN json : json[j] # Malformed}
  <2>2. IsFiniteSet(J)
    BY <2>1, FS_Interval, FS_Subset
  <2> DEFINE f == [j \in J |-> Filled(json[j])]
  <2>3. f \in Surjection(J, Configs)
    BY DEF Configs, Surjection
  <2>4. QED BY <2>2, <2>3, FS_Surjection
<1>5. QED BY <1>2, <1>3, <1>4

(* The object of a name: there is one at most. *)
LEMMA OneObject ==
    ASSUME TypeOK, NEW v \in Vms, NEW i \in GetVm(v), NEW j \in GetVm(v)
    PROVE  i = j
BY DEF GetVm, TypeOK

LEMMA ObjectType ==
    ASSUME TypeOK, NEW v \in Vms, NEW i \in GetVm(v)
    PROVE  /\ i \in DOMAIN vm_map /\ i \in DOMAIN total
           /\ vm_map[i].name = v
           /\ vm_map[i].cma_size \in 0..IntMax /\ vm_map[i].swiotlb_size \in 0..IntMax
           /\ total[i] \in Nat
<1>1. i \in DOMAIN vm_map /\ vm_map[i] \in Describable
  BY DEF GetVm, TypeOK
<1>2. i \in DOMAIN total /\ total[i] \in Nat /\ vm_map[i].name = v
  BY <1>1 DEF GetVm, TypeOK
<1>3. QED BY <1>1, <1>2 DEF Describable

(* The memory file is a whole number of MiB of the carveout or what was configured. *)
LEMMA BackingType ==
    ASSUME TypeOK, NEW v \in Vms, NEW i \in GetVm(v), carveout[Device(v)] # NoDevice
    PROVE  /\ Backing(v, i) \in Nat
           /\ Backing(v, i) \div MiB \in 0..vm_map[i].cma_size
           /\ Needed(v, i) \in Nat /\ NewTotal(v, i) \in Nat
           /\ Needed(v, i) <= vm_map[i].cma_size + vm_map[i].swiotlb_size
<1>1. carveout[Device(v)] \in Nat
  BY EntriesAssumption DEF TypeOK, Device, Devices
<1>2. vm_map[i].cma_size \in Nat /\ vm_map[i].swiotlb_size \in Nat /\ total[i] \in Nat
  BY ObjectType, RangeAssumption
<1>3. Backing(v, i) \in Nat /\ Backing(v, i) <= vm_map[i].cma_size * MiB
  BY <1>1, <1>2 DEF Backing, MiB
<1>4. Backing(v, i) \div MiB \in 0..vm_map[i].cma_size
  BY <1>2, <1>3, WholeMiB
<1>5. QED BY <1>2, <1>3, <1>4 DEF Needed, NewTotal

-----------------------------------------------------------------------------
(* Types *)

(* What Lookup returns is the place of an entry of the table, or nothing. *)
LEMMA LookupInTable ==
    ASSUME TypeOK, NEW v \in Vms, Lookup(v) # NoEntry
    PROVE  /\ Lookup(v) \in Nat
           /\ Lookup(v) + EntryBytes <= image.length
           /\ \E k \in 0..(image.dt_entry_count - 1) :
                Lookup(v) = image.dt_entry_size * k + image.dt_entries_offset
<1> DEFINE index == AsU32(image.index[v])
<1>1. /\ image.dt_entry_count \in Nat /\ image.dt_entry_size \in Nat
      /\ image.dt_entries_offset \in Nat /\ image.length \in Nat /\ image.index[v] \in Int
  BY ImageAssumption, WidthAssumption DEF TypeOK
<1>2. index \in Nat
  BY <1>1, WidthAssumption DEF AsU32
<1> HIDE DEF index
<1>3. image.dt_entry_size * index \in Nat
  BY <1>1, <1>2
<1>4. /\ index < image.dt_entry_count
      /\ Lookup(v) = image.dt_entry_size * index + image.dt_entries_offset
      /\ Lookup(v) + EntryBytes <= image.length
  BY DEF Lookup, index
<1>5. index \in 0..(image.dt_entry_count - 1)
  BY <1>1, <1>2, <1>4
<1>6. Lookup(v) \in Nat
  BY <1>1, <1>3, <1>4
<1>7. QED BY <1>4, <1>5, <1>6

LEMMA InitTypes == ASSUME Init PROVE TypeOK
BY EntriesAssumption DEF Init, TypeOK, Contents, None, NoEntry

LEMMA DtboTypes ==
    ASSUME TypeOK, NEW v \in Vms, DtboStep(v),
           UNCHANGED <<settingVars, mapVars, memoryVars, boots>>
    PROVE  TypeOK'
<1> USE DEF TypeOK, Go, fileVars, deviceVars, settingVars, mapVars, memoryVars, DtboSteps,
            Contents, Reasons
<1>1. CASE FindDirectory(v)       BY <1>1 DEF FindDirectory
<1>2. CASE FindDirectoryAgain(v)  BY <1>2 DEF FindDirectoryAgain
<1>3. CASE RemoveDirectory(v)     BY <1>3 DEF RemoveDirectory
<1>4. CASE CreateDirectory(v)     BY <1>4 DEF CreateDirectory
<1>5. CASE ReadTable(v)
  <2>1. Lookup(v) \in Nat \cup {NoEntry}
    BY LookupInTable
  <2>2. QED BY <1>5, <2>1 DEF ReadTable
<1>6. CASE FindOldFile(v)         BY <1>6 DEF FindOldFile
<1>7. CASE RemoveOldFile(v)       BY <1>7 DEF RemoveOldFile
<1>8. CASE CreateFile(v)          BY <1>8 DEF CreateFile
<1>9. CASE WriteFails(v)          BY <1>9 DEF WriteFails
<1>10. CASE WriteFile(v)          BY <1>10 DEF WriteFile
<1>11. CASE ReopenFile(v)         BY <1>11 DEF ReopenFile
<1>12. CASE OpenFile(v)           BY <1>12 DEF OpenFile
<1>13. QED BY <1>1, <1>2, <1>3, <1>4, <1>5, <1>6, <1>7, <1>8, <1>9, <1>10, <1>11, <1>12
           DEF DtboStep

LEMMA NewManagerTypes ==
    ASSUME TypeOK, NewManager
    PROVE  TypeOK'
<1>1. Configs \in SUBSET Describable /\ Cardinality(Configs) \in Nat
  BY ConfigsOfFile, FS_CardinalityType DEF NewManager
<1>2. vm_map' \in [1..Cardinality(Configs) -> Describable]
  BY <1>1 DEF NewManager
<1>3. vm_map' \in Seq(Describable)
  BY <1>1, <1>2
<1>4. DOMAIN vm_map' = 1..Cardinality(Configs)
  BY <1>2
<1>5. \A i \in DOMAIN vm_map' : vm_map'[i].total_memory \in Nat
  BY <1>2, RangeAssumption DEF Describable
<1>6. total' \in [1..Cardinality(Configs) -> Nat]
  BY <1>4, <1>5 DEF NewManager
<1>7. total' \in Seq(Nat) /\ DOMAIN total' = DOMAIN vm_map'
  BY <1>1, <1>4, <1>6
<1>8. QED
  BY <1>3, <1>7 DEF NewManager, TypeOK, deviceVars, fileVars, settingVars, memoryVars

LEMMA SetMemoryTypes ==
    ASSUME TypeOK, NEW v \in Vms, SetMemory(v)
    PROVE  TypeOK'
<1>1. PICK i \in GetVm(v) : SetMemory(v)!(i)
  BY DEF SetMemory
<1>2. NewTotal(v, i) \in Nat /\ Backing(v, i) \in Nat
  BY <1>1, BackingType
<1>3. Private(v, i) \in Int
  <2>1. \A n \in Nat : AsI32(n) \in Int
    BY RangeAssumption DEF AsI32
  <2>2. QED BY <1>2, <2>1, ObjectType, RangeAssumption DEF Private
<1>4. total' \in Seq(Nat) /\ DOMAIN total' = DOMAIN total
  BY <1>1, <1>2, ObjectType DEF TypeOK
<1>5. memory' \in [Vms -> Int] /\ backing' \in [Vms -> Nat \cup {None}]
  BY <1>1, <1>2, <1>3 DEF TypeOK, memoryVars
<1>6. QED
  BY <1>1, <1>4, <1>5 DEF TypeOK, Go, deviceVars, fileVars, settingVars, DtboSteps, Reasons

LEMMA StepTypes ==
    ASSUME TypeOK, [Next]_vars
    PROVE  TypeOK'
<1> USE DEF TypeOK, Go, fileVars, deviceVars, settingVars, mapVars, memoryVars, Reasons,
            DtboSteps
<1>1. CASE NewManager       BY <1>1, NewManagerTypes
<1>2. CASE NewManagerFails  BY <1>2 DEF NewManagerFails
<1>3. CASE Restart          BY <1>3 DEF Restart, Contents, NoEntry, None
<1>4. ASSUME NEW v \in Vms, StartVm(v) PROVE TypeOK'
  BY <1>4 DEF StartVm
<1>5. ASSUME NEW v \in Vms, DeviceMissing(v) PROVE TypeOK'
  BY <1>5 DEF DeviceMissing
<1>6. ASSUME NEW v \in Vms, BuildUnknown(v) PROVE TypeOK'
  BY <1>6 DEF BuildUnknown
<1>7. ASSUME NEW v \in Vms, SetMemory(v) PROVE TypeOK'
  BY <1>7, SetMemoryTypes
<1>8. ASSUME NEW v \in Vms, DtboStep(v), UNCHANGED <<settingVars, mapVars, memoryVars, boots>>
      PROVE  TypeOK'
  BY <1>8, DtboTypes
<1>9. CASE UNCHANGED vars   BY <1>9 DEF vars
<1>10. QED BY <1>1, <1>2, <1>3, <1>4, <1>5, <1>6, <1>7, <1>8, <1>9 DEF Next

(* Types of the service, for every file, image and device. *)
THEOREM TypesKept == Spec => []TypeOK
<1>1. Init => TypeOK
  BY InitTypes
<1>2. TypeOK /\ [Next]_vars => TypeOK'
  BY StepTypes
<1>3. QED BY <1>1, <1>2, PTL DEF Spec

-----------------------------------------------------------------------------
(* Memory *)

(* A service that is up has no total beyond i32: the boot that makes one ends it. *)
TotalsFit == process = "up" => \A i \in DOMAIN total : total[i] <= IntMax
OemSum == \A i \in DOMAIN vm_map : OemSumOf(vm_map[i])

(* What AVF was told is what the object of that name would tell it again. *)
Told(v) ==
    \E i \in GetVm(v) : /\ carveout[Device(v)] # NoDevice
                        /\ NewTotal(v, i) = total[i]
                        /\ memory[v] = Private(v, i)
                        /\ backing[v] = Backing(v, i)
ToldOnce ==
    \A v \in Vms : /\ process = "starting" => memory[v] = None
                   /\ process = "up" /\ memory[v] # None => Told(v)

MemoryInv == TotalsFit /\ OemSum /\ ToldOnce /\ PrivateIsBacking /\ OemMemoryFits

(* A step that leaves the objects and what AVF was told alone. *)
LEMMA QuietMemory ==
    ASSUME MemoryInv, UNCHANGED <<settingVars, mapVars, memoryVars>>,
           process' = process \/ process' \notin {"starting", "up"}
    PROVE  MemoryInv'
<1> USE DEF settingVars, mapVars, memoryVars
<1>1. TotalsFit' /\ OemSum' /\ PrivateIsBacking' /\ OemMemoryFits'
  BY DEF MemoryInv, TotalsFit, OemSum, PrivateIsBacking, OemMemoryFits
<1>2. ASSUME NEW v \in Vms PROVE Told(v)' <=> Told(v)
  BY DEF Told, GetVm, NewTotal, Needed, Backing, Private
<1>3. ToldOnce'
  BY <1>2 DEF MemoryInv, ToldOnce
<1>4. QED BY <1>1, <1>3 DEF MemoryInv

LEMMA NewManagerMemory ==
    ASSUME TypeOK, MemoryInv, NewManager
    PROVE  MemoryInv'
<1>1. \A i \in DOMAIN vm_map' : vm_map'[i] \in Describable /\ OemSumOf(vm_map'[i])
  <2>1. vm_map' \in [1..Cardinality(Configs) -> Configs]
    BY DEF NewManager
  <2>2. QED BY <2>1, ConfigsOfFile DEF NewManager
<1>2. \A i \in DOMAIN total' : total'[i] \in 0..IntMax
  BY <1>1 DEF NewManager, Describable
<1>3. TotalsFit'
  BY <1>2, RangeAssumption DEF TotalsFit
<1>4. OemSum'
  BY <1>1 DEF OemSum
<1>5. OemMemoryFits'
  <2>1. DOMAIN total' = DOMAIN vm_map'
    BY DEF NewManager
  <2>2. QED BY <1>2, <2>1, RangeAssumption DEF OemMemoryFits
<1>6. \A v \in Vms : memory'[v] = None
  BY DEF NewManager, MemoryInv, ToldOnce, memoryVars
<1>7. ToldOnce' /\ PrivateIsBacking'
  BY <1>6 DEF NewManager, ToldOnce, PrivateIsBacking
<1>8. QED BY <1>3, <1>4, <1>5, <1>7 DEF MemoryInv

(* A boot that AVF is told of has a total that fits, and its private memory is what the
   total leaves beside the shared memory. *)
LEMMA TotalTold ==
    ASSUME TypeOK, MemoryInv, process = "up", NEW v \in Vms, NEW i \in GetVm(v),
           carveout[Device(v)] # NoDevice
    PROVE  /\ InI32(Private(v, i)) => /\ NewTotal(v, i) <= IntMax
                                      /\ Private(v, i) = NewTotal(v, i) - vm_map[i].swiotlb_size
           /\ v # "trustedvm" => NewTotal(v, i) <= IntMax
<1> DEFINE t == NewTotal(v, i)
           s == vm_map[i].swiotlb_size
<1>1. /\ i \in DOMAIN vm_map /\ i \in DOMAIN total /\ vm_map[i].name = v
      /\ vm_map[i].cma_size \in 0..IntMax /\ s \in 0..IntMax /\ total[i] \in Nat
  BY ObjectType
<1>2. /\ t \in Nat /\ Needed(v, i) \in Nat
      /\ Needed(v, i) <= vm_map[i].cma_size + s
      /\ t = Needed(v, i) \/ t = total[i]
  BY BackingType DEF NewTotal
<1>3. total[i] <= IntMax
  BY <1>1 DEF MemoryInv, TotalsFit
<1>4. v # "trustedvm" => t <= IntMax
  <2>1. v # "trustedvm" => vm_map[i].cma_size + s = vm_map[i].total_memory
    BY <1>1 DEF MemoryInv, OemSum, OemSumOf
  <2>2. vm_map[i].total_memory \in 0..IntMax
    <3>1. vm_map[i] \in Describable
      BY <1>1 DEF TypeOK
    <3>2. QED BY <3>1 DEF Describable
  <2>3. QED BY <1>1, <1>2, <1>3, <2>1, <2>2, RangeAssumption
<1>5. Private(v, i) = AsI32(t) - AsI32(s)
  BY DEF Private
<1> HIDE DEF t, s
<1>6. InI32(Private(v, i)) => t <= IntMax
  <2>1. t <= s + IntMax
    BY <1>1, <1>2, <1>3, RangeAssumption
  <2>2. s \in Nat /\ s <= IntMax
    BY <1>1, RangeAssumption
  <2>3. CASE IntMax < t
    BY <1>2, <1>5, <2>1, <2>2, <2>3, WrapOverflows
  <2>4. CASE ~(IntMax < t)
    BY <1>2, <2>4, RangeAssumption
  <2>5. QED BY <2>3, <2>4
<1>7. t <= IntMax => Private(v, i) = t - s
  <2>1. s \in Nat /\ s <= IntMax
    BY <1>1, RangeAssumption
  <2>2. QED BY <1>2, <1>5, <2>1, AsI32Small
<1>8. QED BY <1>4, <1>6, <1>7 DEF t, s

LEMMA SetMemoryMemory ==
    ASSUME TypeOK, MemoryInv, NEW v \in Vms, SetMemory(v)
    PROVE  MemoryInv'
<1>1. PICK i \in GetVm(v) : SetMemory(v)!(i)
  BY DEF SetMemory
<1>2. /\ process = "up" /\ carveout[Device(v)] # NoDevice
      /\ vm_map' = vm_map /\ carveout' = carveout /\ debuggable' = debuggable
      /\ total' = [total EXCEPT ![i] = NewTotal(v, i)]
  BY <1>1 DEF Go, settingVars
<1>3. \/ /\ InI32(Private(v, i)) /\ process' = process
         /\ memory' = [memory EXCEPT ![v] = Private(v, i)]
         /\ backing' = [backing EXCEPT ![v] = Backing(v, i)]
      \/ ~InI32(Private(v, i)) /\ process' = "overflow" /\ memory' = memory /\ backing' = backing
  BY <1>1 DEF memoryVars
<1>4. /\ i \in DOMAIN vm_map /\ i \in DOMAIN total /\ vm_map[i].name = v
      /\ total[i] \in Nat /\ vm_map[i].swiotlb_size \in Nat
  BY ObjectType, RangeAssumption
<1>5. /\ NewTotal(v, i) \in Nat /\ Needed(v, i) \in Nat
      /\ Backing(v, i) \div MiB \in Nat
      /\ Needed(v, i) = (Backing(v, i) \div MiB) + vm_map[i].swiotlb_size
  <2>1. \A n \in 0..vm_map[i].cma_size : n \in Nat
    BY <1>4
  <2>2. QED BY <1>2, <2>1, BackingType DEF Needed
<1>6. /\ InI32(Private(v, i)) => NewTotal(v, i) <= IntMax
      /\ InI32(Private(v, i)) => Private(v, i) = NewTotal(v, i) - vm_map[i].swiotlb_size
      /\ v # "trustedvm" => NewTotal(v, i) <= IntMax
  BY <1>2, TotalTold
<1>7. /\ DOMAIN total' = DOMAIN total
      /\ total'[i] = NewTotal(v, i)
      /\ \A j \in DOMAIN total : j # i => total'[j] = total[j]
  BY <1>2, <1>4
<1>8. TotalsFit'
  BY <1>2, <1>3, <1>6, <1>7 DEF MemoryInv, TotalsFit
<1>9. OemSum'
  BY <1>2 DEF MemoryInv, OemSum
<1>10. OemMemoryFits'
  BY <1>2, <1>4, <1>6, <1>7 DEF MemoryInv, OemMemoryFits, TypeOK
<1>11. /\ NewTotal(v, i) >= Needed(v, i)
       /\ debuggable = "0" => NewTotal(v, i) = Needed(v, i)
  BY <1>4, <1>5 DEF NewTotal
<1>12. PrivateIsBacking'
  <2> SUFFICES ASSUME NEW u \in Vms, memory'[u] # None
               PROVE  /\ memory'[u] >= backing'[u] \div MiB
                      /\ debuggable = "0" => memory'[u] = backing'[u] \div MiB
    BY <1>2 DEF PrivateIsBacking
  <2>1. CASE u = v /\ InI32(Private(v, i))
    <3>1. memory'[u] = Private(v, i) /\ backing'[u] = Backing(v, i)
      BY <1>3, <2>1 DEF TypeOK
    <3>2. QED BY <1>4, <1>5, <1>6, <1>11, <2>1, <3>1
  <2>2. CASE u # v \/ ~InI32(Private(v, i))
    <3>1. memory'[u] = memory[u] /\ backing'[u] = backing[u]
      BY <1>3, <2>2 DEF TypeOK
    <3>2. QED BY <3>1 DEF MemoryInv, PrivateIsBacking
  <2>3. QED BY <2>1, <2>2
<1>13. ToldOnce'
  <2> SUFFICES ASSUME NEW u \in Vms, process' = "up", memory'[u] # None
               PROVE  Told(u)'
    BY <1>3, <1>2 DEF ToldOnce
  <2>1. CASE u = v
    <3>1. i \in GetVm(v)'
      BY <1>2 DEF GetVm
    <3>2. NewTotal(v, i)' = NewTotal(v, i)
      BY <1>2, <1>4, <1>5, <1>7 DEF NewTotal, Needed, Backing
    <3>3. Private(v, i)' = Private(v, i) /\ Backing(v, i)' = Backing(v, i)
      BY <1>2, <3>2 DEF Private, Backing
    <3>4. memory'[v] = Private(v, i) /\ backing'[v] = Backing(v, i)
      BY <1>2, <1>3 DEF TypeOK
    <3>5. QED BY <1>2, <1>7, <2>1, <3>1, <3>2, <3>3, <3>4 DEF Told
  <2>2. CASE u # v
    <3>1. memory'[u] = memory[u] /\ backing'[u] = backing[u]
      BY <1>3, <2>2 DEF TypeOK
    <3>2. PICK j \in GetVm(u) : /\ carveout[Device(u)] # NoDevice
                                /\ NewTotal(u, j) = total[j]
                                /\ memory[u] = Private(u, j)
                                /\ backing[u] = Backing(u, j)
      BY <1>2, <3>1 DEF MemoryInv, ToldOnce, Told
    <3>3. j # i /\ j \in DOMAIN total
      BY <1>4, <2>2, <3>2, ObjectType
    <3>4. total'[j] = total[j] /\ j \in GetVm(u)'
      BY <1>2, <1>7, <3>2, <3>3 DEF GetVm
    <3>5. /\ NewTotal(u, j)' = NewTotal(u, j) /\ Private(u, j)' = Private(u, j)
          /\ Backing(u, j)' = Backing(u, j)
      BY <1>2, <3>4 DEF NewTotal, Needed, Backing, Private
    <3>6. QED BY <1>2, <3>1, <3>2, <3>4, <3>5 DEF Told
  <2>3. QED BY <2>1, <2>2
<1>14. QED BY <1>8, <1>9, <1>10, <1>12, <1>13 DEF MemoryInv

LEMMA InitMemory == ASSUME Init PROVE MemoryInv
BY DEF Init, MemoryInv, TotalsFit, OemSum, ToldOnce, PrivateIsBacking, OemMemoryFits

LEMMA StepMemory ==
    ASSUME TypeOK, MemoryInv, [Next]_vars
    PROVE  MemoryInv'
<1>1. CASE NewManager
  BY <1>1, NewManagerMemory
<1>2. CASE NewManagerFails
  BY <1>2, QuietMemory DEF NewManagerFails
<1>3. CASE Restart
  BY <1>3 DEF Restart, MemoryInv, TotalsFit, OemSum, ToldOnce, PrivateIsBacking, OemMemoryFits
<1>4. ASSUME NEW v \in Vms, StartVm(v) PROVE MemoryInv'
  BY <1>4, QuietMemory DEF StartVm
<1>5. ASSUME NEW v \in Vms, DeviceMissing(v) PROVE MemoryInv'
  BY <1>5, QuietMemory DEF DeviceMissing
<1>6. ASSUME NEW v \in Vms, BuildUnknown(v) PROVE MemoryInv'
  BY <1>6, QuietMemory DEF BuildUnknown
<1>7. ASSUME NEW v \in Vms, SetMemory(v) PROVE MemoryInv'
  BY <1>7, SetMemoryMemory
<1>8. ASSUME NEW v \in Vms, DtboStep(v), UNCHANGED <<settingVars, mapVars, memoryVars, boots>>
      PROVE  MemoryInv'
  <2>1. process' = process \/ process' = "overlay_gone"
    BY <1>8 DEF DtboStep, FindDirectory, FindDirectoryAgain, RemoveDirectory, CreateDirectory,
                ReadTable, FindOldFile, RemoveOldFile, CreateFile, WriteFails, WriteFile,
                ReopenFile, OpenFile, Go
  <2>2. QED BY <1>8, <2>1, QuietMemory
<1>9. CASE UNCHANGED vars
  BY <1>9, QuietMemory DEF vars, settingVars, mapVars, memoryVars
<1>10. QED BY <1>1, <1>2, <1>3, <1>4, <1>5, <1>6, <1>7, <1>8, <1>9 DEF Next

THEOREM MemoryKept == Spec => [](TypeOK /\ MemoryInv)
<1>1. Init => TypeOK /\ MemoryInv
  BY InitTypes, InitMemory
<1>2. TypeOK /\ MemoryInv /\ [Next]_vars => TypeOK' /\ MemoryInv'
  BY StepTypes, StepMemory
<1>3. QED BY <1>1, <1>2, PTL DEF Spec

(* The private memory AVF is told covers the memory file, and no more where the build is not
   debuggable, for every entry, carveout and width. *)
THEOREM MemoryIsBacking == Spec => []PrivateIsBacking
<1>1. MemoryInv => PrivateIsBacking
  BY DEF MemoryInv
<1>2. QED BY <1>1, MemoryKept, PTL

(* The computed total of an oemvm fits whatever the file says. *)
THEOREM OemMemoryKept == Spec => []OemMemoryFits
<1>1. MemoryInv => OemMemoryFits
  BY DEF MemoryInv
<1>2. QED BY <1>1, MemoryKept, PTL

LEMMA StepSettles ==
    ASSUME TypeOK, MemoryInv, [Next]_vars, NEW v \in Vms,
           process = "up", process' = "up", memory[v] # None
    PROVE  memory'[v] = memory[v] /\ backing'[v] = backing[v]
<1>1. ASSUME NEW u \in Vms, SetMemory(u)
      PROVE  memory'[v] = memory[v] /\ backing'[v] = backing[v]
  <2>1. PICK i \in GetVm(u) : SetMemory(u)!(i)
    BY <1>1 DEF SetMemory
  <2>2. /\ memory' = [memory EXCEPT ![u] = Private(u, i)]
        /\ backing' = [backing EXCEPT ![u] = Backing(u, i)]
    BY <2>1
  <2>3. CASE u # v
    BY <2>2, <2>3 DEF TypeOK
  <2>4. CASE u = v
    <3>1. PICK j \in GetVm(v) : memory[v] = Private(v, j) /\ backing[v] = Backing(v, j)
      BY DEF MemoryInv, ToldOnce, Told
    <3>2. i = j
      BY <2>4, OneObject
    <3>3. QED BY <2>2, <2>4, <3>1, <3>2 DEF TypeOK
  <2>5. QED BY <2>3, <2>4
<1>2. CASE ~(\E u \in Vms : SetMemory(u))
  <2>1. UNCHANGED memoryVars
    BY <1>2 DEF Next, NewManager, NewManagerFails, Restart, StartVm, DeviceMissing, BuildUnknown,
                vars, memoryVars
  <2>2. QED BY <2>1 DEF memoryVars
<1>3. QED BY <1>1, <1>2

(* Every boot of a VM tells AVF the same memory while the service runs. *)
THEOREM SameMemoryAtEveryBoot == Spec => MemorySettles
<1>1. TypeOK /\ MemoryInv /\ [Next]_vars
        => [\A v \in Vms : process = "up" /\ process' = "up" /\ memory[v] # None
              => memory'[v] = memory[v] /\ backing'[v] = backing[v]]_vars
  BY StepSettles
<1>2. QED BY <1>1, MemoryKept, PTL DEF Spec, MemorySettles

-----------------------------------------------------------------------------
(* Overlays *)

(* A file that is about to be opened was written to its end, or is gone. *)
NoPartial == \A v \in Vms : step[v] \in {"reopen", "open"} => file[v] # "partial"

(* Where init made the directory no boot comes to remove it, nor the file of another VM. *)
DirectoryKept ==
    rc_made => /\ directory
               /\ \A v \in Vms : /\ step[v] \notin {"dir_again", "dir_remove", "dir_create"}
                                 /\ step[v] \in {"write", "reopen"} => file[v] # "none"

OverlayInv ==
    NoPartial /\ DirectoryKept /\ OverlayIntact /\ AbortNeedsMissingDirectory /\ EntryInTable

LEMMA InitOverlay == ASSUME Init PROVE OverlayInv
BY DEF Init, OverlayInv, NoPartial, DirectoryKept, OverlayIntact, AbortNeedsMissingDirectory,
       EntryInTable

(* Steps that do not touch the files. *)
LEMMA QuietOverlay ==
    ASSUME OverlayInv, UNCHANGED <<deviceVars, fileVars, entry, overlay>>,
           process' # "overlay_gone" \/ process' = process,
           \A v \in Vms : step'[v] = step[v] \/ step'[v] \in {"idle", "memory", "dir"}
    PROVE  OverlayInv'
BY DEF OverlayInv, NoPartial, DirectoryKept, OverlayIntact, AbortNeedsMissingDirectory,
       EntryInTable, deviceVars, fileVars

LEMMA DtboOverlay ==
    ASSUME TypeOK, OverlayInv, NEW v \in Vms, DtboStep(v)
    PROVE  OverlayInv'
<1>0. /\ step \in [Vms -> DtboSteps \cup {"idle", "memory"}]
      /\ file \in [Vms -> Contents] /\ overlay \in [Vms -> Contents]
      /\ entry \in [Vms -> Nat \cup {NoEntry}]
      /\ image' = image /\ rc_made' = rc_made
  BY DEF TypeOK, DtboStep, FindDirectory, FindDirectoryAgain, RemoveDirectory, CreateDirectory,
         ReadTable, FindOldFile, RemoveOldFile, CreateFile, WriteFails, WriteFile,
         ReopenFile, OpenFile, deviceVars
<1> USE <1>0 DEF Go, fileVars, deviceVars, OverlayInv
<1>1. NoPartial'
  <2>1. CASE FindDirectory(v)       BY <2>1 DEF FindDirectory, NoPartial
  <2>2. CASE FindDirectoryAgain(v)  BY <2>2 DEF FindDirectoryAgain, NoPartial
  <2>3. CASE RemoveDirectory(v)     BY <2>3 DEF RemoveDirectory, NoPartial
  <2>4. CASE CreateDirectory(v)     BY <2>4 DEF CreateDirectory, NoPartial
  <2>5. CASE ReadTable(v)           BY <2>5 DEF ReadTable, NoPartial
  <2>6. CASE FindOldFile(v)         BY <2>6 DEF FindOldFile, NoPartial
  <2>7. CASE RemoveOldFile(v)       BY <2>7 DEF RemoveOldFile, NoPartial
  <2>8. CASE CreateFile(v)          BY <2>8 DEF CreateFile, NoPartial
  <2>9. CASE WriteFails(v)          BY <2>9 DEF WriteFails, NoPartial
  <2>10. CASE WriteFile(v)          BY <2>10 DEF WriteFile, NoPartial
  <2>11. CASE ReopenFile(v)         BY <2>11 DEF ReopenFile, NoPartial
  <2>12. CASE OpenFile(v)           BY <2>12 DEF OpenFile, NoPartial
  <2>13. QED BY <2>1, <2>2, <2>3, <2>4, <2>5, <2>6, <2>7, <2>8, <2>9, <2>10, <2>11, <2>12
             DEF DtboStep
<1>2. DirectoryKept'
  <2>1. CASE FindDirectory(v)       BY <2>1 DEF FindDirectory, DirectoryKept
  <2>2. CASE FindDirectoryAgain(v)  BY <2>2 DEF FindDirectoryAgain, DirectoryKept
  <2>3. CASE RemoveDirectory(v)     BY <2>3 DEF RemoveDirectory, DirectoryKept
  <2>4. CASE CreateDirectory(v)     BY <2>4 DEF CreateDirectory, DirectoryKept
  <2>5. CASE ReadTable(v)           BY <2>5 DEF ReadTable, DirectoryKept
  <2>6. CASE FindOldFile(v)         BY <2>6 DEF FindOldFile, DirectoryKept
  <2>7. CASE RemoveOldFile(v)       BY <2>7 DEF RemoveOldFile, DirectoryKept
  <2>8. CASE CreateFile(v)          BY <2>8 DEF CreateFile, DirectoryKept
  <2>9. CASE WriteFails(v)          BY <2>9 DEF WriteFails, DirectoryKept
  <2>10. CASE WriteFile(v)          BY <2>10 DEF WriteFile, DirectoryKept
  <2>11. CASE ReopenFile(v)         BY <2>11 DEF ReopenFile, DirectoryKept
  <2>12. CASE OpenFile(v)           BY <2>12 DEF OpenFile, DirectoryKept
  <2>13. QED BY <2>1, <2>2, <2>3, <2>4, <2>5, <2>6, <2>7, <2>8, <2>9, <2>10, <2>11, <2>12
             DEF DtboStep
<1>3. OverlayIntact'
  <2>1. CASE OpenFile(v)
    BY <2>1 DEF OpenFile, OverlayIntact, NoPartial
  <2>2. CASE ~OpenFile(v)
    <3>1. overlay' = overlay
      BY <2>2 DEF DtboStep, FindDirectory, FindDirectoryAgain, RemoveDirectory, CreateDirectory,
                  ReadTable, FindOldFile, RemoveOldFile, CreateFile, WriteFails, WriteFile,
                  ReopenFile
    <3>2. QED BY <3>1 DEF OverlayIntact
  <2>3. QED BY <2>1, <2>2
<1>4. AbortNeedsMissingDirectory'
  <2>1. CASE ReopenFile(v)
    BY <2>1 DEF ReopenFile, AbortNeedsMissingDirectory, DirectoryKept
  <2>2. CASE ~ReopenFile(v)
    <3>1. process' = process
      BY <2>2 DEF DtboStep, FindDirectory, FindDirectoryAgain, RemoveDirectory, CreateDirectory,
                  ReadTable, FindOldFile, RemoveOldFile, CreateFile, WriteFails, WriteFile,
                  OpenFile
    <3>2. QED BY <3>1 DEF AbortNeedsMissingDirectory
  <2>3. QED BY <2>1, <2>2
<1>5. EntryInTable'
  <2>1. CASE ReadTable(v)
    BY <2>1, LookupInTable DEF ReadTable, EntryInTable
  <2>2. CASE ~ReadTable(v)
    <3>1. entry' = entry
      BY <2>2 DEF DtboStep, FindDirectory, FindDirectoryAgain, RemoveDirectory, CreateDirectory,
                  FindOldFile, RemoveOldFile, CreateFile, WriteFails, WriteFile, ReopenFile,
                  OpenFile
    <3>2. QED BY <3>1 DEF EntryInTable
  <2>3. QED BY <2>1, <2>2
<1>6. QED BY <1>1, <1>2, <1>3, <1>4, <1>5

LEMMA StepOverlay ==
    ASSUME TypeOK, OverlayInv, [Next]_vars
    PROVE  OverlayInv'
<1>0. step \in [Vms -> DtboSteps \cup {"idle", "memory"}]
  BY DEF TypeOK
<1>1. CASE NewManager
  BY <1>1, QuietOverlay DEF NewManager
<1>2. CASE NewManagerFails
  BY <1>2, QuietOverlay DEF NewManagerFails
<1>3. CASE Restart
  BY <1>3 DEF Restart, OverlayInv, NoPartial, DirectoryKept, OverlayIntact,
              AbortNeedsMissingDirectory, EntryInTable, deviceVars, fileVars
<1>4. ASSUME NEW v \in Vms, StartVm(v) PROVE OverlayInv'
  BY <1>0, <1>4, QuietOverlay DEF StartVm, Go
<1>5. ASSUME NEW v \in Vms, DeviceMissing(v) PROVE OverlayInv'
  BY <1>0, <1>5, QuietOverlay DEF DeviceMissing, Go
<1>6. ASSUME NEW v \in Vms, BuildUnknown(v) PROVE OverlayInv'
  BY <1>0, <1>6, QuietOverlay DEF BuildUnknown, Go
<1>7. ASSUME NEW v \in Vms, SetMemory(v) PROVE OverlayInv'
  BY <1>0, <1>7, QuietOverlay DEF SetMemory, Go
<1>8. ASSUME NEW v \in Vms, DtboStep(v) PROVE OverlayInv'
  BY <1>8, DtboOverlay
<1>9. CASE UNCHANGED vars
  BY <1>9, QuietOverlay DEF vars, deviceVars, fileVars
<1>10. QED BY <1>1, <1>2, <1>3, <1>4, <1>5, <1>6, <1>7, <1>8, <1>9 DEF Next

THEOREM OverlayKept == Spec => [](TypeOK /\ OverlayInv)
<1>1. Init => TypeOK /\ OverlayInv
  BY InitTypes, InitOverlay
<1>2. TypeOK /\ OverlayInv /\ [Next]_vars => TypeOK' /\ OverlayInv'
  BY StepTypes, StepOverlay
<1>3. QED BY <1>1, <1>2, PTL DEF Spec

(* AVF reads whole overlays, however many VMs boot at once and wherever the service was
   aborted before. *)
THEOREM WholeOverlays == Spec => []OverlayIntact
<1>1. OverlayInv => OverlayIntact
  BY DEF OverlayInv
<1>2. QED BY <1>1, OverlayKept, PTL

(* Only without the directory of init do boots end the service. *)
THEOREM DirectoryPreventsAbort == Spec => []AbortNeedsMissingDirectory
<1>1. OverlayInv => AbortNeedsMissingDirectory
  BY DEF OverlayInv
<1>2. QED BY <1>1, OverlayKept, PTL

(* Table entries are read inside the table, for every header, index and width. *)
THEOREM EntriesInTable == Spec => []EntryInTable
<1>1. OverlayInv => EntryInTable
  BY DEF OverlayInv
<1>2. QED BY <1>1, OverlayKept, PTL
=============================================================================

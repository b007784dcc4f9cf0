------------------------------ MODULE QcvmManager ------------------------------
(***************************************************************************)
(* The manager service from its start to the AVF configuration of a VM: it *)
(* parses the entries of its JSON file, fills in defaults, makes one VM    *)
(* object for each, finds the object of a name, and at each boot computes  *)
(* the memory of the VM from the entry and the carveout of the device.     *)
(* What happens to the VM then is in VirtualMachine.                       *)
(*                                                                         *)
(* Sizes are in MiB, those of the carveouts in bytes.  Entries that differ *)
(* in what they say of images or connections only are not told apart.      *)
(***************************************************************************)
EXTENDS Dtbo, Sequences

CONSTANTS
    IntMax,      \* i32::MAX
    U64Max,      \* u64::MAX
    Entries,     \* the entries a JSON file may have
    Malformed,   \* an entry that does not parse
    MaxEntries,  \* bound: how many it has
    Carveouts,   \* the sizes a CMA device may have
    MaxBoots     \* bound: how often start_vm runs

MiB == 1024 * 1024
Devices == {"/dev/trustedvm_cma", "/dev/oemvm_cma"}
Config == [name : Vms, enabled : BOOLEAN, cma_size : Nat, swiotlb_size : Nat,
           total_memory : Nat]
None == -1
NoDevice == -2

ASSUME RangeAssumption == IntMax \in Nat /\ U64Max \in Nat
ASSUME EntriesAssumption ==
    /\ "trustedvm" \in Vms
    /\ Entries \subseteq {Malformed} \cup Config
    /\ MaxEntries \in Nat /\ MaxBoots \in Nat
    /\ Carveouts \subseteq Nat \cup {NoDevice}

VARIABLES
    json,         \* the entries of the file
    slot_suffix,  \* whether ro.boot.slot_suffix is set
    debuggable,   \* ro.debuggable, or "unset"
    carveout,     \* the size of each CMA device
    vm_map,       \* the configurations, in the order the hash map iterates over them
    total,        \* total_memory of each object, which boots change
    memory,       \* the private memory AVF was last told for a VM, in MiB
    backing,      \* the size of the memory file AVF was given with it, in bytes
    boots         \* how often start_vm ran

settingVars == <<json, slot_suffix, debuggable, carveout>>
mapVars == <<vm_map, total>>
memoryVars == <<memory, backing>>
dtboVars == <<process, image, rc_made, directory, file, step, entry, overlay>>
vars == <<process, image, rc_made, directory, file, step, entry, overlay, json, slot_suffix,
          debuggable, carveout, vm_map, total, memory, backing, boots>>

-----------------------------------------------------------------------------
(* AvfQcvmManager::new *)

Default(size, default) == IF size = 0 THEN default ELSE size

(* Mutant of Filled: the total_memory of an oemvm is taken from the file as well. *)
FilledFromFile(e) ==
    IF e.name = "trustedvm"
      THEN [e EXCEPT !.swiotlb_size = Default(@, 2), !.cma_size = Default(@, 68)]
      ELSE [e EXCEPT !.swiotlb_size = Default(@, 4), !.cma_size = Default(@, 76)]

(* The total_memory of an oemvm is computed, that of a trustedvm taken as it is. *)
Filled(e) ==
    IF e.name = "trustedvm"
      THEN [e EXCEPT !.swiotlb_size = Default(@, 2), !.cma_size = Default(@, 68)]
      ELSE [e EXCEPT !.swiotlb_size = Default(@, 4), !.cma_size = Default(@, 76),
                     !.total_memory = Default(e.cma_size, 76) + Default(e.swiotlb_size, 4)]

(* A sum beyond u64 panics. *)
Overflows(c) == c.name # "trustedvm" /\ c.total_memory > U64Max

(* Mutant of Representable: create_vm_info takes any size. *)
AlwaysRepresentable(c) == TRUE

(* create_vm_info converts the sizes to the i32 of the interface. *)
Representable(c) == /\ c.cma_size <= IntMax
                    /\ c.swiotlb_size <= IntMax
                    /\ c.total_memory <= IntMax

Configs == {Filled(json[i]) : i \in {j \in DOMAIN json : json[j] # Malformed}}
Parsable == json = <<>> \/ slot_suffix
Acceptable == Parsable /\ \A c \in Configs : ~Overflows(c) /\ Representable(c)

(* The map has one object for each configuration, in an order that is fixed from then on. *)
NewManager ==
    /\ process = "starting"
    /\ Acceptable
    /\ process' = "up"
    /\ vm_map' \in [1..Cardinality(Configs) -> Configs]
    /\ \A c \in Configs : \E i \in DOMAIN vm_map' : vm_map'[i] = c
    /\ total' = [i \in DOMAIN vm_map' |-> vm_map'[i].total_memory]
    /\ UNCHANGED <<deviceVars, fileVars, step, entry, overlay, settingVars, memoryVars, boots>>

(* main expects a manager. *)
NewManagerFails ==
    /\ process = "starting"
    /\ ~Acceptable
    /\ process' = "no_manager"
    /\ UNCHANGED <<deviceVars, fileVars, step, entry, overlay, settingVars, mapVars,
                   memoryVars, boots>>

-----------------------------------------------------------------------------
(* getVm and start_vm *)

(* Mutant of GetVm: some enabled entry of that name. *)
GetVmAny(v) == {i \in DOMAIN vm_map : vm_map[i].name = v /\ vm_map[i].enabled}

(* The first entry of that name decides; no object is returned when it is disabled. *)
GetVm(v) == {i \in DOMAIN vm_map : /\ vm_map[i].name = v
                                   /\ \A j \in DOMAIN vm_map : j < i => vm_map[j].name # v
                                   /\ vm_map[i].enabled}

(* Without the index property the call fails before it does anything. *)
StartVm(v) ==
    /\ Go(v, "idle", "memory")
    /\ GetVm(v) # {}
    /\ boots < MaxBoots
    /\ boots' = boots + 1
    /\ UNCHANGED <<process, deviceVars, fileVars, entry, overlay, settingVars, mapVars, memoryVars>>

Device(v) == IF v = "trustedvm" THEN "/dev/trustedvm_cma" ELSE "/dev/oemvm_cma"

(* The configured size, capped at the carveout. *)
Backing(v, i) == IF vm_map[i].cma_size * MiB <= carveout[Device(v)]
                   THEN vm_map[i].cma_size * MiB ELSE carveout[Device(v)]
Needed(v, i) == (Backing(v, i) \div MiB) + vm_map[i].swiotlb_size

(* Mutant of NewTotal: a total of the file is kept on every build. *)
NewTotalKept(v, i) == IF total[i] < Needed(v, i) THEN Needed(v, i) ELSE total[i]

(* A larger total of the file is kept on a debuggable build only. *)
NewTotal(v, i) == IF debuggable = "0" \/ total[i] < Needed(v, i) THEN Needed(v, i) ELSE total[i]

AsI32(n) == LET low == n % (2 * (IntMax + 1))
            IN  IF low > IntMax THEN low - 2 * (IntMax + 1) ELSE low
Private(v, i) == AsI32(NewTotal(v, i)) - AsI32(vm_map[i].swiotlb_size)
InI32(n) == -(IntMax + 1) <= n /\ n <= IntMax

(* The device node is expected to be there. *)
DeviceMissing(v) ==
    /\ Go(v, "memory", "idle")
    /\ carveout[Device(v)] = NoDevice
    /\ process' = "no_device"
    /\ UNCHANGED <<deviceVars, fileVars, entry, overlay, settingVars, mapVars, memoryVars, boots>>

BuildUnknown(v) ==
    /\ Go(v, "memory", "idle")
    /\ carveout[Device(v)] # NoDevice
    /\ debuggable = "unset"
    /\ UNCHANGED <<process, deviceVars, fileVars, entry, overlay, settingVars, mapVars,
                   memoryVars, boots>>

(* A difference beyond i32 panics.  The object keeps its new total_memory whatever becomes
   of the boot. *)
SetMemory(v) ==
    \E i \in GetVm(v) :
        /\ Go(v, "memory", "dir")
        /\ carveout[Device(v)] # NoDevice
        /\ debuggable # "unset"
        /\ total' = [total EXCEPT ![i] = NewTotal(v, i)]
        /\ \/ /\ InI32(Private(v, i))
              /\ memory' = [memory EXCEPT ![v] = Private(v, i)]
              /\ backing' = [backing EXCEPT ![v] = Backing(v, i)]
              /\ UNCHANGED process
           \/ /\ ~InI32(Private(v, i))
              /\ process' = "overflow"
              /\ UNCHANGED memoryVars
        /\ UNCHANGED <<deviceVars, fileVars, entry, overlay, settingVars, vm_map, boots>>

-----------------------------------------------------------------------------
(* init starts the service again after an abort; the files are still there. *)
Restart ==
    /\ process \notin {"starting", "up"}
    /\ process' = "starting"
    /\ vm_map' = <<>> /\ total' = <<>>
    /\ step' = [v \in Vms |-> "idle"]
    /\ entry' = [v \in Vms |-> NoEntry]
    /\ overlay' = [v \in Vms |-> "none"]
    /\ memory' = [v \in Vms |-> None]
    /\ backing' = [v \in Vms |-> None]
    /\ UNCHANGED <<deviceVars, fileVars, settingVars, boots>>

Init ==
    /\ process = "starting"
    /\ image \in Images
    /\ rc_made \in BOOLEAN
    /\ directory = rc_made
    /\ file = [v \in Vms |-> "none"]
    /\ step = [v \in Vms |-> "idle"]
    /\ entry = [v \in Vms |-> NoEntry]
    /\ overlay = [v \in Vms |-> "none"]
    /\ \E n \in 0..MaxEntries : json \in [1..n -> Entries]
    /\ slot_suffix \in BOOLEAN
    /\ debuggable \in {"0", "1", "unset"}
    /\ carveout \in [Devices -> Carveouts]
    /\ vm_map = <<>> /\ total = <<>>
    /\ memory = [v \in Vms |-> None]
    /\ backing = [v \in Vms |-> None]
    /\ boots = 0

Next ==
    \/ NewManager \/ NewManagerFails \/ Restart
    \/ \E v \in Vms : \/ StartVm(v) \/ DeviceMissing(v) \/ BuildUnknown(v) \/ SetMemory(v)
                      \/ DtboStep(v) /\ UNCHANGED <<settingVars, mapVars, memoryVars, boots>>

Spec == Init /\ [][Next]_vars

-----------------------------------------------------------------------------
(* Properties *)

Reasons == {"no_manager", "no_device", "overflow", "overlay_gone"}

(* Types: the objects the service made are those the i32 fields of VmInfo can describe. *)
Describable == [name : Vms, enabled : BOOLEAN, cma_size : 0..IntMax, swiotlb_size : 0..IntMax,
                total_memory : 0..IntMax]
TypeOK ==
    /\ process \in {"starting", "up"} \cup Reasons
    /\ image \in Images /\ rc_made \in BOOLEAN /\ directory \in BOOLEAN
    /\ file \in [Vms -> Contents] /\ overlay \in [Vms -> Contents]
    /\ step \in [Vms -> DtboSteps \cup {"idle", "memory"}]
    /\ entry \in [Vms -> Nat \cup {NoEntry}]
    /\ json \in Seq(Entries) /\ slot_suffix \in BOOLEAN /\ boots \in Nat
    /\ vm_map \in Seq(Describable)
    /\ total \in Seq(Nat) /\ DOMAIN total = DOMAIN vm_map
    /\ debuggable \in {"0", "1", "unset"}
    /\ carveout \in [Devices -> Carveouts]
    /\ memory \in [Vms -> Int] /\ backing \in [Vms -> Nat \cup {None}]

(* The private memory AVF is told covers the memory file it is given, and is no more than
   that on a build that is not debuggable: no wrapped or stale total reaches AVF, however
   often the VM was booted (create_avf_config). *)
PrivateIsBacking ==
    \A v \in Vms : memory[v] # None =>
        /\ memory[v] >= backing[v] \div MiB
        /\ debuggable = "0" => memory[v] = backing[v] \div MiB

(* The memory of an oemvm fits the i32 of AVF however its entry looks: only a trustedvm,
   whose cma_size and swiotlb_size are never added up before its boot, can make the service
   panic there (parse_vm_config_json, create_vm_info, create_avf_config). *)
OemMemoryFits ==
    \A i \in DOMAIN vm_map : vm_map[i].name # "trustedvm" => total[i] <= IntMax

(* A VM is told the same memory at every boot while the service runs, although the file may
   have several entries of its name and each boot changes the total of an object. *)
MemorySettles ==
    [][\A v \in Vms : process = "up" /\ process' = "up" /\ memory[v] # None
                      => memory'[v] = memory[v] /\ backing'[v] = backing[v]]_vars

(* AVF reads a whole overlay or none: never what a failed or aborted boot left behind in
   the directory (get_vm_dtbo). *)
OverlayIntact == \A v \in Vms : overlay[v] # "partial"

(* Boots of two VMs end the service only where init did not make the directory: then one
   may remove what the other just wrote (get_or_create_common_dir). *)
AbortNeedsMissingDirectory == process = "overlay_gone" => ~rc_made

(* What is read as a table entry is one of the table, inside the partition, whatever the
   header and the property say (get_dt_table_entry). *)
EntryInTable ==
    \A v \in Vms : entry[v] # NoEntry =>
        /\ entry[v] + EntryBytes <= image.length
        /\ \E k \in 0..(image.dt_entry_count - 1) :
               entry[v] = image.dt_entry_size * k + image.dt_entries_offset
=============================================================================

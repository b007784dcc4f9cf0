---------------------------------- MODULE Dtbo ----------------------------------
(***************************************************************************)
(* The device tree overlay of a VM: its entry is looked up in the table of *)
(* the dtbo partition and copied to a file of the VM in a directory that   *)
(* all VMs share, and AVF gets a descriptor of that file.  Each step is    *)
(* one look at the file system or one change of it, as VMs boot at the     *)
(* same time under mutexes of their own.                                   *)
(***************************************************************************)
EXTENDS Integers, FiniteSets

CONSTANTS
    Vms,      \* the names of the VMs
    U32Max,   \* u32::MAX
    Images    \* the dtbo partitions a device may have

NoEntry == -1
EntryBytes == 32    \* size_of::<DtTableEntry>()

ASSUME WidthAssumption == U32Max \in Nat
ASSUME ImageAssumption ==
    Images \subseteq [valid : BOOLEAN, dt_entry_count : 0..U32Max, dt_entry_size : 0..U32Max,
                      dt_entries_offset : 0..U32Max, length : Nat, index : [Vms -> Int]]

VARIABLES
    process,     \* "starting", "up", or why the service is gone
    image,       \* the partition, and the index properties that came with it
    rc_made,     \* whether the rc file's mkdir succeeded
    directory,   \* whether the directory exists
    file,        \* what the path of each VM's overlay leads to
    step,        \* where the boot of each VM is
    entry,       \* the offset of the table entry of each VM, once read
    overlay      \* what the descriptor given to AVF reads

fileVars == <<directory, file>>
deviceVars == <<image, rc_made>>

Contents == {"none", "partial", "full"}
DtboSteps == {"dir", "dir_again", "dir_remove", "dir_create", "table", "old", "remove",
              "create", "write", "reopen", "open"}

Go(v, from, to) == /\ process = "up"
                   /\ step[v] = from
                   /\ step' = [step EXCEPT ![v] = to]

-----------------------------------------------------------------------------
(* The table *)

AsU32(i) == i % (U32Max + 1)

(* Mutant of Lookup: plain additions and products, which wrap. *)
LookupWraps(v) ==
    LET offset == AsU32(image.dt_entry_size * AsU32(image.index[v]) + image.dt_entries_offset)
    IN  IF image.valid /\ AsU32(image.index[v]) < image.dt_entry_count
           /\ offset + EntryBytes <= image.length
          THEN offset ELSE NoEntry

(* Checked products and sums; the entry must be in the partition. *)
Lookup(v) ==
    LET index == AsU32(image.index[v])
        skipped == image.dt_entry_size * index
        offset == skipped + image.dt_entries_offset
    IN  IF /\ image.valid
           /\ index < image.dt_entry_count
           /\ skipped <= U32Max
           /\ offset <= U32Max
           /\ offset + EntryBytes <= image.length
          THEN offset ELSE NoEntry

-----------------------------------------------------------------------------
(* get_or_create_common_dir *)

(* Mutant of FindDirectory: the directory is always made anew. *)
MakeDirectory(v) ==
    /\ Go(v, "dir", "dir_again")
    /\ UNCHANGED <<process, deviceVars, fileVars, entry, overlay>>

FindDirectory(v) ==
    /\ Go(v, "dir", IF directory THEN "table" ELSE "dir_again")
    /\ UNCHANGED <<process, deviceVars, fileVars, entry, overlay>>

(* Another VM's boot may have made it meanwhile. *)
FindDirectoryAgain(v) ==
    /\ Go(v, "dir_again", IF directory THEN "dir_remove" ELSE "dir_create")
    /\ UNCHANGED <<process, deviceVars, fileVars, entry, overlay>>

(* The files of all VMs go first, and any part of the removal may fail, which is logged. *)
RemoveDirectory(v) ==
    /\ Go(v, "dir_remove", "dir_create")
    /\ \E gone \in SUBSET Vms : file' = [u \in Vms |-> IF u \in gone THEN "none" ELSE file[u]]
    /\ \/ directory' = FALSE /\ \A u \in Vms : file'[u] = "none"
       \/ UNCHANGED directory
    /\ UNCHANGED <<process, deviceVars, entry, overlay>>

(* It fails on a directory that is there, whoever made it. *)
CreateDirectory(v) ==
    /\ \/ /\ Go(v, "dir_create", "table")
          /\ ~directory
          /\ directory' = TRUE
       \/ /\ Go(v, "dir_create", "idle")
          /\ UNCHANGED directory
    /\ UNCHANGED <<process, deviceVars, file, entry, overlay>>

-----------------------------------------------------------------------------
(* get_vm_dtbo from there *)

ReadTable(v) ==
    /\ Go(v, "table", IF Lookup(v) = NoEntry THEN "idle" ELSE "old")
    /\ entry' = [entry EXCEPT ![v] = Lookup(v)]
    /\ UNCHANGED <<process, deviceVars, fileVars, overlay>>

(* Mutant of FindOldFile: a file that is there is used again. *)
ReuseOldFile(v) ==
    /\ Go(v, "old", IF file[v] = "none" THEN "create" ELSE "open")
    /\ UNCHANGED <<process, deviceVars, fileVars, entry, overlay>>

FindOldFile(v) ==
    /\ Go(v, "old", IF file[v] = "none" THEN "create" ELSE "remove")
    /\ UNCHANGED <<process, deviceVars, fileVars, entry, overlay>>

RemoveOldFile(v) ==
    /\ \/ /\ Go(v, "remove", "create")
          /\ file[v] # "none"
          /\ file' = [file EXCEPT ![v] = "none"]
       \/ /\ Go(v, "remove", "idle")
          /\ UNCHANGED file
    /\ UNCHANGED <<process, deviceVars, directory, entry, overlay>>

CreateFile(v) ==
    /\ \/ /\ Go(v, "create", "write")
          /\ directory
          /\ file' = [file EXCEPT ![v] = "partial"]
       \/ /\ Go(v, "create", "idle")
          /\ UNCHANGED file
    /\ UNCHANGED <<process, deviceVars, directory, entry, overlay>>

(* The partition ends before the overlay does, or the write fails. *)
WriteFails(v) ==
    /\ Go(v, "write", "idle")
    /\ UNCHANGED <<process, deviceVars, fileVars, entry, overlay>>

(* A file that was removed meanwhile is written all the same. *)
WriteFile(v) ==
    /\ Go(v, "write", "reopen")
    /\ file' = [file EXCEPT ![v] = IF @ = "none" THEN @ ELSE "full"]
    /\ UNCHANGED <<process, deviceVars, directory, entry, overlay>>

(* The copy is read back, expecting the file to be there. *)
ReopenFile(v) ==
    /\ Go(v, "reopen", "open")
    /\ process' = IF file[v] = "none" THEN "overlay_gone" ELSE "up"
    /\ UNCHANGED <<deviceVars, fileVars, entry, overlay>>

OpenFile(v) ==
    /\ Go(v, "open", "idle")
    /\ overlay' = [overlay EXCEPT ![v] = IF file[v] = "none" THEN @ ELSE file[v]]
    /\ UNCHANGED <<process, deviceVars, fileVars, entry>>

DtboStep(v) ==
    \/ FindDirectory(v) \/ FindDirectoryAgain(v) \/ RemoveDirectory(v) \/ CreateDirectory(v)
    \/ ReadTable(v) \/ FindOldFile(v) \/ RemoveOldFile(v)
    \/ CreateFile(v) \/ WriteFails(v) \/ WriteFile(v) \/ ReopenFile(v) \/ OpenFile(v)
=============================================================================

----------------------------- MODULE MCQcvmManager -----------------------------
(* Model values for the runs of QcvmManager. *)
EXTENDS QcvmManager

BothVms == {"trustedvm", "oemvm"}

Entry(name, enabled, cma, swiotlb, size) ==
    [name |-> name, enabled |-> enabled, cma_size |-> cma, swiotlb_size |-> swiotlb,
     total_memory |-> size]

(* Zeroes take the defaults; two entries of a name differ in size or in being enabled; sums
   and single sizes pass IntMax and U64Max. *)
SizedEntries ==
    {Malformed,
     Entry("trustedvm", TRUE, 0, 0, 0), Entry("trustedvm", TRUE, 40, 10, 95),
     Entry("trustedvm", TRUE, 100, 60, 0), Entry("trustedvm", FALSE, 40, 10, 101),
     Entry("oemvm", TRUE, 0, 0, 7), Entry("oemvm", TRUE, 60, 50, 7),
     Entry("oemvm", FALSE, 40, 0, 0), Entry("oemvm", TRUE, 90, 90, 0)}

Carveout == {50 * MiB + 4096, 120 * MiB, NoDevice}

Image(count, size, offset, length, trusted, oem) ==
    [valid |-> TRUE, dt_entry_count |-> count, dt_entry_size |-> size,
     dt_entries_offset |-> offset, length |-> length,
     index |-> [v \in Vms |-> IF v = "trustedvm" THEN trusted ELSE oem]]

(* U32Max = 63: a table in place, one past its count, a negative index, a product and a sum
   beyond u32, an entry beyond the end, no table at all. *)
SmallImages ==
    {Image(2, 15, 32, 80, 0, 1), Image(2, 32, 32, 80, 1, 2), Image(60, 32, 0, 40, -1, 2),
     Image(3, 30, 10, 50, 1, 2), [Image(2, 32, 32, 200, 0, 1) EXCEPT !.valid = FALSE]}
=============================================================================

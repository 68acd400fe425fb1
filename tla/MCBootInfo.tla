----------------------------- MODULE MCBootInfo -----------------------------
(* The tags of up to three kinds of handling at once, with sizes that are  *)
(* and are not multiples of eight, next to the kernel and away from it.    *)
EXTENDS BootInfo

T(kind, size, data) == [kind |-> kind, size |-> size, data |-> data]
Map(types) == T("MMAP", 16 + 24 * Len(types), types)

MCTags ==
  {T("CMDLINE", 11, <<"quiet">>), T("CMDLINE", 9, <<"empty">>), T("BOOT_LOADER_NAME", 16, <<"grub">>),
   T("BASIC_MEMINFO", 16, <<"mem">>), T("BOOTDEV", 20, <<"disk">>), T("APM", 28, <<"apm">>),
   Map(<<>>), Map(<<1, 2>>), Map(<<3, 0, 6>>), T("EFI64", 16, <<"table">>), T("VBE", 784, <<"vbe">>),
   T("ACPI_OLD", 28, <<"rsdp">>), T("SMBIOS", 21, <<"bios">>), T("EFI_MMAP", 16, <<"efimap">>),
   T("MODULE", 21, <<"initrd">>)}

MCTagLists == UNION {[1..n -> MCTags] : n \in 0..3}

MCPlaces == {-4096, 0, 96, 200, 4096}

=============================================================================

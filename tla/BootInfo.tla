------------------------------ MODULE BootInfo ------------------------------
(***************************************************************************)
(* From the boot loader to the end of BootInfoInit: loader.asm and         *)
(* entry.asm, KernelMain and SetupLogging (src/kernel/qkernel.cpp) and     *)
(* BootInfoInit (src/kernel/bootinfo.cpp), which walks the tags of the     *)
(* Multiboot2 information and copies them to memory it takes from          *)
(* operator new.  Before the heap exists that is a pointer that starts at  *)
(* the end of the kernel image (include/new), whatever lies behind it: the *)
(* information itself may.                                                 *)
(*                                                                         *)
(* Addresses are bytes from the end of the image.  A tag is its kind, its  *)
(* size and its data, a sequence of what the properties tell apart: of a   *)
(* memory map the types of its entries, of others one opaque value.        *)
(***************************************************************************)
EXTENDS Integers, Sequences, FiniteSets

CONSTANTS TagLists,     \* what the boot loader may pass: sequences of tags, END excluded
          Places        \* where it may have put them; negative: below the kernel

\* Bytes of the objects that are allocated, and of the header of the information.
Bytes == [Logger |-> 16, SerialPort |-> 8, Mb2BootInfo |-> 64, BasicMemInfo |-> 8,
          BiosBootDev |-> 12, MemMapEntry |-> 32, BootApm |-> 20]
InfoHeader == 8
TagHeader == 8
EntryBytes == 24

\* What the tags are copied to: strings, structures in allocated memory, statics.
Strings == {"CMDLINE", "BOOT_LOADER_NAME"}
Structure == [BASIC_MEMINFO |-> "BasicMemInfo", BOOTDEV |-> "BiosBootDev", APM |-> "BootApm"]
Statics == {"VBE", "EFI32", "EFI64", "ACPI_OLD", "ACPI_NEW", "NETWORK", "EFI_BS", "EFI32_IH",
            "EFI64_IH", "LOAD_BASE_ADDR"}
Kept == Strings \cup DOMAIN Structure \cup Statics \cup {"MMAP"}
Ignored == {"FRAMEBUFFER", "ELF_SECTIONS", "SMBIOS", "EFI_MMAP"}
Kinds == Kept \cup Ignored \cup {"MODULE"}
None == <<>>

RoundUp(n) == ((n + 7) \div 8) * 8

\* Where GRUB puts the tags (external): one behind the other, each on eight bytes.
StartsOf(list) ==
  LET start[i \in 1..(Len(list) + 1)] ==
        IF i = 1 THEN InfoHeader ELSE start[i - 1] + RoundUp(list[i - 1].size)
  IN  start

ASSUME BootInfoAssumption ==
  /\ Places \subseteq Int
  /\ \A list \in TagLists : \A i \in DOMAIN list :
       list[i].kind \in Kinds /\ list[i].size \in Nat /\ list[i].size >= TagHeader

VARIABLES
  phase,        \* "bootstrap", "main", "init", "walk", "done"; "halted" (an error message),
                \* "adrift" (a log call that never returns), "lost" (tags overwritten), "fault"
  tags,         \* the tags passed
  place,        \* address of the information
  lastUsed,     \* g_LastUsed
  pos,          \* the walk's pTag, from the beginning of the information
  info          \* what was kept of each kind: g_pBootInfo and the statics

vars == <<phase, tags, place, lastUsed, pos, info>>

Starts == {StartsOf(tags)[i] : i \in 1..(Len(tags) + 1)}
InfoEnd == StartsOf(tags)[Len(tags) + 1] + TagHeader
Index == CHOOSE i \in 1..Len(tags) : StartsOf(tags)[i] = pos
AtTag == \E i \in 1..Len(tags) : StartsOf(tags)[i] = pos
AtEnd == StartsOf(tags)[Len(tags) + 1] = pos
Tag == tags[Index]

\* Memory allocated up to an address has overwritten tags the walk has yet to read.
Overwrites(last) == last > place + pos /\ place >= 0

-----------------------------------------------------------------------------
Init ==
  /\ phase = "bootstrap"
  /\ tags \in TagLists
  /\ place \in {p \in Places : p < 0 => p + InfoEnd <= 0}
  /\ lastUsed = 0
  /\ pos = InfoHeader
  /\ info = [k \in Kept |-> None]

\* The loader stops without Multiboot2, CPUID or long mode, or with too large an image.
Bootstrap(multiboot, cpuid, longMode, fits) ==
  /\ phase = "bootstrap"
  /\ phase' = IF multiboot /\ cpuid /\ longMode /\ fits THEN "main" ELSE "halted"
  /\ UNCHANGED <<tags, place, lastUsed, pos, info>>

\* Operator new before the heap exists, for code that goes on in the next phase.
Allocating(n, next) ==
  /\ lastUsed' = lastUsed + n
  /\ phase' = IF n > 0 /\ Overwrites(lastUsed + n) THEN "lost" ELSE next

\* KernelMain's tests for missing parameters never fail: entry.asm sets them all, and
\* the loader adds the kernel's base to the address of the information.
SetupLogging ==
  /\ phase = "main"
  /\ Allocating(Bytes.Logger + Bytes.SerialPort, "init")
  /\ UNCHANGED <<tags, place, pos, info>>

BootInfoInit ==
  /\ phase = "init"
  /\ Allocating(Bytes.Mb2BootInfo, "walk")
  /\ UNCHANGED <<tags, place, pos, info>>

-----------------------------------------------------------------------------
(* The walk: one step per tag.                                             *)

\* Mutant: sizes are not rounded up.
AdvanceBySize(size) == pos' = pos + size

Advance(size) == pos' = pos + RoundUp(size)

\* Mutant: every string gets a buffer of MAX_LEN bytes.
StringFixed(t) == 256

\* The copy is as long as the whole tag: the string and eight bytes behind it.
StringBytes(t) == t.size

GetEntryType(type) == IF type \in 1..4 THEN type ELSE 5

\* Entries are taken while they begin inside the tag.
Entries(t) ==
  LET count == Cardinality({i \in 0..t.size : TagHeader + 8 + i * EntryBytes < t.size})
  IN  [i \in 1..count |-> GetEntryType(t.data[i])]

Walks(kind) == phase = "walk" /\ AtTag /\ Tag.kind = kind

KeepString(kind) ==
  /\ Walks(kind)
  /\ Allocating(StringBytes(Tag), "walk")
  /\ info' = [info EXCEPT ![kind] = Tag.data]
  /\ Advance(Tag.size)
  /\ UNCHANGED <<tags, place>>

KeepStructure(kind) ==
  /\ Walks(kind)
  /\ Allocating(Bytes[Structure[kind]], "walk")
  /\ info' = [info EXCEPT ![kind] = Tag.data]
  /\ Advance(Tag.size)
  /\ UNCHANGED <<tags, place>>

\* Mutant: a second memory map is linked behind the first.
ExtractMemoryMapAppending ==
  /\ Walks("MMAP")
  /\ Allocating(Len(Entries(Tag)) * Bytes.MemMapEntry, "walk")
  /\ info' = [info EXCEPT !["MMAP"] = @ \o Entries(Tag)]
  /\ Advance(Tag.size)
  /\ UNCHANGED <<tags, place>>

\* A new list replaces the one before; a map without entries replaces nothing.
ExtractMemoryMap ==
  /\ Walks("MMAP")
  /\ Allocating(Len(Entries(Tag)) * Bytes.MemMapEntry, "walk")
  /\ info' = [info EXCEPT !["MMAP"] = IF Entries(Tag) = <<>> THEN @ ELSE Entries(Tag)]
  /\ Advance(Tag.size)
  /\ UNCHANGED <<tags, place>>

KeepStatic(kind) ==
  /\ Walks(kind)
  /\ info' = [info EXCEPT ![kind] = Tag.data]
  /\ Advance(Tag.size)
  /\ UNCHANGED <<phase, tags, place, lastUsed>>

\* Mutant: the walk does not get past a tag it does not know.
IgnoreForever(kind) ==
  /\ Walks(kind)
  /\ UNCHANGED vars

Ignore(kind) ==
  /\ Walks(kind)
  /\ Advance(Tag.size)
  /\ UNCHANGED <<phase, tags, place, lastUsed, info>>

\* ExtractModules begins with a message whose '%s' vsprintf does not understand (module
\* Format); the serial port is enabled and never stops sending (module Logger).
ExtractModules ==
  /\ Walks("MODULE")
  /\ phase' = "adrift"
  /\ UNCHANGED <<tags, place, lastUsed, pos, info>>

\* The END tag: s_Initialized is set, and a second call of BootInfoInit returns.
EndTag ==
  /\ phase = "walk"
  /\ AtEnd
  /\ phase' = "done"
  /\ UNCHANGED <<tags, place, lastUsed, pos, info>>

\* BootInfoGetBasicMemInfo reads through null when there was no such tag, and
\* BootInfoEnumMemMap always: s_aMemMap is never set.  Until the identity mapping is
\* removed both return what lies at address 0.
GetBasicMemInfoFaults ==
  /\ phase = "done"
  /\ info["BASIC_MEMINFO"] = None
  /\ phase' = "fault"
  /\ UNCHANGED <<tags, place, lastUsed, pos, info>>

EnumMemMapFaults ==
  /\ phase = "done"
  /\ phase' = "fault"
  /\ UNCHANGED <<tags, place, lastUsed, pos, info>>

Walk ==
  \/ \E kind \in Strings : KeepString(kind)
  \/ \E kind \in DOMAIN Structure : KeepStructure(kind)
  \/ ExtractMemoryMap
  \/ \E kind \in Statics : KeepStatic(kind)
  \/ \E kind \in Ignored : Ignore(kind)
  \/ ExtractModules
  \/ EndTag

Next ==
  \/ \E multiboot, cpuid, longMode, fits \in BOOLEAN :
       Bootstrap(multiboot, cpuid, longMode, fits)
  \/ SetupLogging
  \/ BootInfoInit
  \/ Walk
  \/ GetBasicMemInfoFaults
  \/ EnumMemMapFaults

Spec == Init /\ [][Next]_vars

\* One processor with interrupts off: it keeps executing.
FairSpec == Spec /\ WF_vars(SetupLogging \/ BootInfoInit \/ Walk)

-----------------------------------------------------------------------------
\* Types; and the walk always stands on the first byte of a tag.
TypeOK ==
  /\ phase \in {"bootstrap", "main", "init", "walk", "done", "halted", "adrift", "lost",
                "fault"}
  /\ tags \in TagLists /\ place \in Places /\ lastUsed \in Nat
  /\ pos \in Starts
  /\ DOMAIN info = Kept

\* The index of the last tag of a kind that the walk has passed, 0 for none.
LastOf(kind) ==
  LET passed == {i \in 1..Len(tags) : tags[i].kind = kind /\ StartsOf(tags)[i] < pos
                                      /\ (kind = "MMAP" => tags[i].data # <<>>)}
  IN  IF passed = {} THEN 0 ELSE CHOOSE i \in passed : \A j \in passed : j <= i

\* What is kept of a kind is the data of its last tag, the types of a memory map's
\* entries each in its place and unknown ones read as bad memory.
InfoMatches ==
  phase \in {"walk", "done"} =>
    \A kind \in Kept :
      info[kind] =
        IF LastOf(kind) = 0 THEN None
        ELSE IF kind # "MMAP" THEN tags[LastOf(kind)].data
        ELSE [i \in 1..Len(tags[LastOf(kind)].data) |->
                IF tags[LastOf(kind)].data[i] \in {1, 2, 3, 4}
                THEN tags[LastOf(kind)].data[i] ELSE 5]

Fixed == Bytes.Logger + Bytes.SerialPort + Bytes.Mb2BootInfo

\* Tags are overwritten before they are read only if the information begins less than
\* the fixed allocations and a third more than its own size behind the kernel.
GapSuffices == phase = "lost" => place >= 0 /\ 3 * place < 3 * Fixed + 4 * InfoEnd

\* Unless it meets a module or overwrites its tags, the walk gets to the end.
WalkEnds == phase = "walk" ~> phase \in {"done", "adrift", "lost", "fault"}

=============================================================================

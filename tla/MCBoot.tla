------------------------------- MODULE MCBoot --------------------------------
(* Small machines for Exec.  Frames 0 to 3 are low memory, 4 and 5 belong  *)
(* to devices, and the rest, where the kernel is, begins at frame 6.       *)
EXTENDS Exec

Frame0(n) == n * PageSize

Area(addr, len, available) == [addr |-> addr, len |-> len, available |-> available]

\* A machine with n frames; the boot loader's data are in low memory.
Machine(n, sections, mods) ==
  [mmap |-> <<Area(0, Frame0(4), TRUE), Area(Frame0(4), Frame0(2), FALSE),
              Area(Frame0(6), Frame0(n - 6), TRUE)>>,
   info |-> 20, mmapaddr |-> 30, mmaplen |-> 12, modsaddr |-> 44,
   sections |-> sections, mods |-> mods]

Section(addr, size) == [addr |-> addr, size |-> size]

\* Sections without memory, that share a frame, and with a gap before the last.
MCSections ==
  {<<Section(0, 7), Section(Frame0(6), 20), Section(Frame0(6) + 20, 16)>>,
   <<Section(Frame0(6), 9), Section(Frame0(8), 16)>>}

Segment(type, offset, size, zero) ==
  [type |-> type, offset |-> offset, vaddr |-> offset, filesz |-> size,
   memsz |-> size + zero]

Mod(frame, size, cmd, elf, phdrs) ==
  [start |-> Frame0(frame), end |-> Frame0(frame) + size, cmd |-> cmd, cmdlen |-> 3,
   elf |-> elf, phdrs |-> phdrs]

Text == Segment(PT_LOAD, 2, 9, 0)
Data0 == Segment(PT_LOAD, 16, 14, 0)
Wide == Segment(PT_LOAD, 2, 26, 0)
Bss == Segment(PT_LOAD, 2, 9, 8)
Note == Segment(4, 0, 1, 0)

MCMods ==
  {<<>>,
   <<Mod(9, 16, 0, TRUE, <<Text>>)>>,
   <<Mod(9, 15, 40, FALSE, <<>>), Mod(10, 32, 46, TRUE, <<Note, Text, Data0>>)>>,
   <<Mod(9, 16, 40, TRUE, <<Text>>), Mod(12, 12, 0, TRUE, <<Bss>>),
     Mod(13, 12, 0, TRUE, <<Text>>)>>,
   <<Mod(9, 12, 0, TRUE, <<Text>>), Mod(10, 12, 0, FALSE, <<>>),
     Mod(11, 12, 46, TRUE, <<Text>>)>>,
   <<Mod(9, 12, 0, TRUE, <<Text>>), Mod(10, 32, 0, TRUE, <<Wide>>)>>}

\* So large that there is hardly memory for the kernel.
MCLarge == {<<Mod(9, Frame0(13) + 4, 0, TRUE, <<Text>>)>>}

MCLayouts ==
  {Machine(n, s, m) : n \in {14, 20} \union 32..48, s \in MCSections, m \in MCMods}
  \union {Machine(n, s, m) : n \in 32..40, s \in MCSections, m \in MCLarge}

\* Modules in an order of the boot loader's own.
MCUnsorted ==
  {Machine(40, s, <<Mod(12, 12, 0, TRUE, <<Text>>), Mod(9, 15, 0, TRUE, <<Text>>)>>) :
     s \in MCSections}
=============================================================================

------------------------------- MODULE Boards -------------------------------
(***************************************************************************)
(* The board registry (hal/board_registry.c), the HAL's dispatch to the    *)
(* active board's flash driver (hal/hal_core.c) and the device table       *)
(* (core/device_table.c), over the ports of BoardPorts.                    *)
(*                                                                         *)
(* Flash is the content of the regions that a board lays out; an operation *)
(* acts on a range of byte offsets, and which regions that range touches   *)
(* is what the layout and the driver decide.                               *)
(***************************************************************************)
EXTENDS BoardPorts, Sequences, FiniteSets

CONSTANTS
    Builds,         \* the sets of ports that a build may contain
    NoBoard,        \* g_ops is NULL
    RegMax,         \* EOS_MAX_BOARDS
    MemMax,         \* EOS_MAX_MEM_REGIONS
    PeriphMax       \* EOS_MAX_PERIPHERALS

ASSUME BoardsAssumption ==
    /\ UNION Builds \subseteq AllPorts /\ NoBoard \notin AllPorts
    /\ RegMax \in Nat \ {0} /\ MemMax \in Nat /\ PeriphMax \in Nat

VARIABLES
    built,      \* the ports of this build
    registry,   \* the registered boards
    g_ops,      \* the active board
    flash,      \* content of each region: "data", "erased" or "torn"
    flashOp,    \* history: the active board's last flash operation, region and result
    table,      \* the device table
    sealed      \* history: the table as eos_device_table_finalize() saw it

boardVars == <<built, registry, g_ops, flash, flashOp, table, sealed>>

Slots == {"slotA", "slotB", "recovery"}
Regions == Slots \cup {"bootctl", "backup", "log", "boot"}

NoOp == [op |-> "none", region |-> "boot", rc |-> "none"]
NoTable == [port |-> NoBoard, memory |-> <<>>, periphs |-> 0, crc |-> <<>>, intact |-> TRUE]

BoardsInit ==
    /\ built \in Builds
    /\ registry = <<>> /\ g_ops = NoBoard
    /\ flash = [r \in Regions |-> "data"] /\ flashOp = NoOp
    /\ table = NoTable /\ sealed = NoTable

-----------------------------------------------------------------------------
(* The registry.                                                           *)

Registered == {registry[i] : i \in DOMAIN registry}

eos_board_register(p) ==
    /\ Len(registry) < RegMax /\ p \notin Registered
    /\ registry' = Append(registry, p)
    /\ UNCHANGED <<built, g_ops, flash, flashOp, table, sealed>>

\* The regions are those of the active board: those of another one hold some data.
eos_hal_init(p) ==
    /\ g_ops' = p
    /\ flash' = IF p = g_ops THEN flash ELSE [r \in Regions |-> "data"]
    /\ flashOp' = IF p = g_ops THEN flashOp ELSE NoOp
    /\ UNCHANGED <<built, registry, table, sealed>>

eos_board_activate(p) == p \in Registered /\ eos_hal_init(p)

\* The first board whose detect() says yes, or else the first one registered.
eos_board_detect(detected) ==
    LET found == {i \in DOMAIN registry : registry[i] \in detected}
    IN  registry[IF found = {} THEN 1 ELSE CHOOSE i \in found : \A j \in found : i <= j]

eos_board_activate_auto(detected) ==
    registry # <<>> /\ eos_hal_init(eos_board_detect(detected))

-----------------------------------------------------------------------------
(* Flash through the HAL.                                                  *)

CtlBytes == 92          \* sizeof(eos_bootctl_t)
LogBytes == 32 * 16     \* EOS_BOOT_LOG_MAX entries

\* The length a caller passes for a region.
LengthOf(p, r) ==
    CASE r \in Slots -> p.size[r]
      [] r \in {"bootctl", "backup"} -> CtlBytes
      [] r = "log" -> LogBytes

\* The boot loader's own image comes before everything else.
StartOf(p, r) == IF r = "boot" THEN 0 ELSE p.start[r]
Placed(p, r) == r = "boot" \/ p.start[r] > 0
EndOf(p, r) ==
    IF r # "boot" THEN p.start[r] + LengthOf(p, r)
    ELSE LET starts == {p.start[s] : s \in {q \in Regions \ {"boot"} : Placed(p, q)}}
         IN  CHOOSE o \in starts \cup {p.flash} : \A q \in starts : o <= q

\* A range is the offsets from .from up to and not including .to.
Touches(p, r, range) == StartOf(p, r) < range.to /\ range.from < EndOf(p, r)
Covers(p, r, range) ==
    Touches(p, r, range) /\ range.from <= StartOf(p, r) /\ EndOf(p, r) <= range.to

\* Sectors 0-3 of the STM32F4 have 16 KiB, sector 4 has 64, the others 128.
SectorOf(o) ==
    IF o < 64 * KiB THEN o \div (16 * KiB)
    ELSE IF o < 128 * KiB THEN 4 ELSE 4 + o \div (128 * KiB)
SectorStart(n) ==
    IF n < 4 THEN n * 16 * KiB ELSE IF n = 4 THEN 64 * KiB ELSE (n - 4) * 128 * KiB

\* The sectors of a range; none for an empty range or one that leaves the flash.
SectorRange_FromTheEnd(p, o, len) ==
    IF len = 0 \/ o < 0 \/ o + len > p.flash THEN {}
    ELSE SectorOf(o)..SectorOf(o + len)

SectorRange(p, o, len) ==
    IF len = 0 \/ o < 0 \/ o + len > p.flash THEN {}
    ELSE SectorOf(o)..SectorOf(o + len - 1)

\* What an erase clears with each result it can have.  The sectors are erased in
\* order and the first one that fails ends it.  On x86 the end of the flash wraps
\* past 2^32, so that no range passes the driver's comparison.
Nowhere == [from |-> 0, to |-> 0]
EraseOutcomes(p, o, len) ==
    CASE p.driver \in {"none", "failing", "window"} -> {[rc |-> "ERROR", range |-> Nowhere]}
      [] p.driver = "inert" -> {[rc |-> "OK", range |-> Nowhere]}
      [] p.driver = "memory" -> {[rc |-> "OK", range |-> [from |-> o, to |-> o + len]]}
      [] p.driver = "sectors" ->
             LET all == SectorRange(p, o, len)
                 Upto(n) == [from |-> SectorStart(SectorOf(o)), to |-> SectorStart(n + 1)]
             IN  {[rc |-> "ERROR", range |-> Upto(n)] : n \in all} \cup
                 {[rc |-> "ERROR", range |-> Nowhere]} \cup
                 {[rc |-> "OK", range |-> Upto(n)] : n \in {m \in all : m + 1 \notin all}}

Erased(p, r, range) ==
    IF Covers(p, r, range) THEN "erased"
    ELSE IF Touches(p, r, range) THEN "torn" ELSE flash[r]

eos_hal_flash_erase(r) ==
    /\ g_ops # NoBoard
    /\ \E e \in EraseOutcomes(g_ops, StartOf(g_ops, r), LengthOf(g_ops, r)) :
          /\ flash' = [s \in Regions |->
                          IF Placed(g_ops, s) THEN Erased(g_ops, s, e.range) ELSE flash[s]]
          /\ flashOp' = [op |-> "erase", region |-> r, rc |-> e.rc]
    /\ UNCHANGED <<built, registry, g_ops, table, sealed>>

\* Writes stay inside their region.  Programming what is not erased leaves a
\* mixture, except in the emulated flash.
WriteOutcomes(p, old) ==
    CASE p.driver \in {"none", "failing", "window"} -> {[rc |-> "ERROR", now |-> old]}
      [] p.driver = "inert" -> {[rc |-> "OK", now |-> old]}
      [] p.driver = "memory" -> {[rc |-> "OK", now |-> "data"]}
      [] p.driver = "sectors" ->
             {[rc |-> "OK", now |-> IF old = "erased" THEN "data" ELSE "torn"],
              [rc |-> "ERROR", now |-> "torn"]}

eos_hal_flash_write(r) ==
    /\ g_ops # NoBoard /\ Placed(g_ops, r) /\ LengthOf(g_ops, r) > 0
    /\ \E w \in WriteOutcomes(g_ops, flash[r]) :
          /\ flash' = [flash EXCEPT ![r] = w.now]
          /\ flashOp' = [op |-> "write", region |-> r, rc |-> w.rc]
    /\ UNCHANGED <<built, registry, g_ops, table, sealed>>

-----------------------------------------------------------------------------
(* The device table.                                                       *)

Halves(n) == <<n \div 2^16, n % 2^16>>

\* eos_device_table_init() and what the port's init_device_table() adds.
init_device_table ==
    /\ g_ops # NoBoard /\ g_ops.id # 0
    /\ table' = [NoTable EXCEPT
                    !.port = g_ops, !.periphs = g_ops.uarts,
                    !.memory = <<[type |-> "FIRMWARE", base |-> g_ops.base, size |-> Halves(g_ops.flash)],
                                 [type |-> "USABLE", base |-> g_ops.ram.base, size |-> g_ops.ram.size]>>]
    /\ UNCHANGED <<built, registry, g_ops, flash, flashOp, sealed>>

eos_device_table_add_memory(region) ==
    /\ table # NoTable /\ Len(table.memory) < MemMax
    /\ table' = [table EXCEPT !.memory = Append(@, region)]
    /\ UNCHANGED <<built, registry, g_ops, flash, flashOp, sealed>>

eos_device_table_add_peripheral ==
    /\ table # NoTable /\ table.periphs < PeriphMax
    /\ table' = [table EXCEPT !.periphs = @ + 1]
    /\ UNCHANGED <<built, registry, g_ops, flash, flashOp, sealed>>

\* The checksum stands for everything it is computed over.
Checksum_MemoryOnly(t) == [memory |-> t.memory, periphs |-> 0, intact |-> t.intact]

Checksum(t) == [memory |-> t.memory, periphs |-> t.periphs, intact |-> t.intact]

eos_device_table_finalize ==
    /\ table # NoTable
    /\ table' = [table EXCEPT !.crc = <<Checksum(table)>>]
    /\ sealed' = table'
    /\ UNCHANGED <<built, registry, g_ops, flash, flashOp>>

\* Something else writes over the table in RAM.
OverwriteTable ==
    /\ table # NoTable /\ table.intact
    /\ table' = [table EXCEPT !.intact = FALSE]
    /\ UNCHANGED <<built, registry, g_ops, flash, flashOp, sealed>>

eos_device_table_validate(t) ==
    /\ t # NoTable
    /\ Len(t.memory) <= MemMax /\ t.periphs <= PeriphMax
    /\ t.crc = <<Checksum(t)>>

RegistryNext ==
    \/ \E p \in built : eos_board_register(p) \/ eos_board_activate(p)
    \/ \E detected \in SUBSET Registered : eos_board_activate_auto(detected)

FlashNext == \E r \in Regions \ {"boot"} : eos_hal_flash_erase(r) \/ eos_hal_flash_write(r)

TableNext ==
    \/ init_device_table
    \/ eos_device_table_add_memory([type |-> "RESERVED", base |-> <<0, 0>>, size |-> <<0, 1>>])
    \/ eos_device_table_add_peripheral
    \/ eos_device_table_finalize
    \/ OverwriteTable

BoardsSpec == BoardsInit /\ [][RegistryNext \/ FlashNext \/ TableNext]_boardVars

-----------------------------------------------------------------------------
(* Properties.                                                             *)

BoardsTypeOK ==
    /\ Len(registry) <= RegMax /\ Registered \subseteq built
    /\ {g_ops, table.port} \subseteq built \cup {NoBoard}
    /\ flash \in [Regions -> {"data", "erased", "torn"}]
    /\ flashOp \in [op : {"none", "erase", "write"}, region : Regions, rc : {"none", "OK", "ERROR"}]
    /\ Len(table.memory) <= MemMax /\ table.periphs <= PeriphMax

\* "Erasing one region must never erase another" (board_stm32f4.h:20-21): an erase
\* or a write changes the region it is aimed at and no other one, whatever sector
\* it fails on, and an erase that reports success has cleared the whole region.
\* A driver that does nothing, and a region the board does not place, are left out.
RegionsKept ==
    [][g_ops' = g_ops =>
       /\ \A r \in Regions : flash'[r] # flash[r] => r = flashOp'.region
       /\ (/\ flashOp'.op = "erase" /\ flashOp'.rc = "OK"
           /\ g_ops'.driver # "inert" /\ Placed(g_ops', flashOp'.region))
          => flash'[flashOp'.region] = "erased"]_boardVars

\* The last byte of the flash has a 32-bit address.  On powerpc and x86 the flash
\* that the port declares runs past the end of the address space.
FlashFits(p) == p.base[1] + (p.base[2] + p.flash - 1) \div 2^16 < 2^16

\* What the operating system is told: a table that validates is the one that was
\* finalised, and in a flash of more than 384 KiB that fits the address space the
\* two slots, the recovery image and the control block lie in that order inside
\* its firmware memory.
TableTells ==
    eos_device_table_validate(table) =>
        /\ table = sealed
        /\ table.memory[1].size = Halves(table.port.flash)
        /\ (table.port.flash > 384 * KiB /\ FlashFits(table.port)) =>
               LET at == table.port.start
               IN  /\ 0 < at.slotA /\ at.slotA < at.slotB /\ at.slotB < at.recovery
                   /\ at.recovery < at.bootctl /\ at.bootctl < table.port.flash

=============================================================================

-------------------------------- MODULE Mpu --------------------------------
(***************************************************************************)
(* Memory protection at boot (core/mpu_boot.c) and the regions that        *)
(* eos_rtos_configure_mpu() asks for (core/rtos_boot.c).                   *)
(*                                                                         *)
(* Addresses and sizes are counted in units of 16 KiB, of which every      *)
(* region of the code is a multiple.  The unit takes a size exponent n for *)
(* a region of 2^(n+1) bytes, ignores the address bits below that size,    *)
(* and lets the region with the highest number win (external: the ARMv7-M  *)
(* MPU).  Cache attributes are left out.                                   *)
(***************************************************************************)
EXTENDS Integers, Sequences

CONSTANTS
    RtosConfigs,    \* eos_rtos_boot_config_t: entry, stack, heap_start, heap_size, mode
    ExtraRegions    \* regions that a platform adds to a profile

MB == 64                        \* one MiB in units of 16 KiB

\* 2^n units: a region has 16 KiB, 32 KiB, ..., or the 4 GiB of the address space.
TwoTo(n) ==
    <<1, 2, 4, 8, 16, 32, 64, 128, 256, 512, 1024, 2048, 4096, 8192, 16384, 32768, 65536,
      131072, 262144>>[n + 1]

\* eos_mpu_access_t
MpuAccess == {"NO_ACCESS", "PRIV_RW", "PRIV_RO", "FULL_RW", "FULL_RO"}

\* The heap and what a platform adds: of any base, and of a size the unit can express.
ASSUME MpuAssumption ==
    /\ \A c \in RtosConfigs :
        /\ c.mode \in {"DISABLED", "PRIVILEGED", "PROTECTED"}
        /\ c.entry \in Nat /\ c.stack \in Nat
        /\ c.heap_start \in Nat /\ c.heap_size \in 1..(TwoTo(18) - 1)
    /\ ExtraRegions \subseteq
         [base : Nat, size : 1..(TwoTo(18) - 1), access : MpuAccess, exec : BOOLEAN]

VARIABLES
    mpu_ctx,        \* the context's regions, in order
    mpu_hw,         \* external: what each region of the unit was programmed with
    mpu_on,         \* external: whether the unit is enabled
    mpu_asked       \* history: the regions of the last eos_mpu_apply()

mpuVars == <<mpu_ctx, mpu_hw, mpu_on, mpu_asked>>

HW_REGIONS == 8
Unprogrammed == [base |-> 0, size |-> 0, access |-> "NO_ACCESS", exec |-> FALSE]

MpuRegion(base, size, access, exec) ==
    [base |-> base, size |-> size, access |-> access, exec |-> exec]

MpuInit ==
    /\ mpu_ctx = <<>> /\ mpu_on = FALSE /\ mpu_asked = <<>>
    /\ mpu_hw = [i \in 1..HW_REGIONS |-> Unprogrammed]

FlashBase  == 128 * MB         \* 0x08000000
RamBase    == 512 * MB         \* 0x20000000
PeriphBase == 1024 * MB        \* 0x40000000
SystemBase == 3584 * MB        \* 0xE0000000

PeriphSize == 512 * MB         \* 0x20000000
Peripherals(access) == MpuRegion(PeriphBase, PeriphSize, access, FALSE)
SystemControl == MpuRegion(SystemBase, 4, "PRIV_RW", FALSE)

DefaultProfile ==
    <<MpuRegion(FlashBase, 2 * MB, "FULL_RO", TRUE),
      MpuRegion(RamBase, MB, "FULL_RW", FALSE),
      Peripherals("FULL_RW"), SystemControl>>

BootloaderProfile ==
    <<MpuRegion(FlashBase, 4, "FULL_RO", TRUE),
      MpuRegion(FlashBase + 4, 4, "FULL_RO", FALSE),
      MpuRegion(RamBase, 1, "FULL_RW", FALSE),
      MpuRegion(RamBase + 1, 3, "FULL_RW", FALSE),
      Peripherals("PRIV_RW"), SystemControl>>

\* (LockdownProfile_LockFirst: the region that locks has the lowest number.)
LockdownProfile_LockFirst ==
    <<MpuRegion(FlashBase, 8, "NO_ACCESS", FALSE),
      MpuRegion(FlashBase + 8, 120, "FULL_RO", TRUE),
      MpuRegion(RamBase, MB, "FULL_RW", FALSE),
      Peripherals("FULL_RW"), SystemControl>>

LockdownProfile ==
    <<MpuRegion(FlashBase + 8, 120, "FULL_RO", TRUE),
      MpuRegion(RamBase, MB, "FULL_RW", FALSE),
      MpuRegion(FlashBase, 8, "NO_ACCESS", FALSE),
      Peripherals("FULL_RW"), SystemControl>>

\* entry_addr & 0xFFF00000
MiBDown(a) == (a \div MB) * MB

PrivilegedProfile(c) ==
    <<MpuRegion(MiBDown(c.entry), 2 * MB, "PRIV_RO", TRUE),
      MpuRegion(MiBDown(c.stack), MB, "PRIV_RW", FALSE),
      Peripherals("PRIV_RW"), SystemControl>>

ProtectedProfile(c) ==
    <<MpuRegion(MiBDown(c.entry), MB, "PRIV_RO", TRUE),
      MpuRegion(c.heap_start, c.heap_size, "PRIV_RW", FALSE),
      MpuRegion(MiBDown(c.stack), 16, "FULL_RW", FALSE),
      MpuRegion(MiBDown(c.stack) + 16, 4, "FULL_RW", FALSE),
      Peripherals("PRIV_RW"), SystemControl>>

-----------------------------------------------------------------------------

eos_mpu_init == mpu_ctx' = <<>> /\ UNCHANGED <<mpu_hw, mpu_on, mpu_asked>>

\* The profiles reset the count first, so a context can be filled again.
eos_mpu_set_default    == mpu_ctx' = DefaultProfile /\ UNCHANGED <<mpu_hw, mpu_on, mpu_asked>>
eos_mpu_set_bootloader == mpu_ctx' = BootloaderProfile /\ UNCHANGED <<mpu_hw, mpu_on, mpu_asked>>
eos_mpu_set_lockdown   == mpu_ctx' = LockdownProfile /\ UNCHANGED <<mpu_hw, mpu_on, mpu_asked>>

eos_mpu_add_region(r) ==
    /\ Len(mpu_ctx) < HW_REGIONS
    /\ mpu_ctx' = Append(mpu_ctx, r)
    /\ UNCHANGED <<mpu_hw, mpu_on, mpu_asked>>

\* The exponent that eos_mpu_apply() writes: how often the size can be halved.
SizeBits(size) == CHOOSE n \in 0..17 : TwoTo(n) <= size /\ size < TwoTo(n + 1)

\* What the unit covers once it is programmed with a base and an exponent.
Encoded(base, bits) ==
    LET size == TwoTo(bits + 1)
    IN  [base |-> (base \div size) * size, size |-> size]

Programmed(r) ==
    LET e == Encoded(r.base, SizeBits(r.size))
    IN  MpuRegion(e.base, e.size, r.access, r.exec)

\* Regions behind the last one keep what an earlier profile wrote.
Applied(regions) ==
    /\ mpu_hw' = [i \in 1..HW_REGIONS |->
                    IF i <= Len(regions) THEN Programmed(regions[i]) ELSE mpu_hw[i]]
    /\ mpu_on' = TRUE
    /\ mpu_asked' = regions

eos_mpu_apply == Applied(mpu_ctx) /\ UNCHANGED mpu_ctx

eos_mpu_disable == mpu_on' = FALSE /\ UNCHANGED <<mpu_ctx, mpu_hw, mpu_asked>>

\* The context is a local of the function.
eos_rtos_configure_mpu(c) ==
    /\ UNCHANGED mpu_ctx
    /\ \/ c.mode = "DISABLED" /\ UNCHANGED <<mpu_hw, mpu_on, mpu_asked>>
       \/ c.mode = "PRIVILEGED" /\ Applied(PrivilegedProfile(c))
       \/ c.mode = "PROTECTED" /\ Applied(ProtectedProfile(c))

MpuNext ==
    \/ eos_mpu_init
    \/ eos_mpu_set_default
    \/ eos_mpu_set_bootloader
    \/ eos_mpu_set_lockdown
    \/ \E r \in ExtraRegions : eos_mpu_add_region(r)
    \/ eos_mpu_apply
    \/ eos_mpu_disable
    \/ \E c \in RtosConfigs : eos_rtos_configure_mpu(c)

MpuSpec == MpuInit /\ [][MpuNext]_mpuVars

-----------------------------------------------------------------------------
(* Properties.                                                             *)

InRegion(r, a) == r.base <= a /\ a < r.base + r.size

\* Of the regions that contain an address, the one with the highest number decides.
Governs(i, a) ==
    /\ InRegion(mpu_hw[i], a)
    /\ \A j \in (i + 1)..HW_REGIONS : ~InRegion(mpu_hw[j], a)

\* Where an asked or a programmed region begins: what the unit does is the same from
\* there to the next.
Edges ==
    {mpu_asked[i].base : i \in DOMAIN mpu_asked} \cup
    {mpu_hw[i].base : i \in 1..HW_REGIONS} \cup
    {mpu_hw[i].base + mpu_hw[i].size : i \in 1..HW_REGIONS}

MpuTypeOK ==
    /\ Len(mpu_ctx) <= HW_REGIONS /\ mpu_on \in BOOLEAN
    /\ DOMAIN mpu_hw = 1..HW_REGIONS

BootLoaderFlash == FlashBase..(FlashBase + 7)

LockedDown ==
    /\ mpu_on /\ Len(mpu_asked) >= Len(LockdownProfile)
    /\ \A i \in 1..Len(LockdownProfile) : mpu_asked[i] = LockdownProfile[i]

\* While the lockdown profile is in force no access to the boot loader's flash gets
\* through: although the application's region is rounded down over it, although the
\* regions behind the profile keep what a longer one wrote, whatever was applied
\* before and whatever a platform adds elsewhere (eos_mpu_set_lockdown(), "Bootloader
\* flash: NO ACCESS (locked down)").
LockdownHolds ==
    LockedDown /\ (\A r \in ExtraRegions, a \in BootLoaderFlash : ~InRegion(Programmed(r), a))
    => \A a \in BootLoaderFlash :
         \E i \in 1..HW_REGIONS : Governs(i, a) /\ mpu_hw[i].access = "NO_ACCESS"

\* An address gets what the profile asked for it, in the last region of the profile
\* that contains it (eos_mpu_apply(): "Calculate region size encoding (log2 - 1)").
GrantedAsAsked ==
    mpu_on => \A i \in DOMAIN mpu_asked, a \in Edges :
        /\ InRegion(mpu_asked[i], a)
        /\ \A j \in (i + 1)..Len(mpu_asked) : ~InRegion(mpu_asked[j], a)
        => \E k \in 1..HW_REGIONS :
             /\ Governs(k, a)
             /\ mpu_hw[k].access = mpu_asked[i].access
             /\ mpu_hw[k].exec = mpu_asked[i].exec

=============================================================================

----------------------------- MODULE BoardPorts -----------------------------
(***************************************************************************)
(* The board ports (boards/*/board_*.c): for each board the flash layout   *)
(* in its eos_board_ops_t, the kind of flash driver it has, and what its   *)
(* init_device_table() puts in the device table.                           *)
(*                                                                         *)
(* A 32-bit word is <<high half, low half>>, because TLC's integers are    *)
(* signed; starts are byte offsets from the flash base.  Clocks, names and *)
(* UART registers are left out.                                            *)
(***************************************************************************)
EXTENDS Integers

KiB == 1024
MiB == 1024 * KiB

\* A field that the initialiser leaves out is the absolute address 0: the first
\* byte of a flash at 0, and below any other flash.
Unset(base) == IF base = <<0, 0>> THEN 0 ELSE -(1024 * MiB)

\* Without slot sizes an erase or a write of a slot has no room at all.
Sizes(slotA, slotB, recovery) == [slotA |-> slotA, slotB |-> slotB, recovery |-> recovery]

\* An ops table with every flash operation NULL.
Layout(base, size, slotA, slotB, recovery, bootctl) ==
    [base |-> base, flash |-> size, driver |-> "none", size |-> Sizes(0, 0, 0),
     start |-> [slotA |-> slotA, slotB |-> slotB, recovery |-> recovery,
                bootctl |-> bootctl, backup |-> Unset(base), log |-> Unset(base)],
     id |-> 0, ram |-> [base |-> <<0, 0>>, size |-> <<0, 0>>], uarts |-> 0]

\* The layout of the generated ports: 128 KiB for the boot loader, two slots a
\* third apart, recovery in the last third, the control block at the end.
Thirds(base, size) ==
    Layout(base, size, 128 * KiB, size \div 3 + 128 * KiB, (2 * size) \div 3, size - 8 * KiB)

\* The ops table and the device table of a port.  Sizes of 4 GiB and more are
\* cut off to the 32 bits of eos_mem_region_t.
Port(id, layout, ramBase, ramSize, uarts) ==
    [layout EXCEPT !.id = id, !.uarts = uarts,
                   !.ram = [base |-> ramBase, size |-> <<ramSize[1] % 2^16, ramSize[2]>>]]

-----------------------------------------------------------------------------
(* Ports without drivers.                                                  *)

i8051 ==
    Port(\hFF01, Thirds(<<0, 0>>, 8 * KiB), <<0, 0>>, <<0, \h100>>, 0)

alpha ==
    Port(\hA01, Thirds(<<0, 0>>, 4 * MiB), <<0, 0>>, <<\h80000, 0>>, 0)

arc ==
    Port(\hFE01, Thirds(<<0, 0>>, 1 * MiB), <<0, 0>>, <<4, 0>>, 0)

arm11 ==
    Port(\hCB01, Thirds(<<0, 0>>, 4 * MiB), <<0, 0>>, <<\h2000, 0>>, 0)

arm7tdmi ==
    Port(\hC701, Thirds(<<0, 0>>, 512 * KiB), <<\h4000, 0>>, <<0, \hA000>>, 0)

arm9 ==
    Port(\hC901, Thirds(<<0, 0>>, 4 * MiB), <<\h2000, 0>>, <<\h800, 0>>, 0)

avr ==
    Port(\hD101, Thirds(<<0, 0>>, 32 * KiB), <<0, \h100>>, <<0, \h800>>, 0)

avr32 ==
    Port(\hD201, Thirds(<<\h8000, 0>>, 512 * KiB), <<0, 0>>, <<1, 0>>, 0)

blackfin ==
    Port(\hF901, Thirds(<<\h2000, 0>>, 4 * MiB), <<0, 0>>, <<\h800, 0>>, 0)

c166 ==
    Port(\hF401, Thirds(<<0, 0>>, 768 * KiB), <<0, \hF000>>, <<0, \hC000>>, 0)

c28x ==
    Port(\hE201, Thirds(<<8, 0>>, 1 * MiB), <<0, 0>>, <<3, \h2000>>, 0)

c6000 ==
    Port(\hE301, Thirds(<<0, 0>>, 4 * MiB), <<\hC000, 0>>, <<\h1000, 0>>, 0)

ceva ==
    Port(\hFC01, Thirds(<<0, 0>>, 4 * MiB), <<0, 0>>, <<\h40, 0>>, 0)

cortex_a15 ==
    Port(\hBA51, Thirds(<<0, 0>>, 4 * MiB), <<\h8000, 0>>, <<\h8000, 0>>, 0)

cortex_a35 ==
    Port(\hBB51, Thirds(<<0, 0>>, 4 * MiB), <<\h8000, 0>>, <<\h8000, 0>>, 0)

cortex_a5 ==
    Port(\hB501, Thirds(<<0, 0>>, 4 * MiB), <<\h2000, 0>>, <<\h1000, 0>>, 0)

cortex_a55 ==
    Port(\hBC55, Thirds(<<0, 0>>, 4 * MiB), <<\h20, 0>>, <<\h10000, 0>>, 0)

cortex_a76 ==
    Port(\hBD76, Thirds(<<0, 0>>, 4 * MiB), <<\h20, 0>>, <<\h20000, 0>>, 0)

cortex_a9 ==
    Port(\hB901, Thirds(<<0, 0>>, 4 * MiB), <<\h10, 0>>, <<\h2000, 0>>, 0)

cortex_m0 ==
    Port(1, Thirds(<<\h800, 0>>, 32 * KiB), <<\h2000, 0>>, <<0, \h1000>>, 0)

cortex_m0plus ==
    Port(\hA1, Thirds(<<\h800, 0>>, 192 * KiB), <<\h2000, 0>>, <<0, \h5000>>, 0)

cortex_m23 ==
    Port(\h2301, Thirds(<<0, 0>>, 256 * KiB), <<\h2000, 0>>, <<1, \h8000>>, 0)

cortex_m3 ==
    Port(\h301, Thirds(<<\h800, 0>>, 512 * KiB), <<\h2000, 0>>, <<1, 0>>, 0)

cortex_m33 ==
    Port(\h3301, Thirds(<<\h800, 0>>, 512 * KiB), <<\h2000, 0>>, <<4, 0>>, 0)

cortex_m55 ==
    Port(\h5501, Thirds(<<\h1000, 0>>, 2 * MiB), <<\h2000, 0>>, <<8, 0>>, 0)

cortex_m85 ==
    Port(\h8501, Thirds(<<0, 0>>, 2 * MiB), <<\h2000, 0>>, <<\h10, 0>>, 0)

cortex_r4 ==
    Port(\hA401, Thirds(<<0, 0>>, 1280 * KiB), <<\h800, 0>>, <<4, 0>>, 0)

cortex_r52 ==
    Port(\hA521, Thirds(<<0, 0>>, 4 * MiB), <<\h2000, 0>>, <<\h10, 0>>, 0)

cris ==
    Port(\hC01, Thirds(<<0, 0>>, 4 * MiB), <<\h4000, 0>>, <<\h400, 0>>, 0)

dspic ==
    Port(\hD601, Thirds(<<0, 0>>, 256 * KiB), <<0, \h800>>, <<0, \h7800>>, 0)

esp32c3 ==
    Port(\h301, Thirds(<<0, 0>>, 4 * MiB), <<\h3FC8, 0>>, <<6, \h4000>>, 0)

esp32s3 ==
    Port(\h201, Thirds(<<0, 0>>, 16 * MiB), <<\h3FC8, \h8000>>, <<8, 0>>, 0)

frv ==
    Port(\hB01, Layout(<<0, 0>>, 4 * MiB, \h20000, \h1A0000, \h320000, \h3FF000), <<\h2000, 0>>, <<\h100, 0>>, 1)

h8300 ==
    Port(\hD01, Layout(<<0, 0>>, 512 * KiB, \h8000, \h38000, \h68000, \h7F000), <<\h40, 0>>, <<2, 0>>, 1)

hexagon ==
    Port(\hFB01, Thirds(<<0, 0>>, 4 * MiB), <<0, 0>>, <<\h80, 0>>, 0)

ia64 ==
    Port(\h901, Thirds(<<0, 0>>, 4 * MiB), <<0, 0>>, <<\h800000, 0>>, 0)

kalimba ==
    Port(\hD01, Thirds(<<0, 0>>, 4 * MiB), <<0, 0>>, <<\h10, 0>>, 0)

lm32 ==
    Port(\hF801, Thirds(<<0, 0>>, 4 * MiB), <<0, 0>>, <<\h80, 0>>, 0)

loongarch ==
    Port(\h701, Thirds(<<0, 0>>, 4 * MiB), <<0, 0>>, <<\h40000, 0>>, 0)

m68k ==
    Port(\h1201, Layout(<<\hFFE0, 0>>, 2 * MiB, \h10000, \hD0000, \h190000, \h1FF000), <<0, 0>>, <<\h40, 0>>, 1)

microblaze ==
    Port(\hF501, Thirds(<<0, 0>>, 16 * MiB), <<\h8000, 0>>, <<\h800, 0>>, 0)

mips ==
    Port(\hF01, Layout(<<\h1FC0, 0>>, 8 * MiB, \h40000, \h340000, \h640000, \h7FF000), <<\h8000, 0>>, <<\h200, 0>>, 1)

mips64 ==
    Port(\h401, Thirds(<<0, 0>>, 4 * MiB), <<0, 0>>, <<\h10000, 0>>, 0)

mn103 ==
    Port(\h1001, Layout(<<0, 0>>, 2 * MiB, \h10000, \hD0000, \h190000, \h1FF000), <<\h4800, 0>>, <<\h80, 0>>, 1)

msp430 ==
    Port(\hE101, Thirds(<<0, \h4400>>, 256 * KiB), <<0, \h1C00>>, <<0, \h2000>>, 0)

nios2 ==
    Port(\hF601, Thirds(<<0, 0>>, 16 * MiB), <<0, 0>>, <<\h800, 0>>, 0)

nrf52 ==
    Port(\h152, Layout(<<0, 0>>, 1 * MiB, \h26000, \h80000, \hE0000, \hFF000), <<\h2000, 0>>, <<4, 0>>, 1)

openrisc ==
    Port(\hF701, Thirds(<<0, 0>>, 4 * MiB), <<0, 0>>, <<\h100, 0>>, 0)

parisc ==
    Port(\h801, Thirds(<<0, 0>>, 4 * MiB), <<0, 0>>, <<\h10000, 0>>, 0)

pic16 ==
    Port(\hD301, Thirds(<<0, 0>>, 14 * KiB), <<0, \h20>>, <<0, \h170>>, 0)

pic18 ==
    Port(\hD401, Thirds(<<0, 0>>, 32 * KiB), <<0, \h80>>, <<0, \h800>>, 0)

pic24 ==
    Port(\hD501, Thirds(<<0, 0>>, 128 * KiB), <<0, \h800>>, <<0, \h2000>>, 0)

pic32 ==
    Port(\hD701, Thirds(<<\h9D00, 0>>, 512 * KiB), <<\hA000, 0>>, <<2, 0>>, 0)

powerpc ==
    Port(\h1101, Layout(<<\hFF00, 0>>, 32 * MiB, \h100000, \h700000, \hD00000, \hFFF000), <<0, 0>>, <<\h1000, 0>>, 1)

ppc64 ==
    Port(\h601, Thirds(<<0, 0>>, 4 * MiB), <<0, 0>>, <<\h100000, 0>>, 0)

pru ==
    Port(\hE401, Thirds(<<0, 0>>, 8 * KiB), <<0, 0>>, <<0, \h4000>>, 0)

riscv32 ==
    Port(\h101, Thirds(<<0, 0>>, 4 * MiB), <<\h3FC8, 0>>, <<6, \h4000>>, 0)

rl78 ==
    Port(\hF101, Thirds(<<0, 0>>, 512 * KiB), <<\hF, \hF700>>, <<0, \hC000>>, 0)

rx ==
    Port(\hF201, Thirds(<<\hFFE0, 0>>, 2 * MiB), <<0, 0>>, <<\hA, 0>>, 0)

s390 ==
    Port(\hB01, Thirds(<<0, 0>>, 4 * MiB), <<0, 0>>, <<\h800000, 0>>, 0)

sh4 ==
    Port(\hC01, Layout(<<0, 0>>, 4 * MiB, \h20000, \h1A0000, \h320000, \h3FF000), <<\hC00, 0>>, <<\h100, 0>>, 1)

sharc ==
    Port(\hFA01, Thirds(<<0, 0>>, 4 * MiB), <<8, 0>>, <<\h50, 0>>, 0)

sparc ==
    Port(\h1401, Layout(<<0, 0>>, 4 * MiB, \h20000, \h1A0000, \h320000, \h3FF000), <<\h4000, 0>>, <<\h100, 0>>, 1)

sparc64 ==
    Port(\h501, Thirds(<<0, 0>>, 4 * MiB), <<0, 0>>, <<\h80000, 0>>, 0)

stm32h7 ==
    Port(\h450, Layout(<<\h800, 0>>, 2 * MiB, \h20000, \h100000, \h1E0000, \h1F0000), <<\h2000, 0>>, <<8, 0>>, 1)

strongarm ==
    Port(\hA01, Layout(<<0, 0>>, 16 * MiB, \h40000, \h640000, \hC40000, \hFF0000), <<\hC000, 0>>, <<\h200, 0>>, 1)

tricore ==
    Port(\hF301, Thirds(<<\h8000, 0>>, 16 * MiB), <<\h7000, 0>>, <<\h60, 0>>, 0)

v850 ==
    Port(\h1301, Layout(<<0, 0>>, 1 * MiB, \h8000, \h68000, \hC8000, \hFF000), <<\h3FF, 0>>, <<2, 0>>, 1)

xscale ==
    Port(\hA02, Layout(<<0, 0>>, 32 * MiB, \h40000, \hC40000, \h1840000, \h1FFF000), <<\hA000, 0>>, <<\h400, 0>>, 1)

xtensa_hifi ==
    Port(\hFD01, Thirds(<<0, 0>>, 4 * MiB), <<0, 0>>, <<\h40, 0>>, 0)

-----------------------------------------------------------------------------
(* Ports with drivers.                                                     *)

am64x_flash == "inert"
cortex_r5_flash == "inert"
esp32_flash == "inert"
imx8m_flash == "inert"
qemu_arm64_flash == "inert"
riscv64_virt_flash == "memory"
rpi4_flash == "failing"
samd51_flash == "inert"
sifive_u_flash == "inert"
stm32f4_flash == "sectors"
stm32mp1_flash == "inert"
x86_flash == "window"
x86_64_efi_flash == "failing"

\* The layout of a port that has flash operations, and says how large its slots are.
WithDriver(layout, driver, size, second, log) ==
    [layout EXCEPT !.driver = driver, !.size = size,
                   !.start.backup = second, !.start.log = log]

am64x ==
    WithDriver(Layout(<<\h5000, 0>>, 64 * MiB, \h200000, \h1200000, \h2200000, \h2F00000),
               am64x_flash, Sizes(16 * MiB, 16 * MiB, 8 * MiB), Unset(<<\h5000, 0>>), Unset(<<\h5000, 0>>))

cortex_r5 ==
    WithDriver(Layout(<<\h20, 0>>, 2 * MiB, \h10000, \h80000, \hF0000, \hF4000),
               cortex_r5_flash, Sizes(448 * KiB, 448 * KiB, 16 * KiB), \hF6000, \hF8000)

esp32 ==
    WithDriver(Layout(<<0, 0>>, 4 * MiB, \h10000, \h190000, \h310000, \h3F0000),
               esp32_flash, Sizes(1536 * KiB, 1536 * KiB, 512 * KiB), Unset(<<0, 0>>), Unset(<<0, 0>>))

imx8m ==
    WithDriver(Layout(<<\h800, 0>>, 64 * MiB, \h100000, \h1100000, \h2100000, \h2F00000),
               imx8m_flash, Sizes(16 * MiB, 16 * MiB, 8 * MiB), Unset(<<\h800, 0>>), Unset(<<\h800, 0>>))

qemu_arm64 ==
    WithDriver(Layout(<<0, 0>>, 64 * MiB, \h200000, \h1A00000, Unset(<<0, 0>>), \h3F00000),
               qemu_arm64_flash, Sizes(24 * MiB, 24 * MiB, 0), Unset(<<0, 0>>), Unset(<<0, 0>>))

riscv64_virt ==
    WithDriver(Layout(<<\h2000, 0>>, 32 * MiB, \h100000, \h900000, \h1100000, \h1F00000),
               riscv64_virt_flash, Sizes(8 * MiB, 8 * MiB, 4 * MiB), Unset(<<\h2000, 0>>), Unset(<<\h2000, 0>>))

rpi4 ==
    WithDriver(Layout(<<0, 0>>, 0, \h80000, \h2080000, \h4080000, \h6000000),
               rpi4_flash, Sizes(32 * MiB, 32 * MiB, 16 * MiB), \h3FF80000, \h3FFC0000)

samd51 ==
    WithDriver(Layout(<<0, 0>>, 512 * KiB, \h10000, \h48000, \h7C000, \h7E000),
               samd51_flash, Sizes(224 * KiB, 224 * KiB, 8 * KiB), Unset(<<0, 0>>), Unset(<<0, 0>>))

sifive_u ==
    WithDriver(Layout(<<\h2000, 0>>, 32 * MiB, \h200000, \hA00000, \h1200000, \h1F00000),
               sifive_u_flash, Sizes(8 * MiB, 8 * MiB, 4 * MiB), Unset(<<\h2000, 0>>), Unset(<<\h2000, 0>>))

stm32f4 ==
    WithDriver(Layout(<<\h800, 0>>, 1 * MiB, \h20000, \h60000, \hA0000, \hC0000),
               stm32f4_flash, Sizes(256 * KiB, 256 * KiB, 128 * KiB), \hE0000, \h10000)

stm32mp1 ==
    WithDriver(Layout(<<0, 0>>, 0, \h100000, \h4100000, Unset(<<0, 0>>), \h9100000),
               stm32mp1_flash, Sizes(64 * MiB, 64 * MiB, 0), Unset(<<0, 0>>), Unset(<<0, 0>>))

\* The slots of this port lie below its flash base.
x86 ==
    Port(\hE01,
         WithDriver(Layout(<<\hFFF0, 0>>, 16 * MiB, -\hEC0000, -\h8C0000, -\h2C0000, -\h1000),
                    x86_flash, Sizes(0, 0, 0), Unset(<<\hFFF0, 0>>), Unset(<<\hFFF0, 0>>)),
         <<\h10, 0>>, <<\h400, 0>>, 1)

x86_64_efi ==
    WithDriver(Layout(<<0, 0>>, 0, \h100000, \h4100000, \h8100000, \hA100000),
               x86_64_efi_flash, Sizes(64 * MiB, 64 * MiB, 32 * MiB), Unset(<<0, 0>>), Unset(<<0, 0>>))

AllPorts ==
    {i8051, alpha, arc, arm11, arm7tdmi, arm9, avr, avr32, blackfin, c166,
     c28x, c6000, ceva, cortex_a15, cortex_a35, cortex_a5, cortex_a55,
     cortex_a76, cortex_a9, cortex_m0, cortex_m0plus, cortex_m23, cortex_m3,
     cortex_m33, cortex_m55, cortex_m85, cortex_r4, cortex_r52, cris, dspic,
     esp32c3, esp32s3, frv, h8300, hexagon, ia64, kalimba, lm32, loongarch,
     m68k, microblaze, mips, mips64, mn103, msp430, nios2, nrf52, openrisc,
     parisc, pic16, pic18, pic24, pic32, powerpc, ppc64, pru, riscv32, rl78,
     rx, s390, sh4, sharc, sparc, sparc64, stm32h7, strongarm, tricore, v850,
     xscale, xtensa_hifi, am64x, cortex_r5, esp32, imx8m, qemu_arm64,
     riscv64_virt, rpi4, samd51, sifive_u, stm32f4, stm32mp1, x86, x86_64_efi}

=============================================================================

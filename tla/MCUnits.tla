------------------------------ MODULE MCUnits ------------------------------
(***************************************************************************)
(* The parts of the boot loader that keep to themselves, side by side for  *)
(* TLC: a behaviour is one of exactly one of them, chosen at the start, so *)
(* that their state spaces add up and do not multiply.  The device table   *)
(* and the flash of a board are two parts: they share only the registry.   *)
(***************************************************************************)
EXTENDS BootCtl, BootLog, SecureBoot, Boards, ImageCheck, Streams, Multicore, Services, Mpu, Fdt

VARIABLE unit       \* the part that this behaviour is about

unitVars == <<unit, ctlVars, logVars, keyVars, boardVars, imageVars, streamVars, mcVars,
              svcVars, mpuVars, fdtVars>>

Units == {"bootctl", "log", "keys", "boards", "table", "image", "streams", "cores", "services",
          "mpu", "fdt"}

-----------------------------------------------------------------------------
(* Values of the constants.                                                *)

\* Every single port, and three ports in one image that share an identifier or flash.
EveryBuild == {{p} : p \in AllPorts} \cup {{samd51, esp32, alpha}}

SomeEvents == {{0}, {1}, {0, 1}}

\* A slot with room around it and one that ends just below the end of memory.
TwoSlotPlaces == {<<9, 7>>, <<4, 11>>}

\* The heap beside, and inside, the megabyte of the task stacks.
TwoRtosConfigs ==
    {[entry |-> 8200, stack |-> 32790, heap_start |-> h, heap_size |-> 24, mode |-> m] :
        h \in {32832, 32800}, m \in {"DISABLED", "PRIVILEGED", "PROTECTED"}}

OneExtraRegion == {MpuRegion(6 * 4096, 5, "FULL_RW", FALSE)}

TreeNames == {<<"soc", "">>, <<"uart", "1">>, <<"uart", "2">>}

TreePaths ==
    {<<>>, << <<"uart", "">> >>, << <<"soc", "">>, <<"uart", "">> >>,
     << <<"soc", "">>, <<"uart", "2">> >>}

-----------------------------------------------------------------------------
(* One initial state for each part that is not looked at.                  *)

CtlAside ==
    /\ primary = CtlDefaults /\ backup = CtlDefaults /\ durable = CtlDefaults
    /\ bctl = CtlDefaults /\ pc = "off" /\ rc = "EOS_OK" /\ faults = 0

KeysAside ==
    LET blank == [s \in KeySlots |-> "blank"]
    IN  /\ otp = [present |-> FALSE, key |-> blank, revoke |-> {}, locked |-> FALSE]
        /\ ks = [rc |-> "KEY", key |-> blank, valid |-> {}, revoked |-> {}, active |-> 0]
        /\ sboot = [by |-> "nobody", result |-> "none", attest |-> <<>>, lock |-> FALSE,
                    signed |-> FALSE, trusted |-> FALSE, staged |-> FALSE]
        /\ retired = {}

BoardsAside ==
    /\ built = {samd51}
    /\ registry = <<>> /\ g_ops = NoBoard
    /\ flash = [r \in Regions |-> "data"] /\ flashOp = NoOp
    /\ table = NoTable /\ sealed = NoTable

ImageAside ==
    /\ hdr = [known |-> FALSE, hdr_size |-> 0, image_size |-> 0, load_addr |-> 0,
              entry_addr |-> 0, tlv_len |-> 0]
    /\ slot = <<9, 7>> /\ verdict = "unread" /\ tlv = NoTlv

StreamsAside ==
    algo = "sha256" /\ size = 0 /\ ctx = FreshContext("sha256") /\ outcome = "running"

CoresAside ==
    /\ core_table = [c \in Cores |-> [cfg |-> Unconfigured, state |-> "OFF"]]
    /\ ops = [start |-> FALSE, stop |-> FALSE, reset |-> FALSE]
    /\ core = [c \in Cores |-> Idle]
    /\ content = [s \in McSlots |->
                    [shaped |-> FALSE, intact |-> FALSE, signed |-> FALSE, entry |-> 0]]
    /\ rewrites = 0

FdtAside ==
    /\ walk = [path |-> <<>>, depth |-> 0, matched |-> 0, in_target |-> FALSE,
               target_depth |-> -1]
    /\ found = "called" /\ open = <<>> /\ skipped = FALSE

Init ==
    /\ unit \in Units
    /\ LogInit /\ SvcInit /\ MpuInit
    /\ IF unit = "bootctl" THEN CtlInit     ELSE CtlAside
    /\ IF unit = "keys"    THEN KeyInit     ELSE KeysAside
    /\ IF unit \in {"boards", "table"} THEN BoardsInit ELSE BoardsAside
    /\ IF unit = "image"   THEN ImageInit   ELSE ImageAside
    /\ IF unit = "streams" THEN StreamsInit ELSE StreamsAside
    /\ IF unit = "cores"   THEN McInit      ELSE CoresAside
    /\ IF unit = "fdt"     THEN FdtInit     ELSE FdtAside

-----------------------------------------------------------------------------

\* The parts other than the chosen one stand still.
Only(u) ==
    /\ unit = u /\ UNCHANGED unit
    /\ u # "bootctl"  => UNCHANGED ctlVars
    /\ u # "log"      => UNCHANGED logVars
    /\ u # "keys"     => UNCHANGED keyVars
    /\ u \notin {"boards", "table"} => UNCHANGED boardVars
    /\ u # "image"    => UNCHANGED imageVars
    /\ u # "streams"  => UNCHANGED streamVars
    /\ u # "cores"    => UNCHANGED mcVars
    /\ u # "services" => UNCHANGED svcVars
    /\ u # "mpu"      => UNCHANGED mpuVars
    /\ u # "fdt"      => UNCHANGED fdtVars

Next ==
    \/ Only("bootctl") /\ CtlNext
    \/ Only("log") /\ LogNext
    \/ Only("keys") /\ KeyNext
    \/ Only("boards") /\ (RegistryNext \/ FlashNext)
    \/ Only("table") /\ (RegistryNext \/ TableNext)
    \/ Only("image") /\ ImageNext
    \/ Only("streams") /\ StreamsNext
    \/ Only("cores") /\ McNext
    \/ Only("services") /\ SvcNext
    \/ Only("mpu") /\ MpuNext
    \/ Only("fdt") /\ FdtNext

Spec == Init /\ [][Next]_unitVars

\* The variables of the chosen part stay in their types; the others do not move.
UnitsTypeOK ==
    /\ unit \in Units
    /\ unit = "bootctl"  => CtlTypeOK
    /\ unit = "log"      => LogTypeOK
    /\ unit = "keys"     => KeyTypeOK
    /\ unit \in {"boards", "table"} => BoardsTypeOK
    /\ unit = "image"    => ImageTypeOK
    /\ unit = "streams"  => StreamsTypeOK
    /\ unit = "cores"    => McTypeOK
    /\ unit = "services" => SvcTypeOK
    /\ unit = "mpu"      => MpuTypeOK
    /\ unit = "fdt"      => FdtTypeOK

=============================================================================

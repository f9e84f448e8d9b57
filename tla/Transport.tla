----------------------------- MODULE Transport -----------------------------
(***************************************************************************)
(* One firmware transfer over a UART (core/fw_transport_uart.c): a sender, *)
(* a line that loses and damages what it carries, and the receiver of the  *)
(* raw, XMODEM or YMODEM protocol feeding the update context of FwUpdate.  *)
(*                                                                         *)
(* Units of the file are numbered from 1 and are their own contents, so    *)
(* the order and the origin of everything in flash can be seen; Pad is     *)
(* what fills up a block.                                                  *)
(***************************************************************************)
EXTENDS FwUpdate

CONSTANTS
  File,             \* the files a sender may offer
  Protocols,        \* subset of {"raw", "xmodem", "ymodem"}
  Chunk,            \* UART_RAW_CHUNK
  SmallBlock,       \* XMODEM_BLOCK_SIZE
  BigBlock,         \* YMODEM_BLOCK_SIZE
  BlkMod,           \* block numbers are counted modulo this (256)
  MaxTrouble        \* bound on what goes wrong on the line

(* len is the file's real length, declared the size YMODEM block 0 gives.  *)
ASSUME FileAssumption ==
  \A f \in File : /\ f \in [magic : BOOLEAN, image_size : Nat, tlv_len : Nat,
                             len : Nat, declared : Nat]

ASSUME LineAssumption ==
  /\ Protocols \subseteq {"raw", "xmodem", "ymodem"}
  /\ {Chunk, SmallBlock, BigBlock} \subseteq Nat \ {0}
  /\ SmallBlock <= BigBlock
  /\ BlkMod \in Nat \ {0, 1}
  /\ MaxTrouble \in Nat

Pad == 0
Running == "RUNNING"

VARIABLES
  proto,        \* the protocol both sides use
  file,         \* the file offered
  snd,          \* sender: phase, units acknowledged, units and number of its block
  toRcv,        \* frames on their way to the receiver
  toSnd,        \* answers on their way to the sender
  rcv,          \* receiver: locals of the receive function, rc when it returned
  ctx,          \* the update context
  trouble,      \* what went wrong on the line so far
  spoilt        \* the transfer met trouble the protocol cannot recover from

vars == <<proto, file, snd, toRcv, toSnd, rcv, ctx, trouble, spoilt>>

Frame(kind, blk, data) == [kind |-> kind, blk |-> blk, data |-> data, intact |-> TRUE]

(* ops->receive() of each protocol has just been called and, for the two   *)
(* block protocols, has sent 'C'.                                          *)
Init ==
  /\ proto \in Protocols
  /\ file \in File
  /\ snd = [phase |-> "start", off |-> 0, n |-> 0, blk |-> 0]
  /\ toRcv = <<>>
  /\ toSnd = IF proto = "raw" THEN <<>> ELSE <<"C">>
  /\ rcv = [expected_blk |-> IF proto = "xmodem" THEN 1 ELSE 0, first_block |-> TRUE,
            file_size |-> 0, total_received |-> 0, rc |-> Running]
  /\ ctx = eos_fw_update_begin
  /\ trouble = 0
  /\ spoilt = FALSE

-----------------------------------------------------------------------------
(* The receiver.                                                           *)

Receiving(p) == rcv.rc = Running /\ proto = p /\ toRcv # <<>>

fr == Head(toRcv)

Take == toRcv' = Tail(toRcv)

Answer(a) == toSnd' = toSnd \o a

Return(rc) == rcv' = [rcv EXCEPT !.rc = rc]

Wanted == eos_fw_update_bytes_wanted(file, ctx)

(* The state whose flash write fails, if any; a failure is trouble too.    *)
FlashOutcome == {"none", "HEADER", "PAYLOAD", "TLV"}

FlashReported(failing, rc) ==
  \/ failing = "none" /\ UNCHANGED <<trouble, spoilt>>
  \/ /\ failing # "none"
     /\ rc = "EOS_ERR_FLASH"
     /\ trouble < MaxTrouble
     /\ trouble' = trouble + 1
     /\ spoilt' = TRUE

(* One pass of the loop of write_container_bytes().                        *)
ContainerPass(p, data, failing) ==
  LET wanted == eos_fw_update_bytes_wanted(file, p.ctx)
      n == Lesser(Len(data) - p.used, wanted)
      w == eos_fw_update_write(file, p.ctx, SubSeq(data, p.used + 1, p.used + n), failing)
  IN  IF p.rc # "EOS_OK" \/ n = 0 THEN p
      ELSE [ctx |-> w.ctx, used |-> p.used + n, rc |-> w.rc]

(* The outcomes of write_container_bytes().  The first pass may end with   *)
(* the header, the second takes all the rest of the container, a third     *)
(* finds nothing to do.                                                    *)
NoPass == [ctx |-> ctx, used |-> 0, rc |-> "EOS_OK"]

write_container_bytes(data, failing) ==
  {ContainerPass(p, data, failing) : p \in {ContainerPass(NoPass, data, failing)}}

(* What the two block protocols do with the data of the block they expect. *)
Deliver(data) ==
  \E failing \in FlashOutcome : \E w \in write_container_bytes(data, failing) :
    /\ FlashReported(failing, w.rc)
    /\ ctx' = w.ctx
    /\ IF w.rc = "EOS_OK"
       THEN /\ Answer(<<"ACK">>)
            /\ rcv' = [rcv EXCEPT !.expected_blk = (@ + 1) % BlkMod,
                                  !.total_received = @ + Len(data)]
       ELSE Answer(<<"CAN">>) /\ Return(w.rc)

Refuse(a) == Answer(<<a>>) /\ UNCHANGED <<rcv, ctx, trouble, spoilt>>

GiveUp(a, rc) == Answer(a) /\ Return(rc) /\ UNCHANGED <<ctx, trouble, spoilt>>

(* End of transmission: acknowledged in any case, but a success only when  *)
(* the container is complete.                                              *)
(* (EotResult_Trusting takes the sender's word for it.)                    *)
EotResult_Trusting(wanted) == IF wanted # 0 THEN "EOS_OK" ELSE "EOS_OK"

EotResult(wanted) == IF wanted # 0 THEN "EOS_ERR_INVALID" ELSE "EOS_OK"

Ended(answers) ==
  \/ fr.kind = "EOT" /\ GiveUp(answers, EotResult(Wanted))
  \/ fr.kind = "CAN" /\ GiveUp(<<>>, "EOS_ERR_GENERIC")
  \/ fr.kind = "noise" /\ UNCHANGED <<toSnd, rcv, ctx, trouble, spoilt>>

(* (Expected_Any does not look at the number of the block.)                *)
Expected_Any == fr.intact

Expected == fr.intact /\ fr.blk = rcv.expected_blk

xmodem_receive ==
  /\ Receiving("xmodem")
  /\ Take
  /\ \/ Ended(<<"ACK">>)
     \/ /\ fr.kind = "SOH"
        /\ \/ ~Expected /\ Refuse("NAK")
           \/ Expected /\ Wanted = 0 /\ GiveUp(<<"CAN">>, "EOS_ERR_INVALID")
           \/ Expected /\ Wanted # 0 /\ Deliver(fr.data)
  /\ UNCHANGED <<proto, file, snd>>

(* YMODEM block 0 brings the size of the file; without one the receiver    *)
(* cannot tell the file from padding.                                      *)
BlockZero ==
  \/ /\ fr.blk # 0
     /\ Refuse("NAK")
  \/ /\ fr.blk = 0
     /\ file.declared = 0
     /\ GiveUp(<<"CAN">>, "EOS_ERR_INVALID")
  \/ /\ fr.blk = 0
     /\ file.declared # 0
     /\ rcv' = [rcv EXCEPT !.first_block = FALSE, !.expected_blk = 1,
                           !.file_size = file.declared]
     /\ Answer(<<"ACK", "C">>)
     /\ UNCHANGED <<ctx, trouble, spoilt>>

(* (Repeated_Never does not recognise a block that was sent again.)        *)
Repeated_Never(blk) == FALSE

Repeated(blk) == blk = (rcv.expected_blk - 1) % BlkMod

FileLen == Lesser(Len(fr.data), rcv.file_size - rcv.total_received)

DataBlock ==
  \/ Repeated(fr.blk) /\ Refuse("ACK")
  \/ ~Repeated(fr.blk) /\ ~Expected /\ Refuse("NAK")
  \/ /\ ~Repeated(fr.blk) /\ Expected
     /\ Wanted = 0 \/ FileLen = 0
     /\ GiveUp(<<"CAN">>, "EOS_ERR_INVALID")
  \/ /\ ~Repeated(fr.blk) /\ Expected
     /\ Wanted # 0 /\ FileLen # 0
     /\ Deliver(SubSeq(fr.data, 1, FileLen))

ymodem_receive ==
  /\ Receiving("ymodem")
  /\ Take
  /\ \/ Ended(IF rcv.first_block THEN <<"ACK">> ELSE <<"ACK", "C">>)
     \/ /\ fr.kind \in {"SOH", "STX"}
        /\ \/ ~fr.intact /\ Refuse("NAK")
           \/ fr.intact /\ rcv.first_block /\ BlockZero
           \/ fr.intact /\ ~rcv.first_block /\ DataBlock
  /\ UNCHANGED <<proto, file, snd>>

(* The raw protocol: a length, then chunks.  Here file_size is total_len   *)
(* and total_received is what was read of it.                              *)
RawLength ==
  /\ fr.kind = "LEN"
  /\ \/ /\ file.len = 0 \/ file.len > SlotSize
        /\ GiveUp(<<"NAK">>, "EOS_ERR_FULL")
     \/ /\ file.len # 0 /\ file.len <= SlotSize
        /\ rcv' = [rcv EXCEPT !.file_size = file.len]
        /\ UNCHANGED <<toSnd, ctx, trouble, spoilt>>

RawDone == rcv.total_received + Len(fr.data) = rcv.file_size

RawChunk ==
  /\ fr.kind = "DATA"
  /\ \E failing \in FlashOutcome :
       LET w == eos_fw_update_write(file, ctx, fr.data, failing)
           whole == eos_fw_update_bytes_wanted(file, w.ctx) = 0
       IN  /\ FlashReported(failing, w.rc)
           /\ ctx' = w.ctx
           /\ \/ w.rc # "EOS_OK" /\ Answer(<<"NAK">>) /\ Return(w.rc)
              \/ /\ w.rc = "EOS_OK" /\ ~RawDone
                 /\ rcv' = [rcv EXCEPT !.total_received = @ + Len(fr.data)]
                 /\ UNCHANGED toSnd
              \/ /\ w.rc = "EOS_OK" /\ RawDone
                 /\ Answer(IF whole THEN <<"ACK">> ELSE <<"NAK">>)
                 /\ Return(IF whole THEN "EOS_OK" ELSE "EOS_ERR_INVALID")

uart_raw_receive ==
  /\ Receiving("raw")
  /\ Take
  /\ RawLength \/ RawChunk
  /\ UNCHANGED <<proto, file, snd>>

(* eos_hal_uart_recv() times out: because nothing comes any more, or while *)
(* the sender is still at it, perhaps in the middle of a frame.            *)
ReceiveTimeout ==
  /\ rcv.rc = Running
  /\ Return("EOS_ERR_TIMEOUT")
  /\ Answer(IF proto = "raw" /\ rcv.file_size # 0 THEN <<"NAK">> ELSE <<>>)
  /\ UNCHANGED <<proto, file, snd, toRcv, ctx>>

SenderSilent ==
  /\ toRcv = <<>> /\ snd.phase = "done"
  /\ ReceiveTimeout
  /\ UNCHANGED <<trouble, spoilt>>

SenderSlow ==
  /\ snd.phase # "done"
  /\ trouble < MaxTrouble
  /\ ReceiveTimeout
  /\ trouble' = trouble + 1
  /\ spoilt' = TRUE

(* eos_fw_transport_update() drops the context of a transfer that failed.  *)
TransportUpdateFails ==
  /\ rcv.rc \notin {Running, "EOS_OK"}
  /\ ctx.state # "IDLE"
  /\ ctx' = eos_fw_update_abort(ctx)
  /\ UNCHANGED <<proto, file, snd, toRcv, toSnd, rcv, trouble, spoilt>>

-----------------------------------------------------------------------------
(* The sender.  It keeps one block outstanding and sends it again when it  *)
(* is refused or no answer comes; 'C' matters only at the start.           *)

Sending == rcv.rc = Running /\ snd.phase # "done"

Blocks == IF proto = "ymodem" THEN {SmallBlock, BigBlock} ELSE {SmallBlock}

Unit(k) == IF k <= file.len THEN k ELSE Pad

(* What the sender has outstanding in state s.                             *)
FrameOf(s) ==
  CASE s.phase = "zero" -> Frame("SOH", 0, <<>>)
    [] s.phase = "data" ->
         Frame(IF s.n = BigBlock THEN "STX" ELSE "SOH", s.blk,
               [k \in 1..s.n |-> Unit(s.off + k)])
    [] s.phase = "eot" -> Frame("EOT", 0, <<>>)

DataOrEot(off, blk) ==
  IF off < file.len
  THEN {[phase |-> "data", off |-> off, n |-> n, blk |-> blk] : n \in Blocks}
  ELSE {[phase |-> "eot", off |-> off, n |-> 0, blk |-> 0]}

(* The states of the sender after its outstanding frame was acknowledged.  *)
NextSend ==
  CASE snd.phase = "start" /\ proto = "xmodem" -> DataOrEot(0, 1)
    [] snd.phase = "start" /\ proto = "ymodem" -> {[snd EXCEPT !.phase = "zero"]}
    [] snd.phase = "zero" -> DataOrEot(0, 1)
    [] snd.phase = "data" -> DataOrEot(snd.off + snd.n, (snd.blk + 1) % BlkMod)
    [] snd.phase = "eot" -> {[snd EXCEPT !.phase = "done"]}

Send(s) ==
  /\ snd' = s
  /\ toRcv' = IF s.phase = "done" THEN toRcv ELSE Append(toRcv, FrameOf(s))

SenderReads ==
  /\ Sending /\ proto # "raw" /\ toSnd # <<>>
  /\ toSnd' = Tail(toSnd)
  /\ LET a == Head(toSnd) IN
     \/ /\ IF snd.phase = "start" THEN a = "C" ELSE a = "ACK"
        /\ \E s \in NextSend : Send(s)
     \/ a = "NAK" /\ snd.phase # "start" /\ Send(snd)
     \/ a = "CAN" /\ Send([snd EXCEPT !.phase = "done"])
     \/ a = "C" /\ snd.phase # "start" /\ UNCHANGED <<snd, toRcv>>
  /\ UNCHANGED <<proto, file, rcv, ctx, trouble, spoilt>>

SenderTimeout ==
  /\ Sending /\ proto # "raw" /\ snd.phase # "start"
  /\ toRcv = <<>> /\ toSnd = <<>>
  /\ Send(snd)
  /\ UNCHANGED <<proto, file, toSnd, rcv, ctx, trouble, spoilt>>

(* Raw: the length first, then the file, with no answer until the end.     *)
RawSend ==
  /\ Sending /\ proto = "raw" /\ toRcv = <<>>
  /\ IF snd.phase = "start"
     THEN /\ toRcv' = <<Frame("LEN", 0, <<>>)>>
          /\ snd' = [snd EXCEPT !.phase = "data"]
     ELSE LET n == Lesser(Chunk, file.len - snd.off) IN
          /\ toRcv' = <<Frame("DATA", 0, [k \in 1..n |-> snd.off + k])>>
          /\ snd' = [snd EXCEPT !.off = @ + n,
                                !.phase = IF snd.off + n = file.len THEN "done" ELSE "data"]
  /\ UNCHANGED <<proto, file, toSnd, rcv, ctx, trouble, spoilt>>

-----------------------------------------------------------------------------
(* The line.                                                               *)

Trouble ==
  /\ rcv.rc = Running
  /\ trouble < MaxTrouble
  /\ trouble' = trouble + 1
  /\ UNCHANGED <<proto, file, rcv, ctx>>

DamageFrame ==
  /\ Trouble
  /\ proto # "raw" /\ toRcv # <<>> /\ fr.kind \in {"SOH", "STX"}
  /\ toRcv' = [toRcv EXCEPT ![1].intact = FALSE]
  /\ UNCHANGED <<snd, toSnd, spoilt>>

LoseFrame ==
  /\ Trouble
  /\ proto # "raw" /\ toRcv # <<>>
  /\ toRcv' \in {Tail(toRcv), <<Frame("noise", 0, <<>>)>> \o Tail(toRcv)}
  /\ UNCHANGED <<snd, toSnd, spoilt>>

(* An XMODEM block whose ACK is lost is sent again under a number the      *)
(* receiver no longer expects; it refuses it for ever.                     *)
LoseAnswer ==
  /\ Trouble
  /\ proto # "raw" /\ snd.phase # "start" /\ toSnd # <<>>
  /\ toSnd' = Tail(toSnd)
  /\ spoilt' = (spoilt \/ (proto = "xmodem" /\ Head(toSnd) = "ACK"))
  /\ UNCHANGED <<snd, toRcv>>

(* The sender's clock runs out while the frame or its answer is under way. *)
EarlyTimeout ==
  /\ Trouble
  /\ proto # "raw" /\ snd.phase \notin {"start", "done"}
  /\ toRcv # <<>> \/ toSnd # <<>>
  /\ Send(snd)
  /\ spoilt' = TRUE
  /\ UNCHANGED toSnd

(* The sender is cancelled, or stops without a word.                       *)
SenderStops ==
  /\ Trouble
  /\ snd.phase # "done"
  /\ snd' = [snd EXCEPT !.phase = "done"]
  /\ toRcv' \in {toRcv} \union (IF proto = "raw" THEN {}
                                ELSE {Append(toRcv, Frame("CAN", 0, <<>>))})
  /\ spoilt' = TRUE
  /\ UNCHANGED toSnd

-----------------------------------------------------------------------------
Receiver ==
  xmodem_receive \/ ymodem_receive \/ uart_raw_receive \/ SenderSilent

Sender == SenderReads \/ SenderTimeout \/ RawSend

Line == DamageFrame \/ LoseFrame \/ LoseAnswer \/ EarlyTimeout \/ SenderStops
        \/ SenderSlow

Next == Receiver \/ TransportUpdateFails \/ Sender \/ Line

Spec == Init /\ [][Next]_vars

(* The receiver polls the UART in a loop and the sender keeps trying; the  *)
(* line need not misbehave.                                                *)
FairSpec == Spec /\ WF_vars(Receiver) /\ WF_vars(Sender)

-----------------------------------------------------------------------------
(* No variable leaves its range; the counters of the context stay within   *)
(* the lengths the header declares.                                        *)
TypeOK ==
  /\ proto \in Protocols /\ file \in File
  /\ ctx.state \in States
  /\ Len(ctx.hdr_buf) <= HdrLen
  /\ ctx.payload_written \in 0..file.image_size
  /\ ctx.tlv_written \in 0..file.tlv_len
  /\ rcv.expected_blk \in 0..BlkMod - 1
  /\ rcv.total_received <= file.len + BigBlock
  /\ trouble \in 0..MaxTrouble /\ spoilt \in BOOLEAN

(* What reaches the flash is the file from its beginning, in order: no     *)
(* block twice and none skipped, whatever blocks and answers are lost,     *)
(* damaged or late (ymodem_receive(): "do not write it a second time"),    *)
(* and padding only where a file that is shorter than its container has    *)
(* ended.  The raw transport has no check of its own: damage there is left *)
(* to the verification of the image.                                       *)
Ascending(s) == \A k \in 1..Len(s) : s[k] = Unit(k)

FlashIsPrefix ==
  /\ Ascending(ctx.hdr_buf) /\ Ascending(ctx.flash)
  /\ proto = "raw" => Len(ctx.flash) <= file.len
  /\ proto = "ymodem" => Len(ctx.flash) <= file.declared

(* The context after n units of a container, however they were cut.        *)
StreamedTo(n) ==
  LET h == Lesser(n, HdrLen)
      p == Lesser(n - h, file.image_size)
  IN  [state |-> IF h < HdrLen THEN "HEADER"
                 ELSE IF p < file.image_size THEN "PAYLOAD"
                 ELSE IF n < ContainerLen(file) THEN "TLV" ELSE "VERIFY",
       hdr_buf |-> [k \in 1..h |-> Unit(k)],
       payload_written |-> p,
       tlv_written |-> n - h - p,
       total_received |-> n,
       flash |-> [k \in 1..(IF h < HdrLen THEN 0 ELSE n) |-> Unit(k)]]

(* Where the pieces were cut makes no difference: the context depends only *)
(* on how much of the container has arrived (eos_fw_update_write():        *)
(* "trailing bytes behave the same whether they share this call ...").     *)
CutIsIrrelevant ==
  ctx.state \in {"HEADER", "PAYLOAD", "TLV", "VERIFY"} =>
    ctx = StreamedTo(ctx.total_received)

(* A transfer that is reported as a success brought the whole container.   *)
SuccessIsWhole ==
  rcv.rc = "EOS_OK" => ctx.state = "VERIFY" /\ Len(ctx.flash) = ContainerLen(file)

(* Nothing is ever written beyond the end of the slot.                     *)
WithinSlot == Len(ctx.flash) <= SlotSize

(* A sender with a good file gets it across a line that loses and damages  *)
(* frames and answers now and then, unless it stops itself, answers arrive *)
(* too late, or flash fails.                                               *)
GoodFile ==
  /\ ParseHeader(file) = "EOS_OK"
  /\ file.len = ContainerLen(file)
  /\ file.declared >= file.len

Completes == GoodFile ~> (rcv.rc = "EOS_OK" \/ spoilt)
=============================================================================

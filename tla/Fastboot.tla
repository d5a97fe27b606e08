------------------------------- MODULE Fastboot -------------------------------
(***************************************************************************)
(* The fastboot protocol engine (fastboot/fastboot.c) on its USB transport *)
(* (fastboot/fastboot_usb.c).  The device is driven by callbacks: the USB  *)
(* stack's Run loop delivers the completions of queued transfers, in       *)
(* order, to fastboot_process_rx and fastboot_process_tx; each callback    *)
(* runs to its end.  The USB stack, the host and the pool allocator are    *)
(* external, modelled as the code uses them.                               *)
(***************************************************************************)
EXTENDS Naturals, Sequences

CONSTANTS
    Sizes,              \* sizes a host may announce with download:
    MAX_DOWNLOAD_SIZE,  \* fastboot.c: largest size accepted
    HeapSize,           \* what AllocatePool can hand out in all
    MaxDownloads,       \* bound: download commands of one session
    NVars,              \* published variables (getvar:all)
    Commands,           \* commands the host uses
    Faults              \* which of the outside world's parts may fail

ASSUME FastbootAssumption ==
    /\ Sizes \subseteq Nat \ {0}
    /\ MAX_DOWNLOAD_SIZE \in Nat
    /\ HeapSize \in Nat
    /\ MaxDownloads \in Nat
    /\ NVars \in Nat \ {0}
    /\ Commands \subseteq {"getvar", "getvar_all", "download", "flash",
                           "erase", "boot", "reboot", "other"}
    /\ Faults \subseteq {"unplug", "short", "boot", "exit", "media"}

States == {"OFFLINE", "COMMAND", "COMPLETE", "DOWNLOAD", "GETVAR"}

VARIABLES
    fastboot_state,
    rxq,            \* queued reads: "cmd" (command_buffer) or "data" (addr)
    txq,            \* queued writes: INFO, OKAY, FAIL or DATA responses
    evq,            \* completions the Run loop has not delivered yet
    var,            \* variables worker_getvar_all has still to print
    addr,           \* static addr: NULL, live or freed, with what it holds
    download_size,  \* static download_size
    heap,           \* pool memory in use
    host,           \* the program on the other end of the cable
    twice           \* history: a command of this session had two answers

vars == <<fastboot_state, rxq, txq, evq, var, addr, download_size, heap, host, twice>>
statics == <<addr, download_size, heap>>

Codes == {"INFO", "OKAY", "FAIL", "DATA"}
AnySize == Sizes \cup {0}
Messages ==
    [kind : {"cmd"}, cmd : Commands, size : AnySize]
        \cup [kind : {"data"}, cmd : {"data"}, size : AnySize]
Events == [dir : {"IN"}] \cup [dir : {"OUT"}, buf : {"cmd", "data"}, msg : Messages]

TypeOK ==
    /\ fastboot_state \in States
    /\ rxq \in Seq({"cmd", "data"})
    /\ txq \in Seq(Codes)
    /\ evq \in Seq(Events)
    /\ var \in 0 .. NVars
    /\ addr \in [ptr : {"NULL", "live", "freed"}, cap : AnySize, got : AnySize]
    /\ download_size \in AnySize
    /\ heap \in 0 .. HeapSize
    /\ host \in [pc : {"gone", "idle", "wait", "data"},
                 msg : Messages \cup {[kind |-> "none"]},
                 ready : BOOLEAN, downloads : 0 .. MaxDownloads]
    /\ twice \in BOOLEAN

Nothing == [kind |-> "none"]
NoBuffer == [ptr |-> "NULL", cap |-> 0, got |-> 0]
Unplugged ==
    [pc |-> "gone", msg |-> Nothing, ready |-> FALSE, downloads |-> 0]

\* fastboot_start has registered the commands and entered the Run loop.
Init ==
    /\ fastboot_state = "OFFLINE"
    /\ rxq = <<>> /\ txq = <<>> /\ evq = <<>>
    /\ var = 0
    /\ addr = NoBuffer /\ download_size = 0 /\ heap = 0
    /\ host = Unplugged
    /\ twice = FALSE

-----------------------------------------------------------------------------
(***************************************************************************)
(* Pieces of a callback.  usb_write and usb_read queue one transfer.  The  *)
(* value they return is 0 or 1 (EFI_ERROR), never negative, so the tests   *)
(* for < 0 that lead to STATE_ERROR never succeed and the state does not   *)
(* exist here; queuing a transfer is taken to succeed.                     *)
(***************************************************************************)
usb_write(code) == txq' = Append(txq, code)
usb_read(buf) == rxq' = Append(rxq, buf)

\* The reason text is built first; that is taken to succeed too.
fastboot_ack(code) == usb_write(code)

\* fastboot_okay and fastboot_fail.
Final(code) == fastboot_ack(code) /\ fastboot_state' = "COMPLETE"

fastboot_read_command == usb_read("cmd")

\* The host configures the device: a bus reset drops what was in flight.
StartCallback ==
    /\ host.pc = "gone" \/ "unplug" \in Faults
    /\ fastboot_state' = "COMPLETE"
    /\ rxq' = <<"cmd">> /\ txq' = <<>> /\ evq' = <<>>
    /\ host' = [host EXCEPT !.pc = "idle", !.msg = Nothing, !.ready = FALSE]
    /\ twice' = FALSE
    /\ UNCHANGED <<var, statics>>

-----------------------------------------------------------------------------
(***************************************************************************)
(* The command handlers.  Each runs in fastboot_process_rx with the state  *)
(* set to STATE_COMMAND and the completed read consumed.                   *)
(***************************************************************************)
\* Images that are flashed, erased or booted may be refused.
MediaAnswers == IF "media" \in Faults THEN {"OKAY", "FAIL"} ELSE {"OKAY"}

CmdFlashOrErase ==
    /\ \E code \in MediaAnswers : Final(code)
    /\ UNCHANGED <<rxq, var, statics, host, twice>>

\* A mutant: no break after the handler, and the command is also unknown.
CmdGetvar_NoBreak ==
    /\ fastboot_state' = "COMPLETE"
    /\ txq' = txq \o <<"OKAY", "FAIL">>
    /\ UNCHANGED <<rxq, var, statics, host, twice>>

\* A single variable: known or not, the answer is OKAY.
CmdGetvar ==
    /\ Final("OKAY")
    /\ UNCHANGED <<rxq, var, statics, host, twice>>

\* worker_getvar_all(varlist): the first variable; its completion asks for
\* the next.
CmdGetvarAll ==
    /\ fastboot_state' = "GETVAR"
    /\ fastboot_ack("INFO")
    /\ var' = NVars - 1
    /\ UNCHANGED <<rxq, statics, host, twice>>

CmdUnknown ==
    /\ Final("FAIL")
    /\ UNCHANGED <<rxq, var, statics, host, twice>>

AllocatePool(sz) == heap + sz <= HeapSize

\* FreePool(addr).  A pointer that is NULL or was freed gives nothing back.
FreePool ==
    /\ addr' = IF addr.ptr = "live" THEN [addr EXCEPT !.ptr = "freed", !.got = 0] ELSE addr
    /\ heap' = IF addr.ptr = "live" THEN heap - addr.cap ELSE heap

\* A mutant: STATE_DOWNLOAD is never entered, and fastboot_process_rx adds
\* "unknown reason".
CmdDownload_StateLost(sz) ==
    /\ sz <= MAX_DOWNLOAD_SIZE /\ AllocatePool(sz)
    /\ txq' = txq \o <<"DATA", "FAIL">>
    /\ fastboot_state' = "COMPLETE"
    /\ rxq' = Append(rxq, "data")
    /\ addr' = [ptr |-> "live", cap |-> sz, got |-> 0]
    /\ download_size' = sz
    /\ heap' = heap + sz
    /\ UNCHANGED <<var, host, twice>>

\* The size is stored before it is checked, and the host told to send before
\* the buffer is there: without one, FAIL follows DATA.  The previous buffer,
\* if any, is not freed.
CmdDownload(sz) ==
    /\ download_size' = sz
    /\ UNCHANGED <<var, host>>
    /\ \/ /\ sz > MAX_DOWNLOAD_SIZE
          /\ Final("FAIL")
          /\ UNCHANGED <<rxq, addr, heap, twice>>
       \/ /\ sz <= MAX_DOWNLOAD_SIZE
          /\ AllocatePool(sz)
          /\ usb_write("DATA")
          /\ fastboot_state' = "DOWNLOAD"
          /\ usb_read("data")
          /\ addr' = [ptr |-> "live", cap |-> sz, got |-> 0]
          /\ heap' = heap + sz
          /\ UNCHANGED twice
       \/ /\ sz <= MAX_DOWNLOAD_SIZE
          /\ ~AllocatePool(sz)
          /\ txq' = txq \o <<"DATA", "FAIL">>
          /\ fastboot_state' = "COMPLETE"
          /\ addr' = NoBuffer
          /\ twice' = TRUE
          /\ UNCHANGED <<rxq, heap>>

\* android_image_start_buffer returns and has freed the image.  It fails
\* before hooks->before_exit, and the answer is FAIL; or the memory map or
\* ExitBootServices fails after it, and the OKAY of boot_ok is queued already.
CmdBootFails ==
    /\ FreePool
    /\ UNCHANGED <<rxq, var, download_size, host>>
    /\ \/ "boot" \in Faults /\ Final("FAIL") /\ UNCHANGED twice
       \/ /\ "exit" \in Faults
          /\ txq' = txq \o <<"OKAY", "FAIL">>
          /\ fastboot_state' = "COMPLETE"
          /\ twice' = TRUE

\* The platform leaves the application: a reset, or a started kernel.
Leave ==
    /\ fastboot_state' = "OFFLINE"
    /\ rxq' = <<>> /\ txq' = <<>>
    /\ var' = 0
    /\ addr' = NoBuffer /\ download_size' = 0 /\ heap' = 0
    /\ host' = Unplugged
    /\ twice' = FALSE

Handle(m) ==
    CASE m.cmd \in {"flash", "erase"} -> CmdFlashOrErase
      [] m.cmd = "getvar"             -> CmdGetvar
      [] m.cmd = "getvar_all"         -> CmdGetvarAll
      [] m.cmd = "download"           -> CmdDownload(m.size)
      [] m.cmd = "boot"               -> CmdBootFails \/ Leave
      [] m.cmd = "reboot"             -> Leave
      [] OTHER                        -> CmdUnknown

-----------------------------------------------------------------------------
(***************************************************************************)
(* The data callback.                                                      *)
(***************************************************************************)
NextEvent(dir) ==
    /\ evq # <<>>
    /\ Head(evq).dir = dir
    /\ evq' = Tail(evq)

\* STATE_COMPLETE: whatever was read is looked up as a command.  Image data
\* is taken to spell none.
RxCommand ==
    /\ fastboot_state = "COMPLETE"
    /\ evq # <<>> /\ Head(evq).dir = "OUT"
    /\ Handle(Head(evq).msg)
    /\ evq' = IF fastboot_state' = "OFFLINE" THEN <<>> ELSE Tail(evq)

\* A mutant: whatever arrived is acknowledged.
RxData_LengthIgnored ==
    /\ fastboot_state = "DOWNLOAD"
    /\ NextEvent("OUT")
    /\ Final("OKAY")
    /\ addr' = [addr EXCEPT !.got = Head(evq).msg.size]
    /\ UNCHANGED <<rxq, var, download_size, heap, host, twice>>

\* STATE_DOWNLOAD: the length decides, whichever buffer was read into; a
\* mismatch drops the image.
RxData ==
    /\ fastboot_state = "DOWNLOAD"
    /\ NextEvent("OUT")
    /\ LET len == Head(evq).msg.size IN
       IF len = download_size
       THEN /\ Final("OKAY")
            /\ addr' = [addr EXCEPT !.got = IF Head(evq).buf = "data" THEN len ELSE @]
            /\ UNCHANGED <<download_size, heap>>
       ELSE /\ Final("FAIL")
            /\ download_size' = 0
            /\ FreePool
    /\ UNCHANGED <<rxq, var, host, twice>>

\* Any other state: the message "Inconsistent fastboot state", and neither a
\* response nor a read.
RxInconsistent ==
    /\ fastboot_state \notin {"DOWNLOAD", "COMPLETE"}
    /\ NextEvent("OUT")
    /\ UNCHANGED <<fastboot_state, rxq, txq, var, statics, host, twice>>

\* Mutants: the worker looks for the end of the list one completion late, or
\* ends without an answer.
TxGetvar_Late ==
    /\ fastboot_state = "GETVAR"
    /\ NextEvent("IN")
    /\ fastboot_ack("INFO") /\ var' = var - 1
    /\ UNCHANGED <<fastboot_state, rxq, statics, host, twice>>

TxGetvar_NoOkay ==
    /\ fastboot_state = "GETVAR"
    /\ NextEvent("IN")
    /\ IF var > 0
       THEN fastboot_ack("INFO") /\ var' = var - 1 /\ UNCHANGED fastboot_state
       ELSE fastboot_state' = "COMPLETE" /\ UNCHANGED <<var, txq>>
    /\ UNCHANGED <<rxq, statics, host, twice>>

\* fastboot_process_tx: the worker prints the next variable or ends.
TxGetvar ==
    /\ fastboot_state = "GETVAR"
    /\ NextEvent("IN")
    /\ IF var > 0
       THEN fastboot_ack("INFO") /\ var' = var - 1 /\ UNCHANGED fastboot_state
       ELSE Final("OKAY") /\ UNCHANGED var
    /\ UNCHANGED <<rxq, statics, host, twice>>

\* A mutant: every completed response is followed by a read.
TxComplete_AnyState ==
    /\ fastboot_state \in {"COMPLETE", "DOWNLOAD"}
    /\ NextEvent("IN")
    /\ fastboot_read_command
    /\ UNCHANGED <<fastboot_state, txq, var, statics, host, twice>>

TxComplete ==
    /\ fastboot_state = "COMPLETE"
    /\ NextEvent("IN")
    /\ fastboot_read_command
    /\ UNCHANGED <<fastboot_state, txq, var, statics, host, twice>>

TxDownload ==
    /\ fastboot_state = "DOWNLOAD"
    /\ NextEvent("IN")
    /\ UNCHANGED <<fastboot_state, rxq, txq, var, statics, host, twice>>

Device ==
    \/ RxCommand \/ RxData \/ RxInconsistent
    \/ TxGetvar \/ TxComplete \/ TxDownload

-----------------------------------------------------------------------------
(***************************************************************************)
(* The host: one command at a time, each answered before the next; an      *)
(* image is flashed or booted only after its download was acknowledged.    *)
(***************************************************************************)
HostCommand ==
    /\ host.pc = "idle"
    /\ \E c \in Commands, sz \in Sizes :
          /\ c \in {"flash", "boot"} => host.ready
          /\ c = "download" => host.downloads < MaxDownloads
          /\ host' = [host EXCEPT
                !.pc = "wait",
                !.msg = [kind |-> "cmd", cmd |-> c,
                         size |-> IF c = "download" THEN sz ELSE 0],
                !.ready = @ /\ c \notin {"download", "boot"},
                !.downloads = IF c = "download" THEN @ + 1 ELSE @]
    /\ UNCHANGED <<fastboot_state, rxq, txq, evq, var, statics, twice>>

\* A transfer to the device completes into the oldest queued read.
HostSend ==
    /\ host.msg # Nothing /\ rxq # <<>>
    /\ evq' = Append(evq, [dir |-> "OUT", buf |-> Head(rxq), msg |-> host.msg])
    /\ rxq' = Tail(rxq)
    /\ host' = [host EXCEPT !.msg = Nothing]
    /\ UNCHANGED <<fastboot_state, txq, var, statics, twice>>

\* The host reads the oldest response.  DATA makes it send the image, all of
\* it or, when the transfer breaks, less.
HostReceive ==
    /\ txq # <<>> /\ host.pc \in {"wait", "data"}
    /\ evq' = Append(evq, [dir |-> "IN"])
    /\ txq' = Tail(txq)
    /\ LET code == Head(txq)
           Sent == IF "short" \in Faults THEN {download_size, 0} ELSE {download_size}
       IN CASE code = "INFO" -> host' = host
            [] code = "DATA" ->
                 \E n \in Sent : host' = [host EXCEPT
                    !.pc = "data",
                    !.msg = [kind |-> "data", cmd |-> "data", size |-> n]]
            [] OTHER -> host' = [host EXCEPT
                    !.pc = "idle",
                    !.ready = @ \/ (host.pc = "data" /\ code = "OKAY")]
    /\ UNCHANGED <<fastboot_state, rxq, var, statics, twice>>

Host == HostCommand \/ HostSend \/ HostReceive

Next == StartCallback \/ Device \/ Host

Spec == Init /\ [][Next]_vars

\* The Run loop delivers every completion, and the host goes on with a
\* command it has started.
FairSpec == Spec /\ WF_vars(Device) /\ WF_vars(HostSend) /\ WF_vars(HostReceive)

-----------------------------------------------------------------------------
(***************************************************************************)
(* Properties.  A session in which a command had two answers - DATA and    *)
(* FAIL without memory for the image, OKAY and FAIL when ExitBootServices  *)
(* fails - is out of step until the next configuration: the code breaks    *)
(* each of these there.  They say that nothing else does.                  *)
(***************************************************************************)
InStep == ~twice

\* One read is outstanding at most, and it is the read the state expects:
\* command_buffer is never queued twice, and image data never lands in it.
ReadMatchesState ==
    InStep =>
        /\ Len(rxq) <= 1
        /\ rxq = <<"cmd">> => fastboot_state = "COMPLETE"
        /\ rxq = <<"data">> => fastboot_state = "DOWNLOAD"

\* The message "Inconsistent fastboot state" of fastboot_process_rx does not
\* appear: a completed read finds the engine waiting for one, and image data
\* is not looked up as a command.
RxConsistent ==
    InStep /\ evq # <<>> /\ Head(evq).dir = "OUT" =>
        LET m == Head(evq).msg IN
        fastboot_state = (IF m.kind = "data" THEN "DOWNLOAD" ELSE "COMPLETE")

\* A host between two commands has read every response: no other handler
\* answers twice, or with both a response and fastboot_process_rx's "unknown
\* reason".
NoStaleResponse == InStep /\ host.pc = "idle" => txq = <<>>

\* cmd_flash and cmd_boot find a live buffer that holds a complete image of
\* download_size bytes.
ImageComplete ==
    [][InStep /\ fastboot_state = "COMPLETE" /\ evq # <<>> /\ Head(evq).dir = "OUT"
         /\ evq' # evq /\ host.pc = "wait"
         /\ Head(evq).msg.cmd \in {"flash", "boot"}
       => addr.ptr = "live" /\ addr.got = download_size /\ addr.cap = download_size]_vars

\* Every command is answered, or the device leaves, or the cable goes.
EveryCommandAnswered ==
    InStep /\ host.pc = "wait" ~> host.pc \in {"idle", "gone"} \/ twice
=============================================================================

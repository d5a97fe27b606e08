---------------------------- MODULE FastbootProofs ----------------------------
(***************************************************************************)
(* Theorems about Fastboot, for any sizes, pool, commands, numbers of      *)
(* variables and faults.  All but the types speak of the sessions in which *)
(* no command had two answers (InStep): those that the code keeps in step. *)
(***************************************************************************)
EXTENDS Fastboot, SequenceTheorems, TLAPS

-----------------------------------------------------------------------------
(***************************************************************************)
(* The session has one token, which is a queued read, a completed read, a  *)
(* response on its way, its completion, or the image.                      *)
(***************************************************************************)
Queues(state, r, t, e) == fastboot_state = state /\ rxq = r /\ txq = t /\ evq = e

Sent == [dir |-> "IN"]
Read(b, m) == [dir |-> "OUT", buf |-> b, msg |-> m]

Quiet == host.msg = Nothing
Asking == host.msg # Nothing /\ host.msg.kind = "cmd"
Sending == host.msg # Nothing /\ host.msg.kind = "data"

Gone == Queues("OFFLINE", <<>>, <<>>, <<>>) /\ host.pc = "gone" /\ Quiet

\* The host is idle, or has a command for the device that it has not sent.
Between == (host.pc = "idle" /\ Quiet) \/ (host.pc = "wait" /\ Asking)

Reading == Queues("COMPLETE", <<"cmd">>, <<>>, <<>>) /\ Between
Answered == Queues("COMPLETE", <<>>, <<>>, <<Sent>>) /\ Between

\* The command has arrived.
Arrived ==
    /\ \E m \in Messages : Queues("COMPLETE", <<>>, <<>>, <<Read("cmd", m)>>) /\ m.kind = "cmd"
    /\ host.pc = "wait" /\ Quiet

Answering ==
    /\ \E code \in {"OKAY", "FAIL"} : Queues("COMPLETE", <<>>, <<code>>, <<>>)
    /\ host.pc \in {"wait", "data"} /\ Quiet

Listing ==
    /\ \/ Queues("GETVAR", <<>>, <<"INFO">>, <<>>)
       \/ Queues("GETVAR", <<>>, <<>>, <<Sent>>)
    /\ host.pc = "wait" /\ Quiet

\* The image is asked for, sent, and arrived.
DataAsked == Queues("DOWNLOAD", <<"data">>, <<"DATA">>, <<>>) /\ host.pc = "wait" /\ Quiet
DataToSend ==
    /\ \E e \in {<<>>, <<Sent>>} : Queues("DOWNLOAD", <<"data">>, <<>>, e)
    /\ host.pc = "data" /\ Sending
DataArrived ==
    /\ \E m \in Messages :
          /\ m.kind = "data"
          /\ \E e \in {<<Read("data", m)>>, <<Sent, Read("data", m)>>} :
                Queues("DOWNLOAD", <<>>, <<>>, e)
    /\ host.pc = "data" /\ Quiet

Token ==
    \/ Gone \/ Reading \/ Answered \/ Arrived \/ Answering \/ Listing
    \/ DataAsked \/ DataToSend \/ DataArrived

-----------------------------------------------------------------------------
(***************************************************************************)
(* The buffer: complete whenever the host may flash or boot it.            *)
(***************************************************************************)
Complete == addr.ptr = "live" /\ addr.got = download_size /\ addr.cap = download_size

\* The command on its way to the device.
Pending(cmds) ==
    \/ host.msg # Nothing /\ host.msg.cmd \in cmds
    \/ evq # <<>> /\ Head(evq).dir = "OUT" /\ Head(evq).msg.cmd \in cmds

BufferInv ==
    /\ host.ready \/ Pending({"flash", "boot"}) => Complete
    /\ Pending({"download", "boot"}) \/ fastboot_state = "DOWNLOAD" => ~host.ready
    /\ fastboot_state = "DOWNLOAD" => addr.ptr = "live" /\ addr.cap = download_size
    /\ host.pc = "data" /\ fastboot_state = "COMPLETE" /\ txq = <<"OKAY">> => Complete

\* A live buffer is part of the pool memory in use.
HeapInv == addr.ptr = "live" => addr.cap <= heap

Inv == TypeOK /\ HeapInv /\ (InStep => Token /\ BufferInv)

-----------------------------------------------------------------------------
LEMMA Short ==
  ASSUME NEW x, NEW y
  PROVE  /\ Append(<<>>, x) = <<x>> /\ Append(<<x>>, y) = <<x, y>>
         /\ Head(<<x>>) = x /\ Tail(<<x>>) = <<>>
         /\ Head(<<x, y>>) = x /\ Tail(<<x, y>>) = <<y>>
         /\ <<x>> # <<>> /\ <<x, y>> # <<>> /\ Len(<<x>>) = 1
  <1>1. <<x>> \in Seq({x, y}) /\ <<x, y>> \in Seq({x, y}) /\ Len(<<x>>) = 1 /\ Len(<<x, y>>) = 2
    OBVIOUS
  <1>2. Head(<<x>>) = x /\ Tail(<<x>>) = <<>> /\ Head(<<x, y>>) = x
    OBVIOUS
  <1>3. Tail(<<x, y>>) = <<y>>
    OBVIOUS
  <1>4. Append(<<>>, x) = <<x>>
    OBVIOUS
  <1>5. Append(<<x>>, y) = <<x, y>>
    <2>1. /\ Append(<<x>>, y) \in Seq({x, y}) /\ Len(Append(<<x>>, y)) = 2
          /\ Append(<<x>>, y)[1] = x /\ Append(<<x>>, y)[2] = y
      BY <1>1
    <2>2. \A i \in 1 .. 2 : Append(<<x>>, y)[i] = <<x, y>>[i]
      BY <2>1
    <2> QED
      BY <1>1, <2>1, <2>2, SeqEqual
  <1>6. <<x>> # <<>> /\ <<x, y>> # <<>>
    OBVIOUS
  <1> QED
    BY <1>1, <1>2, <1>3, <1>4, <1>5, <1>6

\* What the host of a state may be.
LEMMA HostTypes ==
  ASSUME TypeOK
  PROVE  /\ host.pc \in {"gone", "idle", "wait", "data"}
         /\ host.msg \in Messages \cup {Nothing}
         /\ host.ready \in BOOLEAN /\ host.downloads \in 0 .. MaxDownloads
         /\ Nothing \notin Messages
         /\ \A m \in Messages : m.kind \in {"cmd", "data"}
  <1>1. \A m \in Messages : m.kind \in {"cmd", "data"}
    BY DEF Messages
  <1>2. Nothing.kind = "none"
    BY DEF Nothing
  <1>3. /\ host.pc \in {"gone", "idle", "wait", "data"}
        /\ host.msg \in Messages \cup {Nothing}
        /\ host.ready \in BOOLEAN /\ host.downloads \in 0 .. MaxDownloads
    BY DEF TypeOK, Nothing
  <1> QED
    BY <1>1, <1>2, <1>3

\* Sizes are numbers, and the cmd of image data names no command.
LEMMA SizesNat ==
  /\ AnySize \subseteq Nat /\ 0 \in AnySize
  /\ MAX_DOWNLOAD_SIZE \in Nat /\ HeapSize \in Nat /\ MaxDownloads \in Nat
  /\ \A m \in Messages : m.size \in AnySize /\ m.size \in Nat
                         /\ (m.kind = "data" => m.cmd = "data")
  <1>1. AnySize \subseteq Nat /\ 0 \in AnySize
    BY FastbootAssumption DEF AnySize
  <1>2. ASSUME NEW m \in Messages PROVE m.size \in AnySize /\ (m.kind = "data" => m.cmd = "data")
    BY DEF Messages
  <1> QED
    BY <1>1, <1>2, FastbootAssumption

LEMMA FastbootStarts == Init => Inv
  <1> SUFFICES ASSUME Init PROVE Inv
    OBVIOUS
  <1> USE DEF Init, NoBuffer, Unplugged, Nothing
  <1>1. TypeOK
    <2>1. host \in [pc : {"gone", "idle", "wait", "data"}, msg : Messages \cup {[kind |-> "none"]},
                    ready : BOOLEAN, downloads : 0 .. MaxDownloads]
      BY FastbootAssumption
    <2>2. heap \in 0 .. HeapSize /\ var \in 0 .. NVars
      BY FastbootAssumption
    <2>3. <<>> \in Seq({"cmd", "data"}) /\ <<>> \in Seq(Codes) /\ <<>> \in Seq(Events)
      OBVIOUS
    <2> QED
      BY <2>1, <2>2, <2>3 DEF TypeOK, States, AnySize
  <1>2. Token
    BY DEF Token, Gone, Queues, Quiet
  <1>3. BufferInv
    BY DEF BufferInv, Pending
  <1>4. HeapInv
    BY DEF HeapInv
  <1> QED
    BY <1>1, <1>2, <1>3, <1>4 DEF Inv

-----------------------------------------------------------------------------
(***************************************************************************)
(* The token.                                                              *)
(***************************************************************************)
\* What the guards of the steps tell of the session.
LEMMA TokenAt ==
  ASSUME Token, TypeOK
  PROVE  /\ fastboot_state = "COMPLETE" /\ evq # <<>> /\ Head(evq).dir = "OUT" => Arrived
         /\ fastboot_state = "DOWNLOAD" /\ evq # <<>> /\ Head(evq).dir = "OUT" =>
               DataArrived /\ Tail(evq) = <<>>
         /\ fastboot_state = "COMPLETE" /\ evq # <<>> /\ Head(evq).dir = "IN" => Answered
         /\ fastboot_state = "DOWNLOAD" /\ evq # <<>> /\ Head(evq).dir = "IN" =>
               DataToSend \/ DataArrived
         /\ fastboot_state = "GETVAR" => Listing
         /\ host.pc = "idle" => Reading \/ Answered
         /\ host.msg # Nothing /\ rxq # <<>> => Reading \/ DataToSend
         /\ txq # <<>> => Answering \/ Listing \/ DataAsked
  <1> USE Short DEF Queues, Quiet, Asking, Sending, Sent, Read, Between
  <1>1. CASE Gone
    BY <1>1 DEF Gone
  <1>2. CASE Reading
    BY <1>2 DEF Reading
  <1>3. CASE Answered
    BY <1>3 DEF Answered
  <1>4. CASE Arrived
    BY <1>4 DEF Arrived
  <1>5. CASE Answering
    BY <1>5 DEF Answering
  <1>6. CASE Listing
    BY <1>6 DEF Listing
  <1>7. CASE DataAsked
    BY <1>7 DEF DataAsked
  <1>8. CASE DataToSend
    BY <1>8 DEF DataToSend
  <1>9. CASE DataArrived
    <2>1. PICK m \in Messages : \E e \in {<<Read("data", m)>>, <<Sent, Read("data", m)>>} :
                                   m.kind = "data" /\ Queues("DOWNLOAD", <<>>, <<>>, e)
      BY <1>9 DEF DataArrived
    <2>2. CASE evq = <<Read("data", m)>>
      BY <1>9, <2>1, <2>2 DEF DataArrived
    <2>3. CASE evq = <<Sent, Read("data", m)>>
      BY <1>9, <2>1, <2>3 DEF DataArrived
    <2> QED
      BY <2>1, <2>2, <2>3
  <1> QED
    BY <1>1, <1>2, <1>3, <1>4, <1>5, <1>6, <1>7, <1>8, <1>9 DEF Token

\* A completed read is a command or image data that was waited for.
LEMMA ArrivedAt ==
  ASSUME Token, evq # <<>>, Head(evq).dir = "OUT"
  PROVE  Arrived \/ (DataArrived /\ \E m \in Messages :
                                     m.kind = "data" /\ evq = <<Read("data", m)>>)
  <1> USE Short DEF Queues, Sent, Read
  <1>1. Arrived \/ DataArrived
    BY DEF Token, Gone, Reading, Answered, Answering, Listing, DataAsked, DataToSend
  <1>2. CASE DataArrived
    <2>1. PICK m \in Messages : \E e \in {<<Read("data", m)>>, <<Sent, Read("data", m)>>} :
                                   m.kind = "data" /\ Queues("DOWNLOAD", <<>>, <<>>, e)
      BY <1>2 DEF DataArrived
    <2>2. evq = <<Read("data", m)>>
      BY <2>1
    <2> QED
      BY <1>2, <2>1, <2>2
  <1> QED
    BY <1>1, <1>2

LEMMA NeverInconsistent ==
  ASSUME Token, RxInconsistent
  PROVE  FALSE
  <1>1. Arrived \/ DataArrived
    BY ArrivedAt DEF RxInconsistent, NextEvent
  <1> QED
    BY <1>1 DEF RxInconsistent, Arrived, DataArrived, Queues

\* The command that has arrived, and what each handler leaves behind.
LEMMA HandleToken ==
  ASSUME Arrived, RxCommand, Inv, InStep, InStep'
  PROVE  /\ host' = host \/ host' = Unplugged
         /\ evq' = <<>>
         /\ \/ fastboot_state' = "OFFLINE" /\ rxq' = <<>> /\ txq' = <<>> /\ host' = Unplugged
            \/ /\ fastboot_state' = "COMPLETE" /\ rxq' = <<>> /\ host' = host
               /\ \E code \in {"OKAY", "FAIL"} : txq' = <<code>>
            \/ fastboot_state' = "GETVAR" /\ rxq' = <<>> /\ txq' = <<"INFO">> /\ host' = host
            \/ /\ fastboot_state' = "DOWNLOAD" /\ rxq' = <<"data">> /\ txq' = <<"DATA">>
               /\ host' = host
  <1> USE Short DEF Queues, usb_write, usb_read, fastboot_ack, Final
  <1>1. PICK m \in Messages : Queues("COMPLETE", <<>>, <<>>, <<Read("cmd", m)>>) /\ m.kind = "cmd"
    BY DEF Arrived
  <1>2. /\ Handle(m) /\ evq' = <<>> /\ Head(evq) = Read("cmd", m)
        /\ rxq = <<>> /\ txq = <<>>
    BY <1>1 DEF RxCommand, Read
  <1>3. CASE CmdFlashOrErase
    BY <1>2, <1>3 DEF CmdFlashOrErase, MediaAnswers
  <1>4. CASE CmdGetvar \/ CmdUnknown \/ CmdBootFails
    BY <1>2, <1>4 DEF CmdGetvar, CmdUnknown, CmdBootFails, InStep
  <1>5. CASE CmdGetvarAll
    BY <1>2, <1>5 DEF CmdGetvarAll
  <1>6. CASE Leave
    BY <1>2, <1>6 DEF Leave
  <1>s. m.size \in Nat /\ MAX_DOWNLOAD_SIZE \in Nat
    BY SizesNat
  <1>7. CASE m.cmd = "download" /\ CmdDownload(m.size)
    <2>1. CASE m.size > MAX_DOWNLOAD_SIZE
      BY <1>2, <1>7, <1>s, <2>1 DEF CmdDownload
    <2>2. CASE m.size <= MAX_DOWNLOAD_SIZE /\ AllocatePool(m.size)
      BY <1>2, <1>7, <1>s, <2>2 DEF CmdDownload
    <2>3. CASE m.size <= MAX_DOWNLOAD_SIZE /\ ~AllocatePool(m.size)
      BY <1>7, <1>s, <2>3 DEF CmdDownload, InStep
    <2> QED
      BY <1>s, <2>1, <2>2, <2>3
  <1> QED
    BY <1>2, <1>3, <1>4, <1>5, <1>6, <1>7 DEF Handle

LEMMA TokenStep ==
  ASSUME Inv, InStep, [Next]_vars, InStep'
  PROVE  Token'
  <1> USE Short DEF Queues, Quiet, Asking, Sending, usb_write, usb_read, fastboot_ack, Final,
          fastboot_read_command, NextEvent, Sent
  <1>t. Token /\ TypeOK
    BY DEF Inv
  <1>h. /\ host \in [pc : {"gone", "idle", "wait", "data"}, msg : Messages \cup {Nothing},
                     ready : BOOLEAN, downloads : 0 .. MaxDownloads]
        /\ Nothing \notin Messages
    BY <1>t, HostTypes DEF TypeOK, Nothing
  <1>1. CASE StartCallback
    BY <1>1, <1>h DEF StartCallback, Token, Reading, Between
  <1>2. CASE RxCommand
    <2>1. Arrived
      BY <1>2, <1>t, TokenAt DEF RxCommand
    <2>2. host.pc = "wait" /\ host.msg = Nothing /\ Unplugged.pc = "gone" /\ Unplugged.msg = Nothing
      BY <2>1 DEF Arrived, Unplugged
    <2> QED
      BY <1>2, <2>1, <2>2, HandleToken DEF Token, Gone, Answering, Listing, DataAsked
  <1>3. CASE RxData
    <2>1. DataArrived /\ Tail(evq) = <<>>
      BY <1>3, <1>t, TokenAt DEF RxData
    <2> QED
      BY <1>3, <2>1 DEF RxData, DataArrived, Token, Answering
  <1>4. CASE TxGetvar
    <2>1. Listing
      BY <1>4, <1>t, TokenAt DEF TxGetvar
    <2> QED
      BY <1>4, <2>1 DEF TxGetvar, Listing, Token, Answering
  <1>5. CASE TxComplete
    <2>1. Answered
      BY <1>5, <1>t, TokenAt DEF TxComplete
    <2> QED
      BY <1>5, <2>1 DEF TxComplete, Answered, Reading, Between, Token
  <1>6. CASE TxDownload
    <2>1. DataToSend \/ DataArrived
      BY <1>6, <1>t, TokenAt DEF TxDownload
    <2>2. CASE DataToSend
      <3>1. PICK e \in {<<>>, <<Sent>>} : Queues("DOWNLOAD", <<"data">>, <<>>, e)
        BY <2>2 DEF DataToSend
      <3>2. Queues("DOWNLOAD", <<"data">>, <<>>, <<>>)'
        BY <1>6, <3>1 DEF TxDownload
      <3>3. host' = host
        BY <1>6 DEF TxDownload
      <3> QED
        BY <2>2, <3>2, <3>3 DEF DataToSend, Token
    <2>3. CASE DataArrived
      <3>1. PICK m \in Messages : \E e \in {<<Read("data", m)>>, <<Sent, Read("data", m)>>} :
                                     m.kind = "data" /\ Queues("DOWNLOAD", <<>>, <<>>, e)
        BY <2>3 DEF DataArrived
      <3>2. evq = <<Sent, Read("data", m)>>
        BY <1>6, <3>1 DEF TxDownload, Read
      <3> QED
        BY <1>6, <2>3, <3>1, <3>2 DEF TxDownload, DataArrived, Token
    <2> QED
      BY <2>1, <2>2, <2>3
  <1>7. CASE HostCommand
    <2>1. Reading \/ Answered
      BY <1>7, <1>t, TokenAt DEF HostCommand
    <2>2. host'.pc = "wait" /\ host'.msg.kind = "cmd"
      BY <1>7, <1>h DEF HostCommand
    <2>3. host'.msg # Nothing
      BY <2>2 DEF Nothing
    <2> QED
      BY <1>7, <2>1, <2>2, <2>3 DEF HostCommand, Reading, Answered, Between, Token
  <1>8. CASE HostSend
    <2>0. host.msg \in Messages /\ host'.msg = Nothing /\ host'.pc = host.pc
      BY <1>8, <1>h DEF HostSend
    <2>1. Reading \/ DataToSend
      BY <1>8, <1>t, TokenAt DEF HostSend
    <2>2. CASE Reading
      <3>1. /\ fastboot_state' = "COMPLETE" /\ rxq' = <<>> /\ txq' = <<>>
            /\ evq' = <<Read("cmd", host.msg)>>
        BY <1>8, <2>2 DEF HostSend, Reading, Read
      <3>2. host.pc = "wait" /\ host.msg.kind = "cmd"
        BY <1>8, <2>2 DEF HostSend, Reading, Between
      <3> QED
        BY <1>8, <2>0, <3>1, <3>2 DEF Token, Arrived
    <2>3. CASE DataToSend
      <3>1. PICK e \in {<<>>, <<Sent>>} : Queues("DOWNLOAD", <<"data">>, <<>>, e)
        BY <2>3 DEF DataToSend
      <3>2. /\ evq' = Append(e, Read("data", host.msg)) /\ rxq' = <<>> /\ txq' = <<>>
            /\ fastboot_state' = "DOWNLOAD"
        BY <1>8, <3>1 DEF HostSend, Read
      <3>3. evq' \in {<<Read("data", host.msg)>>, <<Sent, Read("data", host.msg)>>}
        BY <3>1, <3>2
      <3> QED
        BY <2>0, <2>3, <3>2, <3>3 DEF Token, DataArrived, DataToSend
    <2> QED
      BY <2>1, <2>2, <2>3
  <1>9. CASE HostReceive
    <2>1. Answering \/ Listing \/ DataAsked
      BY <1>9, <1>t, TokenAt DEF HostReceive
    <2>2. CASE Answering
      <3>1. PICK code \in {"OKAY", "FAIL"} : Queues("COMPLETE", <<>>, <<code>>, <<>>)
        BY <2>2 DEF Answering
      <3>2. host'.pc = "idle" /\ host'.msg = host.msg
        BY <1>9, <1>h, <3>1 DEF HostReceive
      <3> QED
        BY <1>9, <2>2, <3>1, <3>2 DEF HostReceive, Answering, Answered, Between, Token
    <2>3. CASE Listing
      <3>1. txq = <<"INFO">> /\ evq = <<>> /\ rxq = <<>> /\ fastboot_state = "GETVAR"
        BY <1>9, <2>3 DEF HostReceive, Listing
      <3> QED
        BY <1>9, <2>3, <3>1 DEF HostReceive, Listing, Token
    <2>4. CASE DataAsked
      <3>1. txq = <<"DATA">> /\ evq = <<>> /\ rxq = <<"data">> /\ fastboot_state = "DOWNLOAD"
        BY <2>4 DEF DataAsked
      <3>2. host'.pc = "data" /\ host'.msg.kind = "data"
        <4>1. PICK k : host' = [host EXCEPT !.pc = "data",
                                           !.msg = [kind |-> "data", cmd |-> "data", size |-> k]]
          BY <1>9, <3>1 DEF HostReceive
        <4> QED
          BY <4>1, <1>h
      <3>3. host'.msg # Nothing
        BY <3>2 DEF Nothing
      <3> QED
        BY <1>9, <3>1, <3>2, <3>3 DEF HostReceive, DataToSend, Token
    <2> QED
      BY <2>1, <2>2, <2>3, <2>4
  <1>11. CASE RxInconsistent
    BY <1>11, <1>t, NeverInconsistent
  <1>10. CASE UNCHANGED vars
    BY <1>t, <1>10 DEF vars, Token, Gone, Reading, Answered, Arrived, Answering, Listing,
          DataAsked, DataToSend, DataArrived, Between
  <1> QED
    BY <1>1, <1>2, <1>3, <1>4, <1>5, <1>6, <1>7, <1>8, <1>9, <1>10, <1>11 DEF Next, Device, Host

-----------------------------------------------------------------------------
(***************************************************************************)
(* The types, whether the session is in step or not.                       *)
(***************************************************************************)
LEMMA QueueTypes ==
  ASSUME TypeOK
  PROVE  /\ \A b \in {"cmd", "data"} : Append(rxq, b) \in Seq({"cmd", "data"})
         /\ \A c \in Codes : Append(txq, c) \in Seq(Codes)
         /\ \A c, d \in Codes : txq \o <<c, d>> \in Seq(Codes)
         /\ \A e \in Events : Append(evq, e) \in Seq(Events)
         /\ rxq # <<>> => Head(rxq) \in {"cmd", "data"} /\ Tail(rxq) \in Seq({"cmd", "data"})
         /\ txq # <<>> => Head(txq) \in Codes /\ Tail(txq) \in Seq(Codes)
         /\ evq # <<>> => Head(evq) \in Events /\ Tail(evq) \in Seq(Events)
  <1>1. rxq \in Seq({"cmd", "data"}) /\ txq \in Seq(Codes) /\ evq \in Seq(Events)
    BY DEF TypeOK
  <1>2. ASSUME NEW c \in Codes, NEW d \in Codes PROVE txq \o <<c, d>> \in Seq(Codes)
    <2>1. <<c, d>> \in Seq(Codes)
      OBVIOUS
    <2> QED
      BY <1>1, <2>1, ConcatProperties
  <1> QED
    BY <1>1, <1>2, AppendProperties, HeadTailProperties

\* A completed read carries a message.
LEMMA EventMessage ==
  ASSUME NEW e \in Events, e.dir = "OUT"
  PROVE  e.buf \in {"cmd", "data"} /\ e.msg \in Messages /\ e.msg.size \in AnySize
  <1>1. e.buf \in {"cmd", "data"} /\ e.msg \in Messages
    BY DEF Events
  <1> QED
    BY <1>1, SizesNat

\* FreePool gives back no more than was taken.
LEMMA FreePoolKeeps ==
  ASSUME TypeOK, HeapInv, FreePool
  PROVE  /\ addr' \in [ptr : {"NULL", "live", "freed"}, cap : AnySize, got : AnySize]
         /\ heap' \in 0 .. HeapSize /\ addr'.ptr # "live"
  <1>1. /\ addr \in [ptr : {"NULL", "live", "freed"}, cap : AnySize, got : AnySize]
        /\ heap \in 0 .. HeapSize /\ HeapSize \in Nat /\ AnySize \subseteq Nat /\ 0 \in AnySize
    BY SizesNat DEF TypeOK
  <1>2. CASE addr.ptr = "live"
    <2>1. addr' = [addr EXCEPT !.ptr = "freed", !.got = 0] /\ heap' = heap - addr.cap
      BY <1>2 DEF FreePool
    <2>2. addr.cap \in Nat /\ addr.cap <= heap /\ heap \in Nat /\ heap <= HeapSize
      <3>1. addr.cap \in Nat
        BY <1>1
      <3>2. addr.cap <= heap
        BY <1>2 DEF HeapInv
      <3>3. heap \in Nat /\ heap <= HeapSize
        BY <1>1
      <3> QED
        BY <3>1, <3>2, <3>3
    <2>3. heap - addr.cap \in 0 .. HeapSize
      BY <1>1, <2>2
    <2>4. /\ addr' \in [ptr : {"NULL", "live", "freed"}, cap : AnySize, got : AnySize]
          /\ addr'.ptr # "live"
      BY <1>1, <2>1
    <2> QED
      BY <2>1, <2>3, <2>4
  <1>3. CASE addr.ptr # "live"
    BY <1>1, <1>3 DEF FreePool
  <1> QED
    BY <1>2, <1>3

LEMMA TypesKept ==
  ASSUME TypeOK, HeapInv, [Next]_vars
  PROVE  TypeOK' /\ HeapInv'
  <1> USE DEF usb_write, usb_read, fastboot_ack, fastboot_read_command, Final, NextEvent
  <1>q. /\ \A b \in {"cmd", "data"} : Append(rxq, b) \in Seq({"cmd", "data"})
        /\ \A c \in Codes : Append(txq, c) \in Seq(Codes)
        /\ \A c, d \in Codes : txq \o <<c, d>> \in Seq(Codes)
        /\ \A e \in Events : Append(evq, e) \in Seq(Events)
        /\ rxq # <<>> => Head(rxq) \in {"cmd", "data"} /\ Tail(rxq) \in Seq({"cmd", "data"})
        /\ txq # <<>> => Head(txq) \in Codes /\ Tail(txq) \in Seq(Codes)
        /\ evq # <<>> => Head(evq) \in Events /\ Tail(evq) \in Seq(Events)
    BY QueueTypes
  <1>n. /\ NVars \in Nat \ {0} /\ MAX_DOWNLOAD_SIZE \in Nat /\ HeapSize \in Nat
        /\ AnySize \subseteq Nat /\ 0 \in AnySize
    BY FastbootAssumption, SizesNat
  <1>c. /\ "INFO" \in Codes /\ "OKAY" \in Codes /\ "FAIL" \in Codes /\ "DATA" \in Codes
        /\ <<>> \in Seq(Codes) /\ <<>> \in Seq({"cmd", "data"}) /\ <<>> \in Seq(Events)
        /\ <<"cmd">> \in Seq({"cmd", "data"})
    BY DEF Codes
  <1>0. CASE UNCHANGED vars
    BY <1>0 DEF vars, TypeOK, HeapInv
  <1>1. CASE StartCallback
    BY <1>1, <1>c DEF StartCallback, TypeOK, HeapInv, States, statics, Nothing
  <1>2. CASE RxCommand
    <2> DEFINE m == Head(evq).msg
    <2>1. m \in Messages /\ m.size \in AnySize /\ m.size \in Nat /\ Handle(m)
      BY <1>2, <1>n, <1>q, EventMessage DEF RxCommand
    <2> HIDE DEF m
    <2>2. evq' \in Seq(Events)
      BY <1>2, <1>q, <1>c DEF RxCommand
    <2>3. CASE CmdFlashOrErase \/ CmdGetvar \/ CmdGetvarAll \/ CmdUnknown
      <3>1. /\ UNCHANGED <<rxq, statics, host, twice>>
            /\ var' \in 0 .. NVars
            /\ fastboot_state' \in {"COMPLETE", "GETVAR"}
            /\ \E c \in Codes : txq' = Append(txq, c)
        BY <2>3, <1>n, <1>c
           DEF CmdFlashOrErase, CmdGetvar, CmdGetvarAll, CmdUnknown, MediaAnswers, TypeOK
      <3>2. txq' \in Seq(Codes)
        BY <1>q, <3>1
      <3> QED
        BY <2>2, <3>1, <3>2 DEF TypeOK, HeapInv, States, statics
    <2>4. CASE Leave
      <3>1. Unplugged \in [pc : {"gone", "idle", "wait", "data"},
                           msg : Messages \cup {[kind |-> "none"]},
                           ready : BOOLEAN, downloads : 0 .. MaxDownloads]
        BY SizesNat DEF Unplugged, Nothing
      <3>2. /\ fastboot_state' = "OFFLINE" /\ rxq' = <<>> /\ txq' = <<>> /\ var' = 0
            /\ addr' = NoBuffer /\ download_size' = 0 /\ heap' = 0
            /\ host' = Unplugged /\ twice' = FALSE
        BY <2>4 DEF Leave
      <3>3. NoBuffer \in [ptr : {"NULL", "live", "freed"}, cap : AnySize, got : AnySize]
            /\ NoBuffer.ptr # "live" /\ 0 \in 0 .. NVars /\ 0 \in 0 .. HeapSize
        BY <1>n DEF NoBuffer
      <3> QED
        BY <2>2, <1>n, <1>c, <3>1, <3>2, <3>3 DEF TypeOK, HeapInv, States
    <2>5. CASE CmdDownload(m.size)
      <3>1. UNCHANGED <<var, host>> /\ download_size' = m.size
        BY <2>5 DEF CmdDownload
      <3>2. CASE m.size > MAX_DOWNLOAD_SIZE
        <4>1. /\ UNCHANGED <<rxq, addr, heap, twice>> /\ fastboot_state' = "COMPLETE"
              /\ txq' = Append(txq, "FAIL")
          BY <2>1, <2>5, <1>n, <3>2 DEF CmdDownload
        <4> QED
          BY <1>c, <1>q, <2>1, <2>2, <3>1, <4>1 DEF TypeOK, HeapInv, States
      <3>3. CASE m.size <= MAX_DOWNLOAD_SIZE /\ AllocatePool(m.size)
        <4>1. /\ fastboot_state' = "DOWNLOAD" /\ UNCHANGED twice
              /\ txq' = Append(txq, "DATA") /\ rxq' = Append(rxq, "data")
              /\ addr' = [ptr |-> "live", cap |-> m.size, got |-> 0]
              /\ heap' = heap + m.size
          BY <2>1, <2>5, <1>n, <3>3 DEF CmdDownload
        <4>2. heap' \in 0 .. HeapSize /\ m.size <= heap'
          BY <1>n, <2>1, <3>3, <4>1 DEF AllocatePool, TypeOK
        <4> QED
          BY <1>c, <1>n, <1>q, <2>1, <2>2, <3>1, <4>1, <4>2 DEF TypeOK, HeapInv, States
      <3>4. CASE m.size <= MAX_DOWNLOAD_SIZE /\ ~AllocatePool(m.size)
        <4>1. /\ fastboot_state' = "COMPLETE" /\ twice' = TRUE
              /\ txq' = txq \o <<"DATA", "FAIL">> /\ UNCHANGED <<rxq, heap>>
              /\ addr' = NoBuffer
          BY <2>1, <2>5, <1>n, <3>4 DEF CmdDownload
        <4> QED
          BY <1>c, <1>n, <1>q, <2>1, <2>2, <3>1, <4>1 DEF TypeOK, HeapInv, States, NoBuffer
      <3> QED
        BY <1>n, <2>1, <3>2, <3>3, <3>4
    <2>6. CASE CmdBootFails
      <3>1. /\ FreePool /\ UNCHANGED <<rxq, var, download_size, host>>
            /\ fastboot_state' = "COMPLETE" /\ twice' \in {twice, TRUE}
            /\ txq' = Append(txq, "FAIL") \/ txq' = txq \o <<"OKAY", "FAIL">>
        BY <2>6 DEF CmdBootFails
      <3>2. txq' \in Seq(Codes)
        BY <1>c, <1>q, <3>1
      <3> QED
        BY <2>2, <3>1, <3>2, FreePoolKeeps DEF TypeOK, HeapInv, States
    <2> QED
      BY <2>1, <2>3, <2>4, <2>5, <2>6 DEF Handle
  <1>3. CASE RxData
    <2>1. /\ evq' \in Seq(Events) /\ UNCHANGED <<rxq, var, host, twice>>
          /\ fastboot_state' = "COMPLETE" /\ Head(evq).msg.size \in AnySize
      BY <1>3, <1>q, EventMessage DEF RxData
    <2>2. CASE Head(evq).msg.size = download_size
      <3>1. /\ txq' = Append(txq, "OKAY") /\ UNCHANGED <<download_size, heap>>
            /\ \E got \in AnySize : addr' = [addr EXCEPT !.got = got]
        BY <1>3, <2>1, <2>2 DEF RxData, TypeOK
      <3> QED
        BY <1>c, <1>q, <2>1, <3>1 DEF TypeOK, HeapInv, States
    <2>3. CASE Head(evq).msg.size # download_size
      <3>1. txq' = Append(txq, "FAIL") /\ FreePool /\ download_size' = 0
        BY <1>3, <2>3 DEF RxData
      <3> QED
        BY <1>c, <1>n, <1>q, <2>1, <3>1, FreePoolKeeps DEF TypeOK, HeapInv, States
    <2> QED
      BY <2>2, <2>3
  <1>4. CASE RxInconsistent \/ TxDownload
    BY <1>4, <1>q DEF RxInconsistent, TxDownload, TypeOK, HeapInv, statics
  <1>5. CASE TxGetvar
    <2>1. /\ evq' \in Seq(Events) /\ UNCHANGED <<rxq, statics, host, twice>>
      BY <1>5, <1>q DEF TxGetvar
    <2>2. /\ txq' \in Seq(Codes) /\ var' \in 0 .. NVars
          /\ fastboot_state' \in {"COMPLETE", "GETVAR"}
      <3>1. var \in 0 .. NVars /\ fastboot_state = "GETVAR"
        BY <1>5 DEF TxGetvar, TypeOK
      <3>2. CASE var > 0
        <4>1. txq' = Append(txq, "INFO") /\ var' = var - 1 /\ UNCHANGED fastboot_state
          BY <1>5, <3>2 DEF TxGetvar
        <4>2. var' \in 0 .. NVars
          BY <1>n, <3>1, <3>2, <4>1
        <4> QED
          BY <1>c, <1>q, <3>1, <4>1, <4>2
      <3>3. CASE ~(var > 0)
        <4>1. txq' = Append(txq, "OKAY") /\ UNCHANGED var /\ fastboot_state' = "COMPLETE"
          BY <1>5, <3>3 DEF TxGetvar
        <4> QED
          BY <1>c, <1>q, <3>1, <4>1
      <3> QED
        BY <3>2, <3>3
    <2> QED
      BY <2>1, <2>2 DEF TypeOK, HeapInv, States, statics
  <1>6. CASE TxComplete
    BY <1>6, <1>q DEF TxComplete, TypeOK, HeapInv, statics
  <1>7. CASE HostCommand
    <2>1. PICK c \in Commands, sz \in Sizes :
            /\ c = "download" => host.downloads < MaxDownloads
            /\ host' = [host EXCEPT
                  !.pc = "wait",
                  !.msg = [kind |-> "cmd", cmd |-> c,
                           size |-> IF c = "download" THEN sz ELSE 0],
                  !.ready = @ /\ c \notin {"download", "boot"},
                  !.downloads = IF c = "download" THEN @ + 1 ELSE @]
      BY <1>7 DEF HostCommand
    <2>2. [kind |-> "cmd", cmd |-> c, size |-> IF c = "download" THEN sz ELSE 0] \in Messages
      BY DEF Messages, AnySize
    <2>3. (IF c = "download" THEN host.downloads + 1 ELSE host.downloads) \in 0 .. MaxDownloads
      BY <2>1, SizesNat, HostTypes
    <2>4. (host.ready /\ c \notin {"download", "boot"}) \in BOOLEAN
      OBVIOUS
    <2>5. host' \in [pc : {"gone", "idle", "wait", "data"},
                     msg : Messages \cup {[kind |-> "none"]},
                     ready : BOOLEAN, downloads : 0 .. MaxDownloads]
      BY <2>1, <2>2, <2>3, <2>4 DEF TypeOK
    <2> QED
      BY <1>7, <2>5 DEF HostCommand, TypeOK, HeapInv, statics
  <1>8. CASE HostSend
    <2>1. /\ rxq # <<>> /\ host.msg \in Messages
          /\ evq' = Append(evq, Read(Head(rxq), host.msg)) /\ rxq' = Tail(rxq)
          /\ host' = [host EXCEPT !.msg = Nothing]
          /\ UNCHANGED <<fastboot_state, txq, var, statics, twice>>
      BY <1>8, HostTypes DEF HostSend, Read
    <2>2. Read(Head(rxq), host.msg) \in Events
      BY <1>q, <2>1 DEF Events, Read
    <2>3. evq' \in Seq(Events)
      BY <1>q, <2>1, <2>2
    <2> QED
      BY <1>q, <2>1, <2>3 DEF TypeOK, HeapInv, statics, Nothing
  <1>9. CASE HostReceive
    <2>1. /\ txq # <<>> /\ evq' = Append(evq, Sent) /\ txq' = Tail(txq)
          /\ UNCHANGED <<fastboot_state, rxq, var, statics, twice>>
      BY <1>9 DEF HostReceive, Sent
    <2>2. Sent \in Events
      BY DEF Events, Sent
    <2>3. host' \in [pc : {"gone", "idle", "wait", "data"},
                     msg : Messages \cup {[kind |-> "none"]},
                     ready : BOOLEAN, downloads : 0 .. MaxDownloads]
      <3>1. CASE Head(txq) = "INFO"
        BY <1>9, <3>1 DEF HostReceive, TypeOK
      <3>2. CASE Head(txq) = "DATA"
        <4>1. PICK n \in {download_size, 0} :
                 host' = [host EXCEPT !.pc = "data",
                                      !.msg = [kind |-> "data", cmd |-> "data", size |-> n]]
          BY <1>9, <3>2 DEF HostReceive
        <4>2. [kind |-> "data", cmd |-> "data", size |-> n] \in Messages
          BY <1>n DEF Messages, TypeOK
        <4> QED
          BY <4>1, <4>2 DEF TypeOK
      <3>3. CASE Head(txq) \notin {"INFO", "DATA"}
        <4>1. host' = [host EXCEPT
                 !.pc = "idle",
                 !.ready = @ \/ (host.pc = "data" /\ Head(txq) = "OKAY")]
          BY <1>9, <3>3 DEF HostReceive
        <4>2. (host.ready \/ (host.pc = "data" /\ Head(txq) = "OKAY")) \in BOOLEAN
          OBVIOUS
        <4> QED
          BY <4>1, <4>2 DEF TypeOK
      <3> QED
        BY <3>1, <3>2, <3>3
    <2> QED
      BY <1>q, <2>1, <2>2, <2>3 DEF TypeOK, HeapInv, statics
  <1> QED
    BY <1>0, <1>1, <1>2, <1>3, <1>4, <1>5, <1>6, <1>7, <1>8, <1>9 DEF Next, Device, Host

-----------------------------------------------------------------------------
(***************************************************************************)
(* The buffer of a session in step.                                        *)
(***************************************************************************)
\* The command that has arrived: its handler is given the buffer it needs.
LEMMA RxCommandKeeps ==
  ASSUME Inv, InStep, RxCommand, InStep'
  PROVE  BufferInv'
  <1> USE Short DEF usb_write, usb_read, fastboot_ack, Final
  <1>1. Arrived /\ host.pc = "wait" /\ host.msg = Nothing
    BY TokenAt DEF RxCommand, Inv, Arrived, Quiet
  <1>2. PICK m \in Messages : Queues("COMPLETE", <<>>, <<>>, <<Read("cmd", m)>>) /\ m.kind = "cmd"
    BY <1>1 DEF Arrived
  <1>3. /\ Handle(m) /\ evq # <<>> /\ Head(evq) = Read("cmd", m)
        /\ rxq = <<>> /\ txq = <<>> /\ fastboot_state = "COMPLETE"
    BY <1>2 DEF RxCommand, Read, Queues
  <1>4. \A cmds : m.cmd \in cmds => Pending(cmds)
    BY <1>3 DEF Pending, Read
  <1>5. evq' = <<>> /\ (host' = host \/ host' = Unplugged)
    BY <1>1, HandleToken
  <1>6. \A cmds : ~Pending(cmds)'
    BY <1>1, <1>5 DEF Pending, Unplugged, Nothing
  <1>t. m.size \in Nat /\ MAX_DOWNLOAD_SIZE \in Nat
    BY SizesNat
  <1>7. CASE CmdFlashOrErase \/ CmdGetvar \/ CmdGetvarAll \/ CmdUnknown
    <2>1. UNCHANGED <<statics, host>> /\ fastboot_state' \in {"COMPLETE", "GETVAR"}
      BY <1>7 DEF CmdFlashOrErase, CmdGetvar, CmdGetvarAll, CmdUnknown, MediaAnswers
    <2> QED
      BY <1>1, <1>6, <2>1 DEF Inv, BufferInv, Complete, statics
  <1>8. CASE Leave
    BY <1>6, <1>8 DEF Leave, BufferInv, Unplugged
  <1>9. CASE m.cmd = "boot" /\ CmdBootFails
    <2>1. Pending({"flash", "boot"}) /\ Pending({"download", "boot"})
      BY <1>4, <1>9
    <2>2. ~host.ready
      BY <2>1 DEF Inv, BufferInv
    <2>3. host' = host /\ fastboot_state' = "COMPLETE" /\ txq' = <<"FAIL">>
      BY <1>3, <1>9 DEF CmdBootFails, InStep
    <2> QED
      BY <1>1, <1>6, <2>2, <2>3 DEF BufferInv
  <1>10. CASE m.cmd = "download" /\ CmdDownload(m.size)
    <2>1. Pending({"download", "boot"})
      BY <1>4, <1>10
    <2>2. ~host.ready
      BY <2>1 DEF Inv, BufferInv
    <2>3. host' = host /\ download_size' = m.size
      BY <1>10 DEF CmdDownload
    <2>4. CASE m.size > MAX_DOWNLOAD_SIZE
      <3>1. fastboot_state' = "COMPLETE" /\ txq' = <<"FAIL">>
        BY <1>3, <1>10, <1>t, <2>4 DEF CmdDownload
      <3> QED
        BY <1>1, <1>6, <2>2, <2>3, <3>1 DEF BufferInv
    <2>5. CASE m.size <= MAX_DOWNLOAD_SIZE
      <3>1. AllocatePool(m.size)
        BY <1>10, <1>t, <2>5 DEF CmdDownload, InStep
      <3>2. /\ fastboot_state' = "DOWNLOAD" /\ txq' = <<"DATA">>
            /\ addr' = [ptr |-> "live", cap |-> m.size, got |-> 0]
        BY <1>3, <1>10, <1>t, <2>5, <3>1 DEF CmdDownload
      <3> QED
        BY <1>1, <1>6, <2>2, <2>3, <3>2 DEF BufferInv
    <2> QED
      BY <1>t, <2>4, <2>5
  <1> QED
    BY <1>3, <1>7, <1>8, <1>9, <1>10 DEF Handle

\* The image has arrived, whole or not.
LEMMA RxDataKeeps ==
  ASSUME Inv, InStep, RxData
  PROVE  BufferInv'
  <1> USE Short DEF usb_write, fastboot_ack, Final, NextEvent
  <1>1. DataArrived /\ Tail(evq) = <<>> /\ host.pc = "data" /\ host.msg = Nothing
    BY TokenAt DEF RxData, Inv, DataArrived, Quiet
  <1>2. /\ evq' = <<>> /\ UNCHANGED <<rxq, var, host>> /\ fastboot_state' = "COMPLETE"
        /\ rxq = <<>> /\ txq = <<>> /\ fastboot_state = "DOWNLOAD"
    BY <1>1 DEF RxData, DataArrived, Queues
  <1>3. \A cmds : ~Pending(cmds)'
    BY <1>1, <1>2 DEF Pending
  <1>4. ~host.ready /\ addr.ptr = "live" /\ addr.cap = download_size
    BY <1>2 DEF Inv, BufferInv
  <1>5. Head(evq).buf = "data"
    <2>1. PICK m \in Messages : evq = <<Read("data", m)>>
      BY <1>2, ArrivedAt DEF RxData, Inv, Arrived, Queues
    <2> QED
      BY <2>1 DEF Read
  <1>6. CASE Head(evq).msg.size = download_size
    <2>1. /\ txq' = <<"OKAY">> /\ addr' = [addr EXCEPT !.got = download_size]
          /\ UNCHANGED download_size
      BY <1>2, <1>5, <1>6 DEF RxData
    <2>2. addr'.ptr = "live" /\ addr'.cap = download_size /\ addr'.got = download_size
      BY <1>4, <2>1 DEF Inv, TypeOK
    <2> QED
      BY <1>2, <1>3, <1>4, <2>1, <2>2 DEF BufferInv, Complete
  <1>7. CASE Head(evq).msg.size # download_size
    <2>1. txq' = <<"FAIL">>
      BY <1>2, <1>7 DEF RxData
    <2> QED
      BY <1>2, <1>3, <1>4, <2>1 DEF BufferInv
  <1> QED
    BY <1>6, <1>7

\* A completed response moves the listing on, or queues the next read.
LEMMA TxKeeps ==
  ASSUME Inv, InStep, TxGetvar \/ TxComplete \/ TxDownload
  PROVE  BufferInv'
  <1> USE Short DEF usb_write, usb_read, fastboot_ack, fastboot_read_command, Final, NextEvent,
          Queues, Quiet
  <1>t. TypeOK /\ Token
    BY DEF Inv
  <1>1. /\ UNCHANGED <<statics, host>> /\ evq # <<>> /\ Head(evq).dir = "IN" /\ evq' = Tail(evq)
    BY DEF TxGetvar, TxComplete, TxDownload
  <1>2. CASE TxGetvar
    <2>1. Listing
      BY <1>2, <1>t, TokenAt DEF TxGetvar
    <2>2. evq' = <<>> /\ host.pc = "wait" /\ host.msg = Nothing
      BY <1>1, <2>1 DEF Listing, Sent
    <2>3. fastboot_state' \in {"COMPLETE", "GETVAR"}
      BY <1>2 DEF TxGetvar
    <2>4. \A cmds : ~Pending(cmds)'
      BY <1>1, <2>2 DEF Pending
    <2> QED
      BY <1>1, <2>2, <2>3, <2>4 DEF BufferInv, Complete, Inv, statics
  <1>3. CASE TxComplete
    <2>1. Answered
      BY <1>3, <1>t, TokenAt DEF TxComplete
    <2>2. txq' = <<>> /\ evq' = <<>> /\ fastboot_state' = "COMPLETE"
      BY <1>1, <1>3, <2>1 DEF TxComplete, Answered, Sent
    <2>3. \A cmds : Pending(cmds)' => Pending(cmds)
      BY <1>1, <2>2 DEF Pending
    <2> QED
      BY <1>1, <2>2, <2>3 DEF BufferInv, Complete, Inv, statics
  <1>4. CASE TxDownload
    <2>1. UNCHANGED <<fastboot_state, rxq, txq, var>> /\ fastboot_state = "DOWNLOAD"
      BY <1>4 DEF TxDownload
    <2>2. DataToSend \/ DataArrived
      BY <1>4, <1>t, TokenAt DEF TxDownload
    <2>3. evq' = <<>> \/ (\E m \in Messages : m.kind = "data" /\ evq' = <<Read("data", m)>>)
      <3>1. CASE DataToSend
        <4>1. evq \in {<<>>, <<Sent>>}
          BY <3>1 DEF DataToSend
        <4> QED
          BY <1>1, <4>1
      <3>2. CASE DataArrived
        <4>1. PICK m \in Messages : \E e \in {<<Read("data", m)>>, <<Sent, Read("data", m)>>} :
                                       m.kind = "data" /\ Queues("DOWNLOAD", <<>>, <<>>, e)
          BY <3>2 DEF DataArrived
        <4>2. evq = <<Sent, Read("data", m)>> \/ evq = <<Read("data", m)>>
          BY <4>1
        <4>3. CASE evq = <<Sent, Read("data", m)>>
          <5>1. evq' = <<Read("data", m)>>
            BY <1>1, <4>3
          <5> QED
            BY <4>1, <5>1
        <4>4. CASE evq = <<Read("data", m)>>
          BY <1>1, <4>4 DEF Read
        <4> QED
          BY <4>2, <4>3, <4>4
      <3> QED
        BY <2>2, <3>1, <3>2
    <2>4. /\ Pending({"download", "boot"})' => Pending({"download", "boot"})
          /\ Pending({"flash", "boot"})' => Pending({"flash", "boot"})
      <3>1. CASE evq' = <<>>
        BY <1>1, <3>1 DEF Pending
      <3>2. CASE evq' # <<>>
        <4>1. PICK m \in Messages : m.kind = "data" /\ evq' = <<Read("data", m)>>
          BY <2>3, <3>2
        <4>2. Head(evq').msg = m /\ m.cmd = "data"
          BY <4>1, SizesNat DEF Read
        <4> QED
          BY <1>1, <4>2 DEF Pending
      <3> QED
        BY <3>1, <3>2
    <2> QED
      BY <1>1, <2>1, <2>4 DEF BufferInv, Complete, Inv, statics
  <1> QED
    BY <1>2, <1>3, <1>4

\* The cable is plugged in, or the device leaves: what was on its way is
\* gone, and with it the command.  A session starts in step.
LEMMA SessionStarts ==
  ASSUME TypeOK, StartCallback \/ (RxCommand /\ Leave)
  PROVE  Token' /\ BufferInv'
  <1>1. CASE StartCallback
    <2>1. /\ fastboot_state' = "COMPLETE" /\ rxq' = <<"cmd">> /\ txq' = <<>> /\ evq' = <<>>
          /\ host' = [host EXCEPT !.pc = "idle", !.msg = Nothing, !.ready = FALSE]
      BY <1>1 DEF StartCallback
    <2>2. host'.pc = "idle" /\ host'.msg = Nothing /\ ~host'.ready
      BY <2>1 DEF TypeOK
    <2>3. \A cmds : ~Pending(cmds)'
      BY <2>1, <2>2 DEF Pending
    <2>4. BufferInv'
      BY <2>1, <2>2, <2>3 DEF BufferInv
    <2> QED
      BY <2>1, <2>2, <2>4 DEF Token, Reading, Between, Queues, Quiet
  <1>2. CASE RxCommand /\ Leave
    <2>1. /\ fastboot_state' = "OFFLINE" /\ rxq' = <<>> /\ txq' = <<>> /\ evq' = <<>>
          /\ host' = Unplugged
      BY <1>2 DEF RxCommand, Leave
    <2>2. \A cmds : ~Pending(cmds)'
      BY <2>1 DEF Pending, Unplugged
    <2>3. BufferInv'
      BY <2>1, <2>2 DEF BufferInv, Unplugged
    <2> QED
      BY <2>1, <2>3 DEF Token, Gone, Queues, Quiet, Unplugged
  <1> QED
    BY <1>1, <1>2

\* Only these end the trouble of a session that is out of step.
LEMMA BackInStep ==
  ASSUME [Next]_vars, ~InStep, InStep'
  PROVE  StartCallback \/ (RxCommand /\ Leave)
  <1> USE DEF InStep
  <1>1. CASE RxCommand
    <2>1. Handle(Head(evq).msg)
      BY <1>1 DEF RxCommand
    <2>2. CASE CmdFlashOrErase \/ CmdGetvar \/ CmdGetvarAll \/ CmdUnknown \/ CmdBootFails
      BY <2>2 DEF CmdFlashOrErase, CmdGetvar, CmdGetvarAll, CmdUnknown, CmdBootFails
    <2>3. CASE CmdDownload(Head(evq).msg.size)
      BY <2>3 DEF CmdDownload
    <2> QED
      BY <1>1, <2>1, <2>2, <2>3 DEF Handle
  <1>2. CASE RxData \/ RxInconsistent \/ TxGetvar \/ TxComplete \/ TxDownload
    BY <1>2 DEF RxData, RxInconsistent, TxGetvar, TxComplete, TxDownload
  <1>3. CASE Host
    BY <1>3 DEF Host, HostCommand, HostSend, HostReceive
  <1>4. CASE UNCHANGED vars
    BY <1>4 DEF vars
  <1> QED
    BY <1>1, <1>2, <1>3, <1>4 DEF Next, Device

\* A new command: one that needs the buffer is only sent when it is
\* complete.
LEMMA HostCommandKeeps ==
  ASSUME Inv, InStep, HostCommand
  PROVE  BufferInv'
  <1> USE Short
  <1>t. TypeOK /\ Token
    BY DEF Inv
  <1>1. Reading \/ Answered
    BY <1>t, TokenAt DEF HostCommand
  <1>2. fastboot_state = "COMPLETE" /\ txq = <<>> /\ (evq = <<>> \/ Head(evq).dir = "IN")
    BY <1>1 DEF Reading, Answered, Queues, Sent
  <1>3. PICK c \in Commands, sz \in Sizes :
          /\ c \in {"flash", "boot"} => host.ready
          /\ host' = [host EXCEPT
                !.pc = "wait",
                !.msg = [kind |-> "cmd", cmd |-> c,
                         size |-> IF c = "download" THEN sz ELSE 0],
                !.ready = @ /\ c \notin {"download", "boot"},
                !.downloads = IF c = "download" THEN @ + 1 ELSE @]
    BY DEF HostCommand
  <1>4. UNCHANGED <<fastboot_state, rxq, txq, evq, var, statics>>
    BY DEF HostCommand
  <1>7. /\ host'.pc = "wait" /\ host'.msg.cmd = c
        /\ host'.ready = (host.ready /\ c \notin {"download", "boot"})
    BY <1>3, <1>t DEF TypeOK
  <1>8. \A cmds : Pending(cmds)' => c \in cmds
    BY <1>2, <1>4, <1>7 DEF Pending
  <1>9. c \in {"flash", "boot"} => Complete
    BY <1>3 DEF Inv, BufferInv
  <1>10. c \in {"download", "boot"} => ~host'.ready
    BY <1>7
  <1>11. host'.ready => Complete
    BY <1>7 DEF Inv, BufferInv
  <1> QED
    BY <1>2, <1>4, <1>7, <1>8, <1>9, <1>10, <1>11 DEF BufferInv, Complete, statics

\* A message travels from the host to the device.
LEMMA HostSendKeeps ==
  ASSUME Inv, InStep, HostSend
  PROVE  BufferInv'
  <1> USE Short DEF Queues
  <1>t. TypeOK /\ Token
    BY DEF Inv
  <1>1. /\ host.msg # Nothing /\ rxq # <<>>
        /\ evq' = Append(evq, Read(Head(rxq), host.msg)) /\ rxq' = Tail(rxq)
        /\ host' = [host EXCEPT !.msg = Nothing]
        /\ UNCHANGED <<fastboot_state, txq, var, statics>>
    BY DEF HostSend, Read
  <1>2. /\ host.msg \in Messages /\ host'.msg = Nothing /\ host'.pc = host.pc
        /\ host'.ready = host.ready
    BY <1>1, <1>t, HostTypes DEF TypeOK
  <1>3. Reading \/ DataToSend
    BY <1>1, <1>t, TokenAt
  <1>4. /\ evq' = <<Read(Head(rxq), host.msg)>> \/ evq' = <<Sent, Read(Head(rxq), host.msg)>>
        /\ txq = <<>>
    <2>1. CASE Reading
      BY <1>1, <2>1 DEF Reading
    <2>2. CASE DataToSend
      <3>1. rxq = <<"data">> /\ txq = <<>> /\ evq \in {<<>>, <<Sent>>}
        BY <2>2 DEF DataToSend
      <3>2. evq' = Append(evq, Read(Head(rxq), host.msg))
        BY <1>1
      <3>3. evq = <<>> => evq' = <<Read(Head(rxq), host.msg)>>
        BY <3>2
      <3>4. evq = <<Sent>> => evq' = <<Sent, Read(Head(rxq), host.msg)>>
        BY <3>2
      <3> QED
        BY <3>1, <3>3, <3>4
    <2> QED
      BY <1>3, <2>1, <2>2
  <1>5. \A cmds : Pending(cmds)' => Pending(cmds)
    <2>1. CASE evq' = <<Read(Head(rxq), host.msg)>>
      BY <1>1, <1>2, <2>1 DEF Pending, Read
    <2>2. CASE evq' = <<Sent, Read(Head(rxq), host.msg)>>
      BY <1>2, <2>2 DEF Pending, Sent
    <2> QED
      BY <1>4, <2>1, <2>2
  <1> QED
    BY <1>1, <1>2, <1>4, <1>5 DEF BufferInv, Complete, Inv, statics

\* A response is read: OKAY makes the buffer the host's to use.
LEMMA HostReceiveKeeps ==
  ASSUME Inv, InStep, HostReceive
  PROVE  BufferInv'
  <1> USE Short DEF Queues, Quiet
  <1>t. TypeOK /\ Token
    BY DEF Inv
  <1>1. /\ txq # <<>> /\ evq' = Append(evq, Sent) /\ txq' = Tail(txq)
        /\ UNCHANGED <<fastboot_state, rxq, var, statics>>
    BY DEF HostReceive, Sent
  <1>2. Answering \/ Listing \/ DataAsked
    BY <1>1, <1>t, TokenAt
  <1>3. txq' = <<>> /\ evq' = <<Sent>> /\ host.msg = Nothing /\ txq = <<Head(txq)>>
    <2>1. CASE Answering
      <3>1. PICK code \in {"OKAY", "FAIL"} : Queues("COMPLETE", <<>>, <<code>>, <<>>)
        BY <2>1 DEF Answering
      <3> QED
        BY <1>1, <2>1, <3>1 DEF Answering
    <2>2. CASE Listing
      BY <1>1, <2>2 DEF Listing
    <2>3. CASE DataAsked
      BY <1>1, <2>3 DEF DataAsked
    <2> QED
      BY <1>2, <2>1, <2>2, <2>3
  <1>5. host \in [pc : {"gone", "idle", "wait", "data"}, msg : Messages \cup {Nothing},
                  ready : BOOLEAN, downloads : 0 .. MaxDownloads]
    BY <1>t DEF TypeOK, Nothing
  <1>6. CASE Answering
    <2>1. PICK code \in {"OKAY", "FAIL"} : Queues("COMPLETE", <<>>, <<code>>, <<>>)
      BY <1>6 DEF Answering
    <2>2. host' = [host EXCEPT !.pc = "idle", !.ready = @ \/ (host.pc = "data" /\ code = "OKAY")]
      BY <2>1 DEF HostReceive
    <2>3. /\ host'.pc = "idle" /\ host'.msg = Nothing
          /\ host'.ready = (host.ready \/ (host.pc = "data" /\ code = "OKAY"))
      BY <1>3, <1>5, <2>2
    <2>4. \A cmds : ~Pending(cmds)'
      BY <1>3, <2>3 DEF Pending, Sent
    <2>5. host'.ready => Complete
      BY <2>1, <2>3 DEF Inv, BufferInv
    <2> QED
      BY <1>1, <1>3, <2>1, <2>3, <2>4, <2>5 DEF BufferInv, Complete, statics
  <1>7. CASE Listing
    <2>1. txq = <<"INFO">> /\ fastboot_state = "GETVAR"
      BY <1>1, <1>7 DEF Listing
    <2>2. host' = host
      BY <2>1 DEF HostReceive
    <2>3. \A cmds : ~Pending(cmds)'
      BY <1>3, <2>2 DEF Pending, Sent
    <2> QED
      BY <1>1, <2>1, <2>2, <2>3 DEF BufferInv, Complete, Inv, statics
  <1>8. CASE DataAsked
    <2>1. txq = <<"DATA">> /\ fastboot_state = "DOWNLOAD"
      BY <1>8 DEF DataAsked
    <2>2. PICK n \in {download_size, 0} :
             host' = [host EXCEPT !.pc = "data",
                                  !.msg = [kind |-> "data", cmd |-> "data", size |-> n]]
      BY <2>1 DEF HostReceive
    <2>3. host'.pc = "data" /\ host'.msg.cmd = "data" /\ host'.ready = host.ready
      BY <1>5, <2>2
    <2>4. ~Pending({"download", "boot"})' /\ ~Pending({"flash", "boot"})'
      BY <1>3, <2>3 DEF Pending, Sent
    <2> QED
      BY <1>1, <2>1, <2>3, <2>4 DEF BufferInv, Complete, Inv, statics
  <1> QED
    BY <1>2, <1>6, <1>7, <1>8

LEMMA BufferKept ==
  ASSUME Inv, InStep, [Next]_vars, InStep'
  PROVE  BufferInv'
  <1>t. Token /\ TypeOK
    BY DEF Inv
  <1>1. CASE StartCallback
    BY <1>1, <1>t, SessionStarts
  <1>2. CASE RxInconsistent
    BY <1>2, <1>t, NeverInconsistent
  <1>3. CASE RxCommand \/ RxData \/ TxGetvar \/ TxComplete \/ TxDownload
    BY <1>3, RxCommandKeeps, RxDataKeeps, TxKeeps
  <1>4. CASE Host
    BY <1>4, HostCommandKeeps, HostSendKeeps, HostReceiveKeeps DEF Host
  <1>5. CASE UNCHANGED vars
    BY <1>5 DEF vars, Inv, BufferInv, Complete, Pending
  <1> QED
    BY <1>1, <1>2, <1>3, <1>4, <1>5 DEF Next, Device

LEMMA InvKept ==
  ASSUME Inv, [Next]_vars
  PROVE  Inv'
  <1>1. TypeOK' /\ HeapInv'
    BY TypesKept DEF Inv
  <1>2. ASSUME InStep' PROVE Token' /\ BufferInv'
    <2>1. CASE InStep
      BY <1>2, <2>1, TokenStep, BufferKept
    <2>2. CASE ~InStep
      BY <1>2, <2>2, BackInStep, SessionStarts DEF Inv
    <2> QED
      BY <2>1, <2>2
  <1> QED
    BY <1>1, <1>2 DEF Inv

LEMMA InvAlways == Spec => []Inv
  <1>1. Inv /\ [Next]_vars => Inv'
    BY InvKept
  <1> QED
    BY <1>1, FastbootStarts, PTL DEF Spec

-----------------------------------------------------------------------------
(***************************************************************************)
(* The theorems.                                                           *)
(***************************************************************************)
\* The engine's variables stay in their types, in step or not: among them, the
\* pool is never given back more than was taken (fastboot.c:292, 336).
THEOREM FastbootTypes == Spec => []TypeOK
  <1>1. Inv => TypeOK
    BY DEF Inv
  <1> QED
    BY <1>1, InvAlways, PTL

\* While no command has had two answers, one read is outstanding at most, and
\* it is the one the state expects.
THEOREM ReadsSafe == Spec => []ReadMatchesState
  <1>1. Inv => ReadMatchesState
    <2> SUFFICES ASSUME Inv, InStep PROVE ReadMatchesState
      BY DEF ReadMatchesState
    <2> USE DEF Queues, ReadMatchesState, Gone, Reading, Answered, Arrived, Answering, Listing,
                DataAsked, DataToSend, DataArrived
    <2>1. Len(<<>>) = 0 /\ Len(<<"cmd">>) = 1 /\ Len(<<"data">>) = 1
          /\ <<"cmd">> # <<"data">> /\ <<"cmd">> # <<>> /\ <<"data">> # <<>>
      OBVIOUS
    <2>2. CASE rxq = <<>>
      BY <2>1, <2>2
    <2>3. CASE rxq = <<"cmd">> /\ fastboot_state = "COMPLETE"
      BY <2>1, <2>3
    <2>4. CASE rxq = <<"data">> /\ fastboot_state = "DOWNLOAD"
      BY <2>1, <2>4
    <2> QED
      BY <2>2, <2>3, <2>4 DEF Inv, Token
  <1> QED
    BY <1>1, InvAlways, PTL

\* While no command has had two answers, a completed read finds the engine
\* waiting for it.
THEOREM RxSafe == Spec => []RxConsistent
  <1>1. Inv => RxConsistent
    <2> SUFFICES ASSUME Inv, InStep, evq # <<>>, Head(evq).dir = "OUT"
                 PROVE  fastboot_state = (IF Head(evq).msg.kind = "data"
                                          THEN "DOWNLOAD" ELSE "COMPLETE")
      BY DEF RxConsistent
    <2> USE Short DEF Queues, Read, Sent
    <2>1. CASE Arrived
      BY <2>1 DEF Arrived
    <2>2. CASE DataArrived /\ \E m \in Messages : m.kind = "data" /\ evq = <<Read("data", m)>>
      BY <2>2 DEF DataArrived
    <2> QED
      BY <2>1, <2>2, ArrivedAt DEF Inv
  <1> QED
    BY <1>1, InvAlways, PTL

\* A host between two commands has read every response, unless the command
\* was one of the two that fastboot.c answers twice.
THEOREM AnswersSafe == Spec => []NoStaleResponse
  <1>1. Inv => NoStaleResponse
    BY DEF Inv, Token, NoStaleResponse, Queues, Gone, Reading, Answered, Arrived, Answering,
           Listing, DataAsked, DataToSend, DataArrived
  <1> QED
    BY <1>1, InvAlways, PTL

\* What flash and boot are given in a session in step is a complete image.
THEOREM ImageSafe == Spec => ImageComplete
  <1>1. Inv /\ InStep => (evq # <<>> /\ Head(evq).dir = "OUT" /\ Head(evq).msg.cmd \in {"flash", "boot"}
                => Complete)
    BY DEF Inv, BufferInv, Pending
  <1>2. Inv /\ [Next]_vars =>
          [InStep /\ fastboot_state = "COMPLETE" /\ evq # <<>> /\ Head(evq).dir = "OUT"
             /\ evq' # evq /\ host.pc = "wait"
             /\ Head(evq).msg.cmd \in {"flash", "boot"}
           => addr.ptr = "live" /\ addr.got = download_size /\ addr.cap = download_size]_vars
    BY <1>1 DEF Complete
  <1> QED
    BY <1>2, InvAlways, PTL DEF Spec, ImageComplete
=============================================================================

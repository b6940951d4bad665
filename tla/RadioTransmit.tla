---------------------------- MODULE RadioTransmit ----------------------------
(***************************************************************************)
(* The transmit path of the LoRa radio: the priority queue of packets to   *)
(* send (MeshPacketQueue), the interface that arms a delay, listens and    *)
(* transmits (RadioLibInterface, SX126xInterface) and the worker thread    *)
(* that an interrupt or a timer wakes (NotifiedWorkerThread).              *)
(*                                                                         *)
(* Everything but the interrupt runs on the main loop, one call at a time. *)
(* The interrupt may come between any two of its statements, and the calls *)
(* nest: setStandby() handles a pending notification before it stops the   *)
(* chip, from inside the handler of another one. "stack" holds what the    *)
(* main loop still has to do of the current call, innermost first.         *)
(***************************************************************************)
EXTENDS Naturals, FiniteSets, SequencesExt

CONSTANTS Packets,      \* the packets callers send: records, see Packet
          MaxLen,       \* MAX_TX_QUEUE
          HopLimits,    \* hop limits a better copy of a queued packet may have
          MaxArrivals,  \* packets that come in while a packet waits to be sent
          Idle          \* no packet is being sent

Packet == [id: Nat, priority: Nat, ours: BOOLEAN, hop: Nat, late: BOOLEAN]

ASSUME PacketsAssumption == /\ Packets \subseteq Packet
                            /\ \A p \in Packets : ~p.late
                            /\ MaxLen \in Nat \ {0} /\ MaxArrivals \in Nat
                            /\ Idle \notin Packet

VARIABLES queue,        \* txQueue
          sending,      \* sendingPacket
          notification, \* the one notification the worker thread remembers
          enabled,      \* the worker thread is due, now or after its delay
          isReceiving,
          chip,         \* what the radio does: "standby", "rx", "tx"
          irq,          \* the handler attached to its interrupt line, if any
          txEnabled,    \* config.lora.tx_enabled and not disabled
          stack,        \* the statements the main loop still has to execute
          taken,        \* the notification checkNotification() has read
          lost,         \* history: an interrupt's notification was wiped
          arrivals,     \* packets received while one waited, up to MaxArrivals
          outage        \* history: the radio was reconfigured or a send was
                        \* refused or failed, and nothing woke the worker since

vars == <<queue, sending, notification, enabled, isReceiving, chip, irq,
          txEnabled, stack, taken, lost, outage, arrivals>>
radio == <<chip, irq, isReceiving, sending>>
wake  == <<notification, enabled, taken, lost, outage>>
ghost == <<lost, outage>>

Interrupts == {"ISR_TX", "ISR_RX"}
Statements == {"check", "clear", "tx", "rx", "delayed", "scan", "send",
               "standby", "halt", "listen", "rxOn", "setDelay", "arm", "off"}

----------------------------------------------------------------------------
(* The queue *)

\* CompareMeshPacketFunc: packets of the late window last, then by priority,
\* then those already on the mesh
Before(p, q) ==
    IF p.late # q.late THEN ~p.late
    ELSE IF p.priority # q.priority THEN p.priority > q.priority
    ELSE ~p.ours /\ q.ours

\* Mutant of Inserted: first come, first served.
Appended(q, p) == Append(q, p)

\* std::upper_bound: behind everything that p does not precede
Inserted(q, p) ==
    LET i == SelectInSeq(q, LAMBDA x : Before(p, x))
    IN  IF i = 0 THEN Append(q, p) ELSE InsertAt(q, i, p)

\* replaceLowerPriorityPacket gives up the last packet outside the late window
Victim(q) == SelectLastInSeq(q, LAMBDA x : ~x.late)

\* Mutant of Replaceable: an equal priority is enough.
ReplaceableByEqual(q, p) ==
    Victim(q) # 0 /\ q[Victim(q)].priority <= p.priority

Replaceable(q, p) == Victim(q) # 0 /\ q[Victim(q)].priority < p.priority

\* MeshPacketQueue::enqueue accepts p
Accepts(q, p) == Len(q) < MaxLen \/ Replaceable(q, p)

\* Mutant of Enqueued: no room is made for p.
InsertedUnbounded(q, p) == Inserted(q, p)

Enqueued(q, p) ==
    IF Len(q) < MaxLen THEN Inserted(q, p)
    ELSE Inserted(RemoveAt(q, Victim(q)), p)

Queued(id) == \E i \in DOMAIN queue : queue[i].id = id

----------------------------------------------------------------------------
(* The main loop's statements *)

Top(s) == stack # <<>> /\ Head(stack) = s

\* the statement on top is replaced by the statements it calls
Then(ss) == stack' = ss \o Tail(stack)

InMainLoop == stack = <<>>

\* NotifiedWorkerThread::runOnce
Run ==
    /\ InMainLoop
    /\ enabled
    /\ enabled' = FALSE
    /\ stack' = <<"check">>
    /\ outage' = (outage /\ notification = "none")
    /\ UNCHANGED <<arrivals, queue, radio, notification, txEnabled, taken, lost>>

\* checkNotification reads the notification ...
Check ==
    /\ Top("check")
    /\ taken' = notification
    /\ Then(<<"clear">>)
    /\ UNCHANGED <<arrivals, queue, radio, notification, enabled, txEnabled, ghost>>

Handler(n) == CASE n = "ISR_TX" -> <<"tx">>
                [] n = "ISR_RX" -> <<"rx">>
                [] n = "DELAY"  -> <<"delayed">>
                [] OTHER        -> <<>>

\* ... and clears it, with whatever an interrupt has stored in between
Clear ==
    /\ Top("clear")
    /\ lost' = (lost \/ (notification # taken /\ notification \in Interrupts))
    /\ notification' = "none"
    /\ Then(Handler(taken))
    /\ taken' = "none"
    /\ UNCHANGED <<arrivals, queue, radio, enabled, txEnabled, outage>>

\* handleTransmitInterrupt, completeSending
HandleTransmitInterrupt ==
    /\ Top("tx")
    /\ sending' = Idle
    /\ Then(<<"listen", "setDelay">>)
    /\ UNCHANGED <<arrivals, queue, wake, chip, irq, isReceiving, txEnabled>>

\* Mutant of HandleReceiveInterrupt: no setTransmitDelay() after it.
HandleReceiveOnly ==
    /\ Top("rx")
    /\ isReceiving' = FALSE
    /\ Then(<<"listen">>)
    /\ UNCHANGED <<arrivals, queue, wake, chip, irq, sending, txEnabled>>

\* handleReceiveInterrupt: what was received goes to the router's own queue
HandleReceiveInterrupt ==
    /\ Top("rx")
    /\ isReceiving' = FALSE
    /\ Then(<<"listen", "setDelay">>)
    /\ UNCHANGED <<arrivals, queue, wake, chip, irq, sending, txEnabled>>

\* onNotify(TRANSMIT_DELAY_COMPLETED) finds nothing to send
NothingQueued ==
    /\ Top("delayed")
    /\ queue = <<>>
    /\ Then(<<>>)
    /\ UNCHANGED <<arrivals, queue, radio, wake, txEnabled>>

\* the transmission has ended but its interrupt will not come
Stuck == sending # Idle /\ chip # "tx" /\ notification # "ISR_TX"

\* canSendImmediately() is false: wait another random delay
Busy ==
    /\ Top("delayed")
    /\ queue # <<>>
    /\ ~Stuck
    /\ sending # Idle \/ isReceiving
    /\ Then(<<"setDelay">>)
    /\ UNCHANGED <<arrivals, queue, radio, wake, txEnabled>>

\* the packet in front still has to wait for its place in the late window
StillLate ==
    /\ Top("delayed")
    /\ queue # <<>>
    /\ sending = Idle
    /\ Head(queue).late
    /\ Then(IF notification = "none" THEN <<"arm">> ELSE <<>>)
    /\ UNCHANGED <<arrivals, queue, radio, wake, txEnabled>>

\* Mutant of TryToSend: the scan does not stop the receiver first.
ScanWhileReceiving ==
    /\ Top("delayed")
    /\ queue # <<>>
    /\ sending = Idle
    /\ Then(<<"scan">>)
    /\ UNCHANGED <<arrivals, queue, radio, wake, txEnabled>>

\* Mutant of TryToSend: being in the late window is taken for still waiting.
TryToSendUnlessLate ==
    /\ Top("delayed")
    /\ queue # <<>>
    /\ sending = Idle
    /\ ~Head(queue).late
    /\ Then(<<"standby", "scan">>)
    /\ UNCHANGED <<arrivals, queue, radio, wake, txEnabled>>

\* isChannelActive() puts the chip in standby and scans
TryToSend ==
    /\ Top("delayed")
    /\ queue # <<>>
    /\ sending = Idle
    /\ Then(<<"standby", "scan">>)
    /\ UNCHANGED <<arrivals, queue, radio, wake, txEnabled>>

ChannelActive ==
    /\ Top("scan")
    /\ Then(<<"listen", "setDelay">>)
    /\ UNCHANGED <<arrivals, queue, radio, wake, txEnabled>>

ChannelFree ==
    /\ Top("scan")
    /\ Then(<<"send">>)
    /\ UNCHANGED <<arrivals, queue, radio, wake, txEnabled>>

\* startSend drops the packet if the transmitter was switched off meanwhile
SendRefused ==
    /\ Top("send")
    /\ ~txEnabled
    /\ queue' = Tail(queue)
    /\ Then(<<>>)
    /\ outage' = TRUE
    /\ arrivals' = 0
    /\ UNCHANGED <<radio, notification, enabled, taken, lost, txEnabled>>

\* Mutant of SendStarted: the handler is not attached.
SendStartedUnwatched ==
    /\ Top("send")
    /\ txEnabled
    /\ queue' = Tail(queue)
    /\ sending' = Head(queue)
    /\ chip' = "tx"
    /\ arrivals' = 0
    /\ Then(<<>>)
    /\ UNCHANGED <<wake, irq, isReceiving, txEnabled>>

SendStarted ==
    /\ Top("send")
    /\ txEnabled
    /\ queue' = Tail(queue)
    /\ sending' = Head(queue)
    /\ chip' = "tx"
    /\ irq' = "tx"
    /\ arrivals' = 0
    /\ Then(<<>>)
    /\ UNCHANGED <<wake, isReceiving, txEnabled>>

\* startTransmit() returns an error: the packet is dropped
SendFailed ==
    /\ Top("send")
    /\ txEnabled
    /\ queue' = Tail(queue)
    /\ Then(<<"listen">>)
    /\ outage' = TRUE
    /\ arrivals' = 0
    /\ UNCHANGED <<radio, notification, enabled, taken, lost, txEnabled>>

\* setStandby handles any pending interrupt before it stops the chip
Standby ==
    /\ Top("standby")
    /\ Then(<<"check", "halt">>)
    /\ UNCHANGED <<arrivals, queue, radio, wake, txEnabled>>

\* Mutant of Halt: the packet that was being sent is kept.
HaltOnly ==
    /\ Top("halt")
    /\ chip' = "standby"
    /\ irq' = "none"
    /\ isReceiving' = FALSE
    /\ Then(<<>>)
    /\ UNCHANGED <<arrivals, queue, wake, sending, txEnabled>>

\* "If we were sending, not anymore"
Halt ==
    /\ Top("halt")
    /\ chip' = "standby"
    /\ irq' = "none"
    /\ isReceiving' = FALSE
    /\ sending' = Idle
    /\ Then(<<>>)
    /\ UNCHANGED <<arrivals, queue, wake, txEnabled>>

\* SX126xInterface::startReceive
Listen ==
    /\ Top("listen")
    /\ Then(<<"standby", "rxOn">>)
    /\ UNCHANGED <<arrivals, queue, radio, wake, txEnabled>>

ReceiverOn ==
    /\ Top("rxOn")
    /\ chip' = "rx"
    /\ irq' = "rx"
    /\ isReceiving' = TRUE
    /\ Then(<<>>)
    /\ UNCHANGED <<arrivals, queue, wake, sending, txEnabled>>

\* setTransmitDelay: notifyLater() does not overwrite a notification ...
SetTransmitDelay ==
    /\ Top("setDelay")
    /\ Then(IF queue # <<>> /\ notification = "none" THEN <<"arm">> ELSE <<>>)
    /\ UNCHANGED <<arrivals, queue, radio, wake, txEnabled>>

\* ... that was there when it looked
Arm ==
    /\ Top("arm")
    /\ lost' = (lost \/ notification \in Interrupts)
    /\ notification' = "DELAY"
    /\ enabled' = TRUE
    /\ Then(<<>>)
    /\ UNCHANGED <<arrivals, queue, radio, txEnabled, taken, outage>>

----------------------------------------------------------------------------
(* The radio and its interrupt, between any two statements *)

\* isrLevel0Common: detach the handler, then notify with overwrite
Interrupt(from, handler, n) ==
    /\ chip = from
    /\ chip' = "standby"
    /\ irq = handler
    /\ irq' = "none"
    /\ notification' = n
    /\ enabled' = TRUE
    /\ UNCHANGED <<queue, sending, isReceiving, txEnabled, stack, taken, ghost>>

TxDone == Interrupt("tx", "tx", "ISR_TX") /\ UNCHANGED arrivals

\* the channel leaves a waiting packet its chance after MaxArrivals others
RxDone ==
    /\ Interrupt("rx", "rx", "ISR_RX")
    /\ IF queue = <<>> THEN arrivals' = 0
       ELSE arrivals < MaxArrivals /\ arrivals' = arrivals + 1

----------------------------------------------------------------------------
(* What callers on the main loop do *)

\* RadioLibInterface::send. A retransmission sends a copy of the packet, and
\* nothing looks whether the first one still waits or is on the air.
Send(p) ==
    /\ InMainLoop
    /\ txEnabled
    /\ Accepts(queue, p)
    /\ queue' = Enqueued(queue, p)
    /\ stack' = <<"setDelay">>
    /\ arrivals' = IF queue = <<>> THEN 0 ELSE arrivals
    /\ UNCHANGED <<radio, wake, txEnabled>>

\* cancelSending
Cancel(id) ==
    /\ InMainLoop
    /\ Queued(id)
    /\ queue' = RemoveFirstMatch(queue, LAMBDA x : x.id = id)
    /\ UNCHANGED <<arrivals, radio, wake, txEnabled, stack>>

\* clampToLateRebroadcastWindow: a relayed packet leaves its place and joins
\* the late window
ClampToLate(id) ==
    LET i == SelectInSeq(queue, LAMBDA x : x.id = id /\ ~x.late)
    IN  /\ InMainLoop
        /\ i # 0
        /\ queue' = Enqueued(RemoveAt(queue, i), [queue[i] EXCEPT !.late = TRUE])
        /\ UNCHANGED <<arrivals, radio, wake, txEnabled, stack>>

\* removePendingTXPacket: a copy with more hops left is on its way
RemovePending(id, hop) ==
    LET Worse(x) == x.id = id /\ x.hop < hop
    IN  /\ InMainLoop
        /\ SelectInSeq(queue, Worse) # 0
        /\ queue' = RemoveFirstMatch(queue, Worse)
        /\ UNCHANGED <<arrivals, radio, wake, txEnabled, stack>>

\* reloadConfig: SX126xInterface::reconfigure
Reconfigure(enable) ==
    /\ InMainLoop
    /\ txEnabled' = enable
    /\ stack' = <<"standby", "listen">>
    /\ outage' = TRUE
    /\ UNCHANGED <<arrivals, queue, radio, notification, enabled, taken, lost>>

\* doDeepSleep, once canSleep() has agreed
DeepSleep ==
    /\ InMainLoop
    /\ queue = <<>>
    /\ stack' = <<"standby", "off">>
    /\ UNCHANGED <<arrivals, queue, radio, wake, txEnabled>>

Init ==
    /\ queue = <<>>
    /\ sending = Idle
    /\ notification = "none"
    /\ enabled = FALSE
    /\ isReceiving = TRUE
    /\ chip = "rx"
    /\ irq = "rx"
    /\ txEnabled = TRUE
    /\ stack = <<>>
    /\ taken = "none"
    /\ lost = FALSE
    /\ outage = FALSE
    /\ arrivals = 0

\* what was queued or on the air is forgotten; the configuration is kept
Boot ==
    /\ queue' = <<>>
    /\ sending' = Idle
    /\ notification' = "none"
    /\ enabled' = FALSE
    /\ isReceiving' = TRUE
    /\ chip' = "rx"
    /\ irq' = "rx"
    /\ stack' = <<>>
    /\ taken' = "none"
    /\ lost' = FALSE
    /\ outage' = FALSE
    /\ arrivals' = 0
    /\ UNCHANGED txEnabled

\* waking from deep sleep is a boot
WakeUp == Top("off") /\ Boot

\* waitEnterSleep() polls canSleep() on the main loop, which alone could empty
\* the queue: after 30 seconds it gives up with assert(0)
SleepGivesUp == InMainLoop /\ queue # <<>> /\ Boot

\* "busyTx for more than 60s": canSendImmediately() schedules a reboot
RebootWhenStuck ==
    /\ Top("delayed")
    /\ queue # <<>>
    /\ Stuck
    /\ Boot

Worker ==
    \/ Run \/ Check \/ Clear
    \/ HandleTransmitInterrupt \/ HandleReceiveInterrupt
    \/ NothingQueued \/ Busy \/ StillLate \/ TryToSend
    \/ ChannelActive \/ ChannelFree
    \/ SendRefused \/ SendStarted \/ SendFailed
    \/ Standby \/ Halt \/ Listen \/ ReceiverOn \/ SetTransmitDelay \/ Arm
    \/ WakeUp \/ RebootWhenStuck

Next ==
    \/ Worker
    \/ TxDone
    \/ RxDone
    \/ \E p \in Packets : Send(p) \/ Cancel(p.id) \/ ClampToLate(p.id)
    \/ \E p \in Packets, hop \in HopLimits : RemovePending(p.id, hop)
    \/ \E enable \in BOOLEAN : Reconfigure(enable)
    \/ DeepSleep
    \/ SleepGivesUp

\* The main loop never stops and gives every thread that is due its turn (so
\* strong fairness of Run), a transmission ends, and the channel is not found
\* taken at every look.
Fairness ==
    /\ WF_vars(Worker)
    /\ WF_vars(TxDone)
    /\ SF_vars(Run)
    /\ SF_vars(TryToSend)
    /\ SF_vars(ChannelFree)

Spec == Init /\ [][Next]_vars /\ Fairness

----------------------------------------------------------------------------
(* Properties *)

TypeOK ==
    /\ \A i \in DOMAIN queue : queue[i] \in Packet
    /\ Len(queue) <= MaxLen
    /\ sending \in Packet \cup {Idle}
    /\ notification \in Interrupts \cup {"none", "DELAY"}
    /\ taken \in Interrupts \cup {"none", "DELAY"}
    /\ chip \in {"standby", "rx", "tx"}
    /\ irq \in {"none", "rx", "tx"}
    /\ enabled \in BOOLEAN /\ isReceiving \in BOOLEAN
    /\ txEnabled \in BOOLEAN /\ lost \in BOOLEAN /\ outage \in BOOLEAN
    /\ arrivals \in 0..MaxArrivals
    /\ \A i \in DOMAIN stack : stack[i] \in Statements

\* However calls nest, and however many copies of a packet wait, the queue
\* keeps the order that upper_bound() relies on (CompareMeshPacketFunc): late
\* packets last, then by priority, then relayed ones before our own.
QueueInOrder ==
    \A i, j \in DOMAIN queue : i < j => ~Before(queue[j], queue[i])

\* beginSending()'s assertion !sendingPacket: the handler of a delay that
\* fired inside another handler never leaves a packet in the transmitter that
\* the outer one then overwrites, and there is a packet to take.
TransmitterFree == Top("send") => sending = Idle /\ queue # <<>> /\ chip = "standby"

\* Between two calls a packet being sent is watched: the radio is still at it
\* with the handler attached, or its interrupt is remembered. Only an interrupt
\* wiped by the worker thread itself breaks this.
TransmitterIsWatched ==
    InMainLoop /\ sending # Idle /\ ~lost =>
        \/ chip = "tx" /\ irq = "tx"
        \/ notification = "ISR_TX" /\ enabled

\* The main loop is idle with packets queued and nothing will wake it.
Stalled ==
    /\ InMainLoop
    /\ queue # <<>>
    /\ sending = Idle
    /\ ~(enabled /\ notification # "none")

\* Packets are left queued without a wake-up only when the radio was
\* reconfigured, a send was refused or failed, or an interrupt was wiped: no
\* order of sends, interrupts, nested handlers and cancellations strands them
\* (every other way out of onNotify() passes setTransmitDelay()).
StallsOnlyInOutage == Stalled => outage \/ lost

\* how many copies of packet x wait in q
Copies(q, x) == Cardinality({i \in DOMAIN q : q[i] = x})

\* A packet that takes the place of another has a strictly higher priority,
\* and what it replaces is the least urgent packet outside the late window.
EvictsLeastUrgent ==
    [][\A p \in Packets : Send(p) =>
        \A i \in DOMAIN queue :
            Copies(queue', queue[i]) < Copies(queue, queue[i]) =>
                /\ p.priority > queue[i].priority
                /\ ~queue[i].late
                /\ \A k \in DOMAIN queue :
                       queue[k].late \/ queue[k].priority >= queue[i].priority]_vars

\* Whatever the channel, the interrupts and the callers do, a queued packet
\* does not wait for ever: the one in front is handed to the transmitter, or the
\* queue empties, outages and wiped interrupts aside.
KeepsSending ==
    (queue # <<>>) ~> (queue = <<>> \/ Top("send") \/ Stalled \/ lost)

\* Every transmission is completed, if need be by the reboot that canSend-
\* Immediately() schedules, except after a wiped interrupt: with nothing queued
\* the radio then stays in standby, and deaf, until the next send.
SendsFinish == (sending # Idle) ~> (sending = Idle \/ lost)

\* "Return true if we think the board can go to sleep (i.e. our tx queue is
\* empty, we are not sending or receiving)": deep sleep cuts no transmission.
SleepCutsNoSend ==
    Top("halt") /\ Last(stack) = "off" => chip # "tx"
=============================================================================

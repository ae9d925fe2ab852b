------------------------------ MODULE RelayTimers -----------------------------
(***************************************************************************)
(* The timers of the legacy proxy (proxy_server/timer.c): one until the    *)
(* connected clients are pinged, one for each packet that waits for its    *)
(* acknowledgement, and one until the connection to the switcher counts as *)
(* dropped.  nextTimer points to the one the event loop waits for.         *)
(*                                                                         *)
(* The drop timer is enabled before the event loop starts and never        *)
(* disabled.  Of the packets' timers only that of the oldest packet counts *)
(* (nextResendTimer), as all packets wait equally long.  A timer is the    *)
(* time that is left until it expires, zero or less if it has.             *)
(*                                                                         *)
(* An operator takes a record s with at least the fields                   *)
(*   pingTimer, dropTimer    time left                                     *)
(*   packets                 packets in memory, each with a resendTimer    *)
(*   nextPingTimer           PingTimer, or NoTimer if it is disabled       *)
(*   nextResendTimer         a packet, or NoTimer                          *)
(*   nextTimer               PingTimer, DropTimer, a packet, or NoTimer    *)
(* and returns the record the C function leaves behind.                    *)
(***************************************************************************)
EXTENDS Integers

CONSTANTS
    PingTimer, DropTimer, NoTimer,
    ResendTime,       \* ATEM_RESEND_TIME
    PingInterval,     \* ATEM_PING_INTERVAL
    Timeout           \* ATEM_TIMEOUT

\* The sizes that timer.c checks when it is compiled.
ASSUME TimersAssumption ==
    /\ ResendTime \in Nat \ {0} /\ PingInterval \in Nat /\ Timeout \in Nat
    /\ ResendTime <= PingInterval /\ PingInterval <= Timeout

ASSUME TimerNamesAssumption ==
    PingTimer # DropTimer /\ PingTimer # NoTimer /\ DropTimer # NoTimer

TimeLeft(s, timer) ==
    CASE timer = PingTimer -> s.pingTimer
      [] timer = DropTimer -> s.dropTimer
      [] OTHER             -> s.packets[timer].resendTimer

Smaller(s, timerA, timerB) == TimeLeft(s, timerA) < TimeLeft(s, timerB)

\* setNextTimerToNearest()
Nearest(s, timerA, timerB) ==
    IF timerA = NoTimer \/ (timerB # NoTimer /\ Smaller(s, timerB, timerA))
    THEN timerB ELSE timerA

\* The timer becomes the next one if it is nearer.
Sooner(s, timer) ==
    [s EXCEPT !.nextTimer = IF @ = NoTimer \/ Smaller(s, timer, @) THEN timer ELSE @]

PingTimerRestart(s) ==
    LET restarted == [s EXCEPT !.pingTimer = PingInterval]
    IN  Sooner(IF s.nextResendTimer = NoTimer THEN restarted
               ELSE [restarted EXCEPT !.nextTimer = s.nextResendTimer],
               DropTimer)

PingTimerEnable(s) ==
    Sooner([s EXCEPT !.nextPingTimer = PingTimer, !.pingTimer = PingInterval], PingTimer)

PingTimerDisable(s) ==
    [s EXCEPT !.nextPingTimer = NoTimer,
              !.nextTimer = IF @ # PingTimer THEN @
                            ELSE Nearest(s, s.nextResendTimer, DropTimer)]

ResendTimerAdd(s, packet) == Sooner([s EXCEPT !.nextResendTimer = packet], packet)

\* Mutation: the pings are forgotten.
ResendTimerRemovePingless(s, packet) ==
    [s EXCEPT !.nextResendTimer = packet,
              !.nextTimer = IF @ # s.nextResendTimer THEN @ ELSE Nearest(s, packet, DropTimer)]

\* packet is the one behind the packet that is removed, or NoTimer.
ResendTimerRemove(s, packet) ==
    LET nearest == Nearest(s, s.nextPingTimer, packet)
    IN  [s EXCEPT !.nextResendTimer = packet,
                  !.nextTimer = IF @ # s.nextResendTimer THEN @
                                ELSE IF nearest = NoTimer THEN DropTimer
                                ELSE Nearest(s, nearest, DropTimer)]

\* If both the pings and a packet wait, and the packet not longer than the pings, the
\* next timer stays the drop timer.
DropTimerRestart(s) ==
    LET pings   == s.nextPingTimer # NoTimer
        packets == s.nextResendTimer # NoTimer
        next    == CASE ~ pings /\ ~ packets -> DropTimer
                     [] pings /\ ~ packets   -> PingTimer
                     [] ~ pings /\ packets   -> s.nextResendTimer
                     [] pings /\ packets     ->
                            IF Smaller(s, PingTimer, s.nextResendTimer) THEN PingTimer ELSE DropTimer
    IN  [s EXCEPT !.dropTimer = Timeout, !.nextTimer = IF @ # DropTimer THEN @ ELSE next]

===============================================================================

-------------------------------- MODULE Uart --------------------------------
(***************************************************************************)
(* I8250X (src/src/dev/cellx/i8250x.cc), one serial port of the ICH, as    *)
(* operators on a record:                                                  *)
(*   ier     the interrupts enabled in IER, a subset of {"RX", "TX"}       *)
(*   dlab    bit 7 of LCR: offsets 0 and 1 are the divisor latch           *)
(*   status  the interrupts pending                                        *)
(*   events  which of rxIntrEvent and txIntrEvent are scheduled            *)
(*   data    characters waiting in the terminal                            *)
(*   pin     the level of intPin at the IO APIC (pinStates)                *)
(*   edges   signalInterrupt calls that raising the pin has caused         *)
(* The 225 ns of a delayed interrupt and of lastTxInt are abstracted: a    *)
(* scheduled event fires at any later time, and a write of IER finds the   *)
(* last interrupt recent or not.                                           *)
(***************************************************************************)
EXTENDS Integers, FiniteSets

NewUart == [ier |-> {}, dlab |-> FALSE, status |-> {}, events |-> {}, data |-> 0,
            pin |-> FALSE, edges |-> 0]

(* raiseInterruptPin signals on a low to high change only.                 *)
Raise(u) == IF u.pin THEN u ELSE [u EXCEPT !.pin = TRUE, !.edges = @ + 1]
Lower(u) == [u EXCEPT !.pin = FALSE]

(* IntrEvent::process and scheduleIntr; rescheduling keeps one event.      *)
Process(u, bit) == IF bit \in u.ier THEN [Raise(u) EXCEPT !.status = @ \cup {bit}] ELSE u
ScheduleIntr(u, bit) == [u EXCEPT !.events = @ \cup {bit}]
Fire(u, bit) == Process([u EXCEPT !.events = @ \ {bit}], bit)

(* The interrupt is disabled, or for RX there is nothing to read.          *)
Withdraw(u, bit) ==
    [(IF bit \in u.status THEN Lower(u) ELSE u)
        EXCEPT !.events = @ \ {bit}, !.status = @ \ {bit}]

-----------------------------------------------------------------------------
(* read                                                                    *)
BugReadRBR(u) ==
    LET v == [u EXCEPT !.data = IF @ > 0 THEN @ - 1 ELSE 0, !.status = @ \ {"RX"}]
    IN  IF v.data > 0 /\ "RX" \in v.ier THEN ScheduleIntr(v, "RX") ELSE v
ReadRBR(u) ==
    IF u.dlab THEN u
    ELSE LET v == [Lower(u) EXCEPT !.data = IF @ > 0 THEN @ - 1 ELSE 0, !.status = @ \ {"RX"}]
         IN  IF v.data > 0 /\ "RX" \in v.ier THEN ScheduleIntr(v, "RX") ELSE v

IIR(u) == IF "RX" \in u.status THEN "RX" ELSE IF "TX" \in u.status THEN "TX" ELSE "none"
ReadIIR(u) == IF IIR(u) = "TX" THEN [u EXCEPT !.status = @ \ {"TX"}] ELSE u

(* write                                                                   *)
WriteTHR(u) ==
    IF u.dlab THEN u
    ELSE LET v == [Lower(u) EXCEPT !.status = @ \ {"TX"}]
         IN  IF "TX" \in u.ier THEN ScheduleIntr(v, "TX") ELSE v

\* recent: the last interrupt was less than 225 ns ago.
WriteIER(u, ier, recent) ==
    LET v == [u EXCEPT !.ier = ier]
        w == IF "TX" \notin ier THEN Withdraw(v, "TX")
             ELSE IF recent THEN ScheduleIntr(v, "TX") ELSE Process(v, "TX")
    IN  IF u.dlab THEN u
        ELSE IF "RX" \in ier /\ w.data > 0 THEN ScheduleIntr(w, "RX") ELSE Withdraw(w, "RX")

WriteLCR(u, dlab) == [u EXCEPT !.dlab = dlab]

(* The terminal has a character for the port.                              *)
DataAvailable(u) ==
    LET v == [u EXCEPT !.data = @ + 1]
    IN  IF "RX" \in u.ier THEN [Raise(v) EXCEPT !.status = @ \cup {"RX"}] ELSE v
=============================================================================

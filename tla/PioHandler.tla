----------------------------- MODULE PioHandler -----------------------------
(***************************************************************************)
(* The table of pin handlers, pio_handler.c: the main program defines      *)
(* sources and enables pins while the controllers' interrupts search the   *)
(* table.  A controller's interrupt comes between any two steps of the     *)
(* main program and runs to its end before that goes on.  A handler may    *)
(* disable pins of its controller, as one that is called once does.        *)
(*                                                                         *)
(* A user defines a source before enabling its pins; a pin may belong to   *)
(* several sources.                                                        *)
(***************************************************************************)
EXTENDS Naturals

CONSTANTS
  Ids,        \* the PIO controllers
  Pins,       \* the pins of each
  Masks,      \* the sets of pins that handlers are defined for
  MAX_INTERRUPT_SOURCES

PioAssumption ==
  /\ Masks \subseteq SUBSET Pins /\ {} \notin Masks /\ "none" \notin Ids
  /\ MAX_INTERRUPT_SOURCES \in Nat \ {0}

VARIABLES
  source,     \* gs_interrupt_sources: id, mask, is the handler not NULL?
  number,     \* gs_ul_nb_sources
  isr, imr,   \* of each controller: pins with an event since ISR was read; enabled pins
  pc, arg,    \* the main program: its step, and the call it is in
  at, ret,    \* pSource of pio_handler_set; what it returned
  irq, status, i, \* the controller being served; locals of pio_handler_process
  owed        \* history: the pins the interrupt began with that had a source

main == <<pc, arg, at, ret>>
vars == <<source, number, isr, imr, main, irq, status, i, owed>>

Table == 0..(MAX_INTERRUPT_SOURCES - 1)
Unset == [id |-> "none", mask |-> {}, handler |-> FALSE]

Init ==
  /\ source = [t \in Table |-> Unset] /\ number = 0
  /\ isr = [d \in Ids |-> {}] /\ imr = isr
  /\ pc = "run" /\ arg = Unset /\ at = 0 /\ ret = 0
  /\ irq = "none" /\ status = {} /\ i = 0 /\ owed = {}

Defined(d) == UNION {source[t].mask : t \in {u \in Table : u < number /\ source[u].id = d}}
IsFor(t, d, m) == source[t].id = d /\ source[t].mask = m

-----------------------------------------------------------------------------
(* The main program.                                                       *)

Main == irq = "none" /\ UNCHANGED <<irq, status, i, owed>>

\* The loop finds the source or stops at the first free one.
Find(d, m) ==
  IF \E t \in Table : t < number /\ IsFor(t, d, m)
  THEN CHOOSE t \in Table : t < number /\ IsFor(t, d, m)
  ELSE number

\* pio_handler_set
Set(d, m) ==
  /\ Main /\ pc = "run"
  /\ arg' = [id |-> d, mask |-> m, handler |-> TRUE]
  /\ IF number >= MAX_INTERRUPT_SOURCES
     THEN ret' = 1 /\ UNCHANGED <<pc, at>>
     ELSE ret' = 0 /\ pc' = "id" /\ at' = Find(d, m)
  /\ UNCHANGED <<source, number, isr, imr>>

\* The fields are written one by one; pio_configure_interrupt at the end only
\* chooses the kind of event.
WriteSource ==
  /\ Main
  /\ \/ /\ pc = "id" /\ pc' = "mask"
        /\ source' = [source EXCEPT ![at] = [@ EXCEPT !.id = arg.id]]
     \/ /\ pc = "mask" /\ pc' = "handler"
        /\ source' = [source EXCEPT ![at] = [@ EXCEPT !.mask = arg.mask]]
     \/ /\ pc = "handler" /\ pc' = "number"
        /\ source' = [source EXCEPT ![at] = [@ EXCEPT !.handler = arg.handler]]
  /\ UNCHANGED <<number, isr, imr, arg, at, ret>>

CountSource ==
  /\ Main /\ pc = "number" /\ pc' = "run"
  /\ number' = IF at = number THEN number + 1 ELSE number
  /\ UNCHANGED <<source, isr, imr, arg, at, ret>>

\* pio_enable_interrupt and pio_disable_interrupt by the main program.
EnablePins(d, m) ==
  /\ Main /\ pc = "run" /\ m \subseteq Defined(d) /\ imr' = [imr EXCEPT ![d] = @ \cup m]
  /\ UNCHANGED <<source, number, isr, main>>
DisablePins(d, m) ==
  /\ Main /\ pc = "run" /\ imr' = [imr EXCEPT ![d] = @ \ m]
  /\ UNCHANGED <<source, number, isr, main>>

\* pio_handler_set_priority: the mask is read, all pins are disabled, ISR is read,
\* the NVIC is set up, the pins of the mask are enabled.
SetPriority(d) ==
  /\ Main
  /\ \/ pc = "run" /\ pc' = "idr" /\ arg' = [id |-> d, mask |-> imr[d], handler |-> FALSE]
        /\ UNCHANGED <<isr, imr>>
     \/ pc = "idr" /\ arg.id = d /\ pc' = "isr" /\ imr' = [imr EXCEPT ![d] = {}]
        /\ UNCHANGED <<isr, arg>>
     \/ pc = "isr" /\ arg.id = d /\ pc' = "ier" /\ isr' = [isr EXCEPT ![d] = {}]
        /\ UNCHANGED <<imr, arg>>
     \/ pc = "ier" /\ arg.id = d /\ pc' = "run" /\ imr' = [imr EXCEPT ![d] = @ \cup arg.mask]
        /\ UNCHANGED <<isr, arg>>
  /\ UNCHANGED <<source, number, at, ret>>

-----------------------------------------------------------------------------
(* The controllers and pio_handler_process.                                *)

Event(d, p) ==
  /\ p \notin isr[d] /\ isr' = [isr EXCEPT ![d] = @ \cup {p}]
  /\ UNCHANGED <<source, number, imr, main, irq, status, i, owed>>

\* Reading ISR clears it.
Enter(d) ==
  /\ irq = "none" /\ isr[d] \cap imr[d] # {}
  /\ irq' = d /\ status' = isr[d] \cap imr[d] /\ i' = 0
  /\ isr' = [isr EXCEPT ![d] = {}] /\ owed' = status'
  /\ UNCHANGED <<source, number, imr, main>>

Matches == source[i].id = irq /\ status \cap source[i].mask # {}

\* Mutant: the first source that matches is the only one.
FirstOnly ==
  /\ irq # "none" /\ status # {} /\ i < MAX_INTERRUPT_SOURCES
  /\ IF Matches
     THEN /\ status' = {} /\ owed' = owed \ source[i].mask
          /\ \E off \in {{}, source[i].mask} : imr' = [imr EXCEPT ![irq] = @ \ off]
     ELSE UNCHANGED <<status, owed, imr>>
  /\ i' = i + 1 /\ UNCHANGED <<source, number, isr, main, irq>>

\* Mutant: every source of a pin is called.
KeepStatus ==
  /\ irq # "none" /\ status # {} /\ i < MAX_INTERRUPT_SOURCES
  /\ IF Matches
     THEN /\ owed' = owed \ source[i].mask
          /\ \E off \in {{}, source[i].mask} : imr' = [imr EXCEPT ![irq] = @ \ off]
     ELSE UNCHANGED <<owed, imr>>
  /\ i' = i + 1 /\ UNCHANGED <<source, number, isr, main, irq, status>>

\* One turn of the loop, with the handler it calls.
Search ==
  /\ irq # "none" /\ status # {} /\ i < MAX_INTERRUPT_SOURCES
  /\ IF Matches
     THEN /\ status' = status \ source[i].mask /\ owed' = owed \ source[i].mask
          /\ \E off \in {{}, source[i].mask} : imr' = [imr EXCEPT ![irq] = @ \ off]
     ELSE UNCHANGED <<status, owed, imr>>
  /\ i' = i + 1 /\ UNCHANGED <<source, number, isr, main, irq>>

ReturnFromIrq ==
  /\ irq # "none" /\ (status = {} \/ i = MAX_INTERRUPT_SOURCES) /\ irq' = "none"
  /\ status' = {} /\ i' = 0 /\ owed' = {}
  /\ UNCHANGED <<source, number, isr, imr, main>>

pio_handler_process == (\E d \in Ids : Enter(d)) \/ Search \/ ReturnFromIrq

Next ==
  \/ \E d \in Ids, m \in Masks : Set(d, m) \/ EnablePins(d, m) \/ DisablePins(d, m)
  \/ WriteSource \/ CountSource \/ \E d \in Ids : SetPriority(d)
  \/ \E d \in Ids, p \in Pins : Event(d, p)
  \/ pio_handler_process
Spec == Init /\ [][Next]_vars

-----------------------------------------------------------------------------
TypeOK ==
  /\ number \in 0..MAX_INTERRUPT_SOURCES /\ at \in Table /\ i \in 0..MAX_INTERRUPT_SOURCES
  /\ status \subseteq Pins /\ ret \in {0, 1}
  /\ \A d \in Ids : isr[d] \subseteq Pins /\ imr[d] \subseteq Pins
  \* and no two sources of a controller have the same mask
  /\ \A t, u \in Table : t < u /\ u < number => ~IsFor(t, source[u].id, source[u].mask)

\* The interrupt never calls a source whose handler the main program has not written
\* yet, although it searches the whole table and not only the sources counted.
NoNullCall == irq # "none" /\ status # {} /\ i \in Table /\ Matches => source[i].handler

\* When the interrupt is over every enabled pin whose event it has read, and thereby
\* cleared, has been given to a handler: whatever the order of the sources, the pins
\* they share, and the source the main program is writing.
EventsReachHandlers ==
  irq # "none" /\ (status = {} \/ i = MAX_INTERRUPT_SOURCES) => owed = {}
=============================================================================

---- MODULE CarItemTable ----
(***************************************************************************)
(* The record kept for every car of the line (struct CarItem) and the four *)
(* kinds of write that CarItemsWriteThread makes to it.  A write has two   *)
(* effects in the code: the one the calling thread makes itself when it    *)
(* gets carItemsLock at once (WrittenNow), and the one the worker thread   *)
(* makes later from a queued Event (WrittenLater).  They are not the same. *)
(*                                                                         *)
(* A port stands for the four fields port_num, targetPosition, offset and  *)
(* inside, which every write sets together from one OutPortInfo.           *)
(***************************************************************************)
EXTENDS Naturals

CONSTANTS
    Cars,      \* the cars of the line (the index of carItems)
    Ports,     \* the delivery ports
    Codes,     \* the waybill codes the cameras read
    NoPort,    \* port_num = -1
    NoCode,    \* the empty string
    NoCar,     \* a carID that no car of the table has
    MaxTurns   \* bound on runTurn_number

ASSUME TableAssumption ==
    /\ NoPort \notin Ports
    /\ NoCode \notin Codes
    /\ NoCar \notin Cars
    /\ MaxTurns \in Nat

Turns == 0 .. MaxTurns

CarItem == [code: Codes \cup {NoCode}, port: Ports \cup {NoPort},
            loaded: BOOLEAN, turns: Turns]

EmptyItem == [code |-> NoCode, port |-> NoPort, loaded |-> FALSE, turns |-> 0]

\* The arguments of one call of a write operation; fields an operation does
\* not have carry the default the Event constructor gives them.
Call == [type: {"WriteSlot", "WriteItem", "SetRunNum", "InitItem"}, car: Cars,
         port: Ports \cup {NoPort}, code: Codes \cup {NoCode}, turns: Turns]

WriteSlot(c, p) ==
    [type |-> "WriteSlot", car |-> c, port |-> p, code |-> NoCode, turns |-> 0]
WriteItem(c, code) ==
    [type |-> "WriteItem", car |-> c, port |-> NoPort, code |-> code, turns |-> 0]
SetRunNum(c, n) ==
    [type |-> "SetRunNum", car |-> c, port |-> NoPort, code |-> NoCode, turns |-> n]
InitItem(c) ==
    [type |-> "InitItem", car |-> c, port |-> NoPort, code |-> NoCode, turns |-> 0]

\* The four writes as a set of calls.
Calls == {WriteSlot(c, p) : c \in Cars, p \in Ports}
         \cup {WriteItem(c, x) : c \in Cars, x \in Codes}
         \cup {SetRunNum(c, n) : c \in Cars, n \in Turns}
         \cup {InitItem(c) : c \in Cars}

\* An Event in the queue.  No Make* constructor stores its carID_ argument, so
\* the car an event names is whatever the uninitialized member holds: any car,
\* or none.  The fields of the call travel with it; call.car is kept to say
\* which car was meant, the code has no such field.
Event == [call: Call, carID: Cars \cup {NoCar}]
MakeEvents(call) == {[call |-> call, carID |-> id] : id \in Cars \cup {NoCar}}

\* Assigning a port always loads the car.
SlottedOnly(it, p) == [it EXCEPT !.port = p]   \* mutant
Slotted(it, p) == [it EXCEPT !.port = p, !.loaded = TRUE]

\* The item after a write made at once by the caller.
WrittenNow(it, call) ==
    CASE call.type = "WriteSlot" -> Slotted(it, call.port)
      [] call.type = "WriteItem" -> [it EXCEPT !.code = call.code, !.turns = 0,
                                               !.loaded = IF call.code = NoCode THEN @ ELSE TRUE]
      [] call.type = "SetRunNum" -> [it EXCEPT !.turns = call.turns]
      [] call.type = "InitItem"  -> EmptyItem

\* The item after the worker applied the queued event of the write.
WrittenLater(it, call) ==
    CASE call.type = "WriteSlot" -> Slotted(it, call.port)
      [] call.type = "WriteItem" -> [it EXCEPT !.code = call.code, !.turns = call.turns,
                                               !.loaded = TRUE]
      [] call.type = "SetRunNum" -> [it EXCEPT !.turns = call.turns]
      [] call.type = "InitItem"  -> [EmptyItem EXCEPT !.code = it.code]

\* indexForCarID_nocheck: an event whose carID is in no row changes nothing.
\* Row i of the table holds car i + 1 from initialization on, so the search
\* of the code finds the row of the car or none.
ApplyNow(items, call) == [items EXCEPT ![call.car] = WrittenNow(@, call)]
ApplyLater(items, ev) ==
    IF ev.carID \in Cars THEN [items EXCEPT ![ev.carID] = WrittenLater(@, ev.call)]
                         ELSE items
====

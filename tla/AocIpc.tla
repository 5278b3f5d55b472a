------------------------------- MODULE AocIpc -------------------------------
(***************************************************************************)
(* The message queues between the AP and the always-on processor:          *)
(* aoc_ipc_core.c, which the kernel and the firmware share.  A region is   *)
(* one direction of a queue service.  tx and rx count messages for ever,   *)
(* modulo the width of u32; a slot holds a message by its number.          *)
(***************************************************************************)
EXTENDS Integers, Sequences

CONSTANT Modulus    \* 2^32: the counters tx and rx are u32

ASSUME ModulusAssumption == Modulus \in Nat /\ Modulus > 1

Region(slots) ==
    [slots : {slots}, tx : 0..Modulus - 1, rx : 0..Modulus - 1,
     mem : [0..slots - 1 -> 0..Modulus - 1]]

\* A region as the firmware sets it up.
NewRegion(slots) == [slots |-> slots, tx |-> 0, rx |-> 0, mem |-> [i \in 0..slots - 1 |-> 0]]

\* Mutant: the delta does not account for the wrap of the counters.
delta_mutant(r) == IF r.tx >= r.rx THEN r.tx - r.rx ELSE 0

\* SIZE_MAX is that of a 64-bit size_t; the result is a u32.
_read_write_delta(r) ==
    IF r.tx >= r.rx THEN r.tx - r.rx
                    ELSE ((Modulus * Modulus - 1 - r.rx) + r.tx + 1) % Modulus

aoc_service_slots_available_to_read(r) ==
    IF _read_write_delta(r) > r.slots THEN r.slots ELSE _read_write_delta(r)

\* An unsigned subtraction: more messages than slots look like a lot of room.
aoc_service_slots_available_to_write(r) == (r.slots - _read_write_delta(r)) % (Modulus * Modulus)

aoc_service_can_read_message(r) == aoc_service_slots_available_to_read(r) > 0
aoc_service_can_write_message(r) == aoc_service_slots_available_to_write(r) > 0

aoc_service_current_read_pointer(r) == r.rx % r.slots
aoc_service_current_write_pointer(r) == r.tx % r.slots

\* The copies of aoc_service_write_message and aoc_service_read_message.
_aoc_queue_write_buffer(r, m) == [r EXCEPT !.mem[aoc_service_current_write_pointer(r)] = m]
current_message(r) == r.mem[aoc_service_current_read_pointer(r)]

aoc_service_increment_write_index(r) ==
    IF aoc_service_can_write_message(r) THEN [r EXCEPT !.tx = (@ + 1) % Modulus] ELSE r

aoc_service_increment_read_index(r) ==
    IF aoc_service_can_read_message(r) THEN [r EXCEPT !.rx = (@ + 1) % Modulus] ELSE r

\* The messages in a region, the oldest first.
Content(r) ==
    [i \in 1.._read_write_delta(r) |-> r.mem[((r.rx + i - 1) % Modulus) % r.slots]]

=============================================================================

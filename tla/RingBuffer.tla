----------------------------- MODULE RingBuffer -----------------------------
(***************************************************************************)
(* src/ringbuffer.h: the indices begin and end into an external array of   *)
(* RINGBUFFER_SIZE slots, one of which stays unused.                       *)
(*                                                                         *)
(* A definition NAME_but_... is no part of the model: it is NAME with a    *)
(* plausible mistake, which one of the properties has to notice.           *)
(***************************************************************************)
EXTENDS Integers

CONSTANT RINGBUFFER_SIZE

ASSUME RingBufferAssumption == RINGBUFFER_SIZE \in Nat \ {0}

Slot == 0..RINGBUFFER_SIZE - 1
Ring == [begin : Slot, end : Slot]

Following(i) == (i + 1) % RINGBUFFER_SIZE

rb_init_ringbuffer == [begin |-> 0, end |-> 0]

rb_is_empty(rb) == rb.begin = rb.end

rb_is_full(rb) == rb.begin = Following(rb.end)

rb_push_back_but_not_wrapped(rb) == [rb EXCEPT !.end = @ + 1]

\* The slot to write is rb.end, before.
rb_push_back(rb) == [rb EXCEPT !.end = Following(@)]

rb_peek_front(rb) == rb.begin

rb_pop_front(rb) == [rb EXCEPT !.begin = Following(@)]

\* How many slots are in use, and which, from the first to the last.
Used(rb) == (rb.end - rb.begin) % RINGBUFFER_SIZE

Contents(rb) == [n \in 1..Used(rb) |-> (rb.begin + n - 1) % RINGBUFFER_SIZE]
=============================================================================

------------------------------ MODULE SpscRing ------------------------------
(***************************************************************************)
(* The lock-free ring of FixedSpscFlightLoopTimingQueue and of its copy    *)
(* FixedSpscRouteEvidenceQueue (AsyncDiagnosticsWriter.cpp:343-450): one   *)
(* thread stores a slot and then publishes the write index, another reads  *)
(* a slot and then publishes the read index.  One slot is always unused.   *)
(*                                                                         *)
(* An index is stored with release and loaded with acquire order, so what  *)
(* a thread did to a slot is seen by whoever sees the index it published;  *)
(* here every step takes effect at once.                                   *)
(***************************************************************************)
EXTENDS Naturals, Sequences

Slots(capacity) == 0 .. capacity

EmptyRing(capacity, blank) ==
    [capacity |-> capacity, slots |-> [i \in Slots(capacity) |-> blank],
     write |-> 0, read |-> 0]

NextIndexUnwrapped(ring, i) == i + 1  \* mutant: the index leaves the ring

NextIndex(ring, i) == (i + 1) % (ring.capacity + 1)

RingIsEmpty(ring) == ring.read = ring.write

RingIsFull(ring) == NextIndex(ring, ring.write) = ring.read

WithSlot(ring, record) == [ring EXCEPT !.slots[ring.write] = record]
WithPublishedWrite(ring) == [ring EXCEPT !.write = NextIndex(ring, ring.write)]
SlotToRead(ring) == ring.slots[ring.read]
WithPublishedRead(ring) == [ring EXCEPT !.read = NextIndex(ring, ring.read)]

Depth(ring) ==
    IF ring.write >= ring.read THEN ring.write - ring.read
    ELSE ring.capacity + 1 - (ring.read - ring.write)

\* The slot that is k-th to be read.
SlotAt(ring, k) ==
    LET i == ring.read + (k - 1)
    IN  IF i > ring.capacity THEN i - (ring.capacity + 1) ELSE i

\* What a reader finds in the ring, oldest first.
Contents(ring) == [k \in 1 .. Depth(ring) |-> ring.slots[SlotAt(ring, k)]]

Rings(capacity, Record) ==
    [capacity : {capacity}, slots : [Slots(capacity) -> Record],
     write : Slots(capacity), read : Slots(capacity)]

=============================================================================

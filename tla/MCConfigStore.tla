--------------------------- MODULE MCConfigStore ----------------------------
(***************************************************************************)
(* A record of four rows on three pages: the header and the key, which     *)
(* reaches into the second page, and the WiFi settings on the last.        *)
(* Stdio's buffer holds three rows, so that a device write may end in the  *)
(* middle of the record, and a short one in the middle of a field.         *)
(***************************************************************************)
EXTENDS ConfigStore

CONSTANTS key, wifi

MCFields  == {key, wifi}
MCFieldOf == [r \in 2..4 |-> IF r = 4 THEN wifi ELSE key]
MCPageOf  == [r \in 1..4 |-> IF r < 3 THEN 1 ELSE r - 1]

\* Whole buffers go to the device directly, the rest when the stream is flushed.
MCChunkEnd ==
    [s \in 0..3 |-> IF 4 - s >= 3 THEN s + 3 * ((4 - s) \div 3) ELSE 4]
=============================================================================

------------------------------ MODULE ByteRange ------------------------------
(***************************************************************************)
(* How a cached blob is served in parts: parse_single_byte_range,          *)
(* cached_blob_response and file_stream_range of src/main.rs, as functions *)
(* of the Range header and the size of the blob.                           *)
(***************************************************************************)
EXTENDS Integers, Sequences, FiniteSets, FiniteSetsExt

CONSTANTS
    U64Max,     \* the largest number that parses
    Buffer      \* FILE_READ_BUFFER

ASSUME RangeAssumption == U64Max \in Nat /\ Buffer \in Nat \ {0}

(* Headers: "bytes=a-b", "bytes=a-", "bytes=-b", and anything else (another *)
(* unit, several ranges).                                                   *)
Forms == {"closed", "from", "suffix", "other"}
Number == 0 .. U64Max + 1
Headers == [form : Forms, a : Number, b : Number]

Whole == [kind |-> "whole", start |-> 0, end |-> 0]
Unsatisfiable == [kind |-> "416", start |-> 0, end |-> 0]
Part(s, e) == [kind |-> "206", start |-> s, end |-> e]

NoMinimum(x, y) == x
Minimum(x, y) == IF x <= y THEN x ELSE y

Parses(n) == n <= U64Max
Malformed(h) ==
    \/ h.form = "other"
    \/ h.form \in {"closed", "from"} /\ ~Parses(h.a)
    \/ h.form \in {"closed", "suffix"} /\ ~Parses(h.b)

suffix_range(b, size) ==
    IF size = 0 \/ b = 0 THEN Unsatisfiable
    ELSE Part(size - Minimum(b, size), size - 1)

closed_range(a, b, size) ==
    IF a > b \/ a >= size THEN Unsatisfiable ELSE Part(a, Minimum(b, size - 1))

parse_single_byte_range(h, size) ==
    CASE Malformed(h) -> Whole
      [] ~Malformed(h) /\ h.form = "suffix" -> suffix_range(h.b, size)
      [] ~Malformed(h) /\ h.form = "closed" -> closed_range(h.a, h.b, size)
      [] ~Malformed(h) /\ h.form = "from" ->
            IF size = 0 THEN Unsatisfiable ELSE closed_range(h.a, size - 1, size)

(* Blocks of at most Buffer bytes, each read after a seek; a byte is        *)
(* written as its offset.                                                   *)
file_stream_range(offset, len) ==
    LET stream[remaining \in 0 .. len] ==
          IF remaining = 0 THEN <<>>
          ELSE LET want == Minimum(remaining, Buffer)
                   cursor == offset + (len - remaining)
               IN  [i \in 1 .. want |-> cursor + i - 1] \o stream[remaining - want]
    IN  stream[len]

cached_blob_response(h, size) ==
    LET p == parse_single_byte_range(h, size) IN
    CASE p.kind = "416" -> [status |-> 416, length |-> 0, body |-> <<>>]
      [] p.kind = "206" -> [status |-> 206, length |-> p.end - p.start + 1,
                            body |-> file_stream_range(p.start, p.end - p.start + 1)]
      [] p.kind = "whole" -> [status |-> 200, length |-> size,
                              body |-> file_stream_range(0, size)]

-----------------------------------------------------------------------------
(* The reference: the bytes a range asks for are a set of offsets. *)
Asked(h, size) ==
    {p \in 0 .. size - 1 :
        CASE h.form = "closed" -> h.a <= p /\ p <= h.b
          [] h.form = "from" -> h.a <= p
          [] h.form = "suffix" -> p + h.b >= size
          [] h.form = "other" -> FALSE}

Ascending(S) == [i \in 1 .. Cardinality(S) |-> CHOOSE p \in S : Cardinality({q \in S : q < p}) = i - 1]

(* The numbers the header consists of. *)
Stated(h) ==
    CASE h.form = "closed" -> {h.a, h.b} [] h.form = "from" -> {h.a}
      [] h.form = "suffix" -> {h.b} [] h.form = "other" -> {}

(* 206 carries the bytes asked for, in order, each once, and there are      *)
(* some; 416 says there are none.  The whole blob comes only where no range *)
(* was read: another form, or a number larger than any 64 bits hold.        *)
Exact(h, size, r) ==
    /\ r.status \in {200, 206, 416} /\ r.length = Len(r.body)
    /\ r.status = 206 => Asked(h, size) # {} /\ r.body = Ascending(Asked(h, size))
    /\ r.status = 416 => Asked(h, size) = {} /\ r.body = <<>> /\ h.form # "other"
    /\ r.status = 200 =>
          /\ r.body = Ascending(0 .. size - 1)
          /\ h.form = "other" \/ \E n \in Stated(h) : n > U64Max

=============================================================================

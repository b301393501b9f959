-------------------------- MODULE AlgorithmsProofs --------------------------
(***************************************************************************)
(* Proofs about the pure functions of ByteRange and ImageNames: for blobs, *)
(* buffers and numbers of any size, and names of any length.               *)
(***************************************************************************)
EXTENDS PureFunctions, FiniteSetTheorems, SequenceTheorems, TLAPS

-----------------------------------------------------------------------------
(* The stream of a range *)

(* The bytes from lo on, n of them, each written as its offset. *)
Run(lo, n) == [i \in 1 .. n |-> lo + i - 1]

(* The recursive function of file_stream_range. *)
IsStream(g, offset, len) ==
    g = [remaining \in 0 .. len |->
            IF remaining = 0 THEN <<>>
            ELSE LET want == Minimum(remaining, Buffer)
                     cursor == offset + (len - remaining)
                 IN  [i \in 1 .. want |-> cursor + i - 1] \o g[remaining - want]]

(* A set of numbers has a least one. *)
LEMMA Least ==
    ASSUME NEW T \in SUBSET Nat, T # {}
    PROVE  \E x \in T : \A y \in T : ~(y < x)
  <1>. DEFINE R == {ss \in Nat \X Nat : ss[1] < ss[2]}
  <1>1. IsWellFoundedOn(R, Nat)
    BY NatLessThanWellFounded DEF OpToRel
  <1>2. \A x, y \in Nat : <<y, x>> \in R <=> y < x
    OBVIOUS
  <1>. HIDE DEF R
  <1>3. PICK x \in T : \A y \in T : ~(<<y, x>> \in R)
    BY <1>1, WFMin
  <1>. QED  BY <1>2, <1>3

(* A run is one block and the run behind it. *)
LEMMA RunJoins ==
    ASSUME NEW lo \in Nat, NEW m \in Nat, NEW n \in Nat
    PROVE  Run(lo, m) \o Run(lo + m, n) = Run(lo, m + n)
  <1>1. Run(lo, m) \in Seq(Nat) /\ Run(lo + m, n) \in Seq(Nat) /\ Run(lo, m + n) \in Seq(Nat)
    BY DEF Run
  <1>2. Len(Run(lo, m)) = m /\ Len(Run(lo + m, n)) = n /\ Len(Run(lo, m + n)) = m + n
    BY DEF Run
  <1>3. \A i \in 1 .. m + n : (Run(lo, m) \o Run(lo + m, n))[i] = Run(lo, m + n)[i]
    BY <1>1, <1>2 DEF Run
  <1>4. Run(lo, m) \o Run(lo + m, n) \in Seq(Nat) /\ Len(Run(lo, m) \o Run(lo + m, n)) = m + n
    BY <1>1, <1>2, ConcatProperties
  <1>. QED  BY <1>1, <1>2, <1>3, <1>4, SeqEqual

(* A block is not empty and not longer than what remains. *)
LEMMA BlockSize ==
    ASSUME NEW r \in Nat \ {0}
    PROVE  Minimum(r, Buffer) \in 1 .. r
  BY RangeAssumption DEF Minimum

(* The blocks of a stream add up to one run. *)
LEMMA StreamIsRun ==
    ASSUME NEW offset \in Nat, NEW len \in Nat, NEW g, IsStream(g, offset, len), NEW r \in 0 .. len
    PROVE  g[r] = Run(offset + (len - r), r)
  <1>. DEFINE P(x) == x \in 0 .. len /\ g[x] # Run(offset + (len - x), x)
              T == {x \in Nat : P(x)}
  <1>1. SUFFICES ASSUME T # {}  PROVE FALSE
    OBVIOUS
  <1>2. PICK x \in T : \A y \in T : ~(y < x)
    <2>1. T \in SUBSET Nat
      OBVIOUS
    <2>. HIDE DEF T
    <2>. QED  BY <1>1, <2>1, Least
  <1>3. x # 0
    <2>1. g[0] = <<>> /\ Run(offset + (len - 0), 0) = <<>>
      BY DEF IsStream, Run
    <2>. QED  BY <2>1
  <1>. DEFINE want == Minimum(x, Buffer)
  <1>4. want \in 1 .. x /\ x \in 1 .. len
    BY <1>3, BlockSize
  <1>5. g[x] = Run(offset + (len - x), want) \o g[x - want]
    BY <1>3, <1>4 DEF IsStream, Run
  <1>6. g[x - want] = Run(offset + (len - x) + want, x - want)
    <2>1. x - want \in 0 .. len /\ x - want < x
      BY <1>4
    <2>2. x - want \notin T
      BY <1>2, <2>1
    <2>3. offset + (len - (x - want)) = offset + (len - x) + want
      BY <1>4
    <2>. QED  BY <2>1, <2>2, <2>3
  <1>. HIDE DEF want
  <1>7. Run(offset + (len - x), want) \o Run(offset + (len - x) + want, x - want) = Run(offset + (len - x), x)
    <2>1. /\ offset + (len - x) \in Nat /\ want \in Nat /\ x - want \in Nat
          /\ want + (x - want) = x
      BY <1>4
    <2>. DEFINE lo == offset + (len - x)
                rest == x - want
    <2>. HIDE DEF lo, rest
    <2>2. Run(lo, want) \o Run(lo + want, rest) = Run(lo, want + rest)
      BY <2>1, RunJoins DEF lo, rest
    <2>. QED  BY <2>1, <2>2 DEF lo, rest
  <1>. QED  BY <1>2, <1>5, <1>6, <1>7

(* file_stream_range reads len bytes from offset on, in order. *)
LEMMA StreamBytes ==
    ASSUME NEW offset \in Nat, NEW len \in Nat
    PROVE  file_stream_range(offset, len) = Run(offset, len)
  <1>. DEFINE P(g) == IsStream(g, offset, len)
              f == [r \in 0 .. len |-> Run(offset + (len - r), r)]
  <1>1. P(f)
    <2>1. \A r \in 0 .. len : r # 0 =>
             LET want == Minimum(r, Buffer) IN
             f[r] = [i \in 1 .. want |-> offset + (len - r) + i - 1] \o f[r - want]
      <3>. SUFFICES ASSUME NEW r \in 0 .. len, r # 0
                    PROVE  LET want == Minimum(r, Buffer) IN
                           f[r] = [i \in 1 .. want |-> offset + (len - r) + i - 1] \o f[r - want]
        OBVIOUS
      <3>. DEFINE want == Minimum(r, Buffer)
                  lo == offset + (len - r)
                  rest == r - want
      <3>1. want \in 1 .. r
        BY BlockSize
      <3>. HIDE DEF want
      <3>2. lo \in Nat /\ want \in Nat /\ rest \in 0 .. len /\ want + rest = r
        BY <3>1
      <3>3. f[r] = Run(lo, r) /\ f[rest] = Run(lo + want, rest)
        <4>1. offset + (len - rest) = lo + want
          BY <3>1
        <4>. HIDE DEF lo
        <4>2. f[rest] = Run(offset + (len - rest), rest)
          BY <3>2
        <4>. QED  BY <4>1, <4>2 DEF lo
      <3>. HIDE DEF lo, rest, f
      <3>4. Run(lo, want) \o Run(lo + want, rest) = Run(lo, want + rest)
        <4>1. rest \in Nat
          BY <3>2
        <4>. QED  BY <3>2, <4>1, RunJoins
      <3>5. f[r] = Run(lo, want) \o f[rest]
        BY <3>2, <3>3, <3>4
      <3>. QED  BY <3>5 DEF Run, want, lo, rest
    <2>2. f[0] = <<>>
      BY DEF Run
    <2>3. f = [r \in 0 .. len |-> f[r]]
      OBVIOUS
    <2>. HIDE DEF f
    <2>. QED  BY <2>1, <2>2, <2>3 DEF IsStream
  <1>2. file_stream_range(offset, len) = (CHOOSE g : P(g))[len]
    BY Zenon DEF file_stream_range, IsStream
  <1>. HIDE DEF P
  <1>3. P(CHOOSE g : P(g))
    BY <1>1
  <1>4. (CHOOSE g : P(g))[len] = Run(offset + (len - len), len)
    BY <1>3, StreamIsRun DEF P
  <1>. QED  BY <1>2, <1>4

(* The ascending sequence of an interval is a run. *)
LEMMA AscendingInterval ==
    ASSUME NEW lo \in Nat, NEW hi \in Int, hi >= lo - 1
    PROVE  /\ Cardinality(lo .. hi) = hi - lo + 1
           /\ Ascending(lo .. hi) = Run(lo, hi - lo + 1)
  <1>1. Cardinality(lo .. hi) = hi - lo + 1
    BY FS_Interval
  <1>2. \A p \in lo .. hi : Cardinality({q \in lo .. hi : q < p}) = p - lo
    <2>. SUFFICES ASSUME NEW p \in lo .. hi
                  PROVE  Cardinality({q \in lo .. hi : q < p}) = p - lo
      OBVIOUS
    <2>1. {q \in lo .. hi : q < p} = lo .. p - 1
      OBVIOUS
    <2>2. Cardinality(lo .. p - 1) = IF lo > p - 1 THEN 0 ELSE p - 1 - lo + 1
      BY FS_Interval
    <2>3. (IF lo > p - 1 THEN 0 ELSE p - 1 - lo + 1) = p - lo
      OBVIOUS
    <2>. QED  BY <2>1, <2>2, <2>3
  <1>3. \A i \in 1 .. hi - lo + 1 :
           (CHOOSE p \in lo .. hi : Cardinality({q \in lo .. hi : q < p}) = i - 1) = lo + i - 1
    <2>. SUFFICES ASSUME NEW i \in 1 .. hi - lo + 1
                  PROVE  (CHOOSE p \in lo .. hi : Cardinality({q \in lo .. hi : q < p}) = i - 1) = lo + i - 1
      OBVIOUS
    <2>. DEFINE Q(p) == p \in lo .. hi /\ Cardinality({q \in lo .. hi : q < p}) = i - 1
    <2>1. \A p : Q(p) <=> p = lo + i - 1
      BY <1>2
    <2>2. (CHOOSE p \in lo .. hi : Cardinality({q \in lo .. hi : q < p}) = i - 1) = (CHOOSE p : Q(p))
      OBVIOUS
    <2>. HIDE DEF Q
    <2>3. (CHOOSE p : Q(p)) = lo + i - 1
      BY <2>1
    <2>. QED  BY <2>2, <2>3
  <1>. QED  BY <1>1, <1>3 DEF Ascending, Run

(* A range that parses asks for an interval or for nothing. *)
LEMMA RangeParsed ==
    ASSUME NEW h \in Headers, NEW size \in Nat, ~Malformed(h)
    PROVE  \/ parse_single_byte_range(h, size) = Unsatisfiable /\ Asked(h, size) = {}
           \/ \E lo \in Nat, hi \in Nat :
                 /\ lo <= hi /\ parse_single_byte_range(h, size) = Part(lo, hi)
                 /\ Asked(h, size) = lo .. hi
  <1>0. h.form \in Forms /\ h.a \in Nat /\ h.b \in Nat
    BY RangeAssumption DEF Headers, Number
  <1>1. CASE h.form = "suffix"
    <2>1. parse_single_byte_range(h, size) = suffix_range(h.b, size)
      BY <1>1 DEF parse_single_byte_range
    <2>2. Asked(h, size) = {p \in 0 .. size - 1 : p + h.b >= size}
      BY <1>1 DEF Asked
    <2>3. CASE size = 0 \/ h.b = 0
      BY <1>0, <2>1, <2>2, <2>3 DEF suffix_range
    <2>4. CASE ~(size = 0 \/ h.b = 0)
      <3>. DEFINE lo == size - Minimum(h.b, size)
      <3>1. lo \in Nat /\ size - 1 \in Nat /\ lo <= size - 1
        BY <1>0, <2>4 DEF Minimum
      <3>2. Asked(h, size) = lo .. size - 1
        BY <1>0, <2>2, <2>4 DEF Minimum
      <3>3. parse_single_byte_range(h, size) = Part(lo, size - 1)
        BY <2>1, <2>4 DEF suffix_range
      <3>. QED  BY <3>1, <3>2, <3>3
    <2>. QED  BY <2>3, <2>4
  <1>c. ASSUME NEW a \in Nat, NEW b \in Nat
        PROVE  \/ closed_range(a, b, size) = Unsatisfiable /\ {p \in 0 .. size - 1 : a <= p /\ p <= b} = {}
               \/ \E lo \in Nat, hi \in Nat :
                     /\ lo <= hi /\ closed_range(a, b, size) = Part(lo, hi)
                     /\ {p \in 0 .. size - 1 : a <= p /\ p <= b} = lo .. hi
    <2>1. CASE a > b \/ a >= size
      BY <2>1 DEF closed_range
    <2>2. CASE ~(a > b \/ a >= size)
      <3>. DEFINE hi == Minimum(b, size - 1)
      <3>1. hi \in Nat /\ a <= hi /\ {p \in 0 .. size - 1 : a <= p /\ p <= b} = a .. hi
        BY <2>2 DEF Minimum
      <3>2. closed_range(a, b, size) = Part(a, hi)
        BY <2>2 DEF closed_range
      <3>. QED  BY <3>1, <3>2
    <2>. QED  BY <2>1, <2>2
  <1>2. CASE h.form = "closed"
    <2>1. /\ parse_single_byte_range(h, size) = closed_range(h.a, h.b, size)
          /\ Asked(h, size) = {p \in 0 .. size - 1 : h.a <= p /\ p <= h.b}
      BY <1>2 DEF parse_single_byte_range, Asked
    <2>. QED  BY <1>0, <1>c, <2>1
  <1>3. CASE h.form = "from"
    <2>1. /\ parse_single_byte_range(h, size) =
                IF size = 0 THEN Unsatisfiable ELSE closed_range(h.a, size - 1, size)
          /\ Asked(h, size) = {p \in 0 .. size - 1 : h.a <= p}
      BY <1>3 DEF parse_single_byte_range, Asked
    <2>2. CASE size = 0
      BY <2>1, <2>2
    <2>3. CASE size # 0
      <3>1. size - 1 \in Nat /\ Asked(h, size) = {p \in 0 .. size - 1 : h.a <= p /\ p <= size - 1}
        BY <1>0, <2>1, <2>3
      <3>2. parse_single_byte_range(h, size) = closed_range(h.a, size - 1, size)
        BY <2>1, <2>3
      <3>. DEFINE last == size - 1
      <3>3. last \in Nat /\ Asked(h, size) = {p \in 0 .. size - 1 : h.a <= p /\ p <= last}
            /\ parse_single_byte_range(h, size) = closed_range(h.a, last, size)
        BY <3>1, <3>2
      <3>. HIDE DEF last
      <3>. QED  BY <1>0, <1>c, <3>3
    <2>. QED  BY <2>2, <2>3
  <1>. QED  BY <1>0, <1>1, <1>2, <1>3 DEF Forms, Malformed

(* The bytes of an interval, as file_stream_range sends them. *)
LEMMA IntervalSent ==
    ASSUME NEW lo \in Nat, NEW hi \in Int, hi >= lo - 1
    PROVE  /\ file_stream_range(lo, hi - lo + 1) = Ascending(lo .. hi)
           /\ Len(file_stream_range(lo, hi - lo + 1)) = hi - lo + 1
  <1>1. hi - lo + 1 \in Nat
    OBVIOUS
  <1>2. file_stream_range(lo, hi - lo + 1) = Run(lo, hi - lo + 1)
    BY <1>1, StreamBytes
  <1>3. Len(Run(lo, hi - lo + 1)) = hi - lo + 1
    BY <1>1 DEF Run
  <1>. QED  BY <1>2, <1>3, AscendingInterval

(* Each of the three answers is what the reference says. *)
LEMMA RangeIsExact ==
    ASSUME NEW h \in Headers, NEW size \in Nat
    PROVE  Exact(h, size, cached_blob_response(h, size))
  <1>. DEFINE p == parse_single_byte_range(h, size)
              r == cached_blob_response(h, size)
  <1>1. CASE Malformed(h)
    <2>1. r = [status |-> 200, length |-> size, body |-> file_stream_range(0, size)]
      BY <1>1 DEF cached_blob_response, parse_single_byte_range, Whole
    <2>2. file_stream_range(0, size) = Ascending(0 .. size - 1) /\ Len(file_stream_range(0, size)) = size
      <3>1. size - 1 \in Int /\ size - 1 >= 0 - 1 /\ (size - 1) - 0 + 1 = size
        OBVIOUS
      <3>. QED  BY <3>1, IntervalSent
    <2>3. h.form = "other" \/ \E n \in Stated(h) : n > U64Max
      <3>1. h.form \in Forms /\ h.a \in Nat /\ h.b \in Nat
        BY RangeAssumption DEF Headers, Number
      <3>. QED  BY <1>1, <3>1, RangeAssumption DEF Malformed, Parses, Stated, Forms
    <2>. HIDE DEF r
    <2>. QED  BY <2>1, <2>2, <2>3 DEF Exact, r
  <1>2. CASE ~Malformed(h)
    <2>1. CASE p = Unsatisfiable /\ Asked(h, size) = {}
      <3>1. r = [status |-> 416, length |-> 0, body |-> <<>>]
        BY <2>1 DEF cached_blob_response, Unsatisfiable
      <3>2. h.form # "other"
        BY <1>2 DEF Malformed
      <3>. HIDE DEF r
      <3>. QED  BY <2>1, <3>1, <3>2 DEF Exact, r
    <2>2. ASSUME NEW lo \in Nat, NEW hi \in Nat, lo <= hi, p = Part(lo, hi), Asked(h, size) = lo .. hi
          PROVE  Exact(h, size, r)
      <3>1. r = [status |-> 206, length |-> hi - lo + 1, body |-> file_stream_range(lo, hi - lo + 1)]
        BY <2>2 DEF cached_blob_response, Part
      <3>2. lo \in lo .. hi /\ hi >= lo - 1 /\ hi \in Int
        BY <2>2
      <3>3. /\ file_stream_range(lo, hi - lo + 1) = Ascending(lo .. hi)
            /\ Len(file_stream_range(lo, hi - lo + 1)) = hi - lo + 1
        BY <3>2, IntervalSent
      <3>. HIDE DEF r, p
      <3>4. r.status = 206 /\ r.length = Len(r.body) /\ r.body = Ascending(Asked(h, size))
        BY <2>2, <3>1, <3>3
      <3>5. Asked(h, size) # {}
        BY <2>2, <3>2, Zenon
      <3>. QED  BY <3>4, <3>5 DEF Exact
    <2>. QED  BY <1>2, <2>1, <2>2, RangeParsed
  <1>. QED  BY <1>1, <1>2
-----------------------------------------------------------------------------
(* Names and requests *)

(* Everything a name or a request may consist of. *)
Words == Components \cup {"docker.io", "ghcr.io", "library"} \cup Markers \cup Tags

(* Of a request for something of a repository the repository is what        *)
(* precedes the last two components, however many markers its name has.     *)
LEMMA RequestParts ==
    ASSUME NEW body \in Seq(Words), NEW marker \in Markers, NEW ref \in Tags
    PROVE  LET q == DaemonPath(body, marker, ref) IN
           /\ q \in Seq(Words) /\ Len(q) = Len(body) + 2
           /\ q[Len(body) + 1] = marker
           /\ \A i \in 1 .. Len(body) : q[i] = body[i]
           /\ SubSeq(q, 1, Len(body)) = body
           /\ registry_repository(q) = body
           /\ classify_registry_path(q) =
                 CASE marker = "blobs" -> "blob" [] marker = "manifests" -> "manifest" [] OTHER -> "other"
  <1>. DEFINE end == <<marker, ref>>
              q == DaemonPath(body, marker, ref)
              n == Len(body)
  <1>1. end \in Seq(Words) /\ Len(end) = 2 /\ end[1] = marker /\ n \in Nat
    BY DEF Words
  <1>2. q = body \o end
    BY DEF DaemonPath
  <1>. HIDE DEF end, q
  <1>3. /\ q \in Seq(Words) /\ Len(q) = n + 2
        /\ \A i \in 1 .. n : q[i] = body[i]
        /\ q[n + 1] = marker
    <2>1. /\ body \o end \in Seq(Words) /\ Len(body \o end) = n + Len(end)
          /\ \A i \in 1 .. n + Len(end) : (body \o end)[i] = IF i <= n THEN body[i] ELSE end[i - n]
      BY <1>1, ConcatProperties
    <2>2. /\ q \in Seq(Words) /\ Len(q) = n + 2
          /\ \A i \in 1 .. n + 2 : q[i] = IF i <= n THEN body[i] ELSE end[i - n]
      BY <1>1, <1>2, <2>1
    <2>. QED  BY <1>1, <2>2
  <1>4. SubSeq(q, 1, n) = body
    <2>1. CASE n = 0
      <3>1. body = <<>>
        BY <2>1
      <3>2. SubSeq(q, 1, 0) = <<>>
        BY SubSeqEmpty
      <3>. QED  BY <2>1, <3>1, <3>2
    <2>2. CASE n # 0
      <3>1. 1 \in 1 .. n /\ n \in 1 .. n
        BY <1>1, <2>2
      <3>2. SubSeq(body \o end, 1, n) = SubSeq(body, 1, n)
        BY <1>1, <3>1, SubSeqOfConcat1
      <3>. QED  BY <1>2, <3>2, SubSeqFull
    <2>. QED  BY <2>1, <2>2
  <1>5. registry_repository(q) = body
    <2>1. CASE n = 0
      <3>1. MarkersIn(q) = {} /\ body = <<>>
        BY <1>3, <2>1 DEF MarkersIn
      <3>. QED  BY <3>1 DEF registry_repository
    <2>2. CASE n # 0
      <3>1. n + 1 \in MarkersIn(q) /\ \A i \in MarkersIn(q) : i \in Nat /\ i <= n + 1
        BY <1>1, <1>3, <2>2 DEF MarkersIn
      <3>. DEFINE S == MarkersIn(q)
      <3>. HIDE DEF S
      <3>2. Max(S) = n + 1
        BY <1>1, <3>1 DEF Max, S
      <3>3. Max(S) - 1 = n
        BY <1>1, <3>2
      <3>. QED  BY <1>4, <3>1, <3>3 DEF registry_repository, Last, S
    <2>. QED  BY <2>1, <2>2
  <1>6. classify_registry_path(q) =
           CASE marker = "blobs" -> "blob" [] marker = "manifests" -> "manifest" [] OTHER -> "other"
    <2>. DEFINE S == {i \in 1 .. Len(q) - 1 : q[i] \in Markers}
    <2>1. n + 1 \in S /\ \A i \in S : i \in Nat /\ i <= n + 1
      BY <1>1, <1>3
    <2>2. classify_registry_path(q) =
             CASE S # {} /\ q[Max(S)] = "blobs" -> "blob"
               [] S # {} /\ q[Max(S)] = "manifests" -> "manifest"
               [] OTHER -> "other"
      BY DEF classify_registry_path
    <2>. HIDE DEF S
    <2>3. Max(S) = n + 1
      BY <1>1, <2>1 DEF Max
    <2>4. q[Max(S)] = marker /\ S # {}
      BY <1>3, <2>1, <2>3
    <2>. QED  BY <2>2, <2>4
  <1>. QED  BY <1>3, <1>4, <1>5, <1>6 DEF q

(* A first component, and what follows it. *)
LEMMA Prefixed ==
    ASSUME NEW X, NEW r \in X, NEW s \in Seq(X)
    PROVE  /\ <<r>> \o s \in Seq(X) /\ Len(<<r>> \o s) = Len(s) + 1
           /\ (<<r>> \o s)[1] = r /\ Tail(<<r>> \o s) = s
           /\ \A i \in 1 .. Len(s) : (<<r>> \o s)[i + 1] = s[i]
  <1>1. /\ <<r>> \o s \in Seq(X) /\ Len(<<r>> \o s) = Len(s) + 1
        /\ \A i \in 1 .. Len(s) + 1 : (<<r>> \o s)[i] = IF i <= 1 THEN r ELSE s[i - 1]
    <2>1. <<r>> \in Seq(X) /\ Len(<<r>>) = 1 /\ <<r>>[1] = r
      OBVIOUS
    <2>2. /\ <<r>> \o s \in Seq(X) /\ Len(<<r>> \o s) = 1 + Len(s)
          /\ \A i \in 1 .. 1 + Len(s) : (<<r>> \o s)[i] = IF i <= 1 THEN <<r>>[i] ELSE s[i - 1]
      BY <2>1, ConcatProperties
    <2>. QED  BY <2>1, <2>2
  <1>. DEFINE t == <<r>> \o s
  <1>2. \A i \in 1 .. Len(s) : t[i + 1] = s[i]
    BY <1>1
  <1>3. t # <<>>
    BY <1>1
  <1>. HIDE DEF t
  <1>4. Tail(t) \in Seq(X) /\ Len(Tail(t)) = Len(s) /\ \A i \in 1 .. Len(s) : Tail(t)[i] = s[i]
    BY <1>1, <1>2, <1>3, HeadTailProperties DEF t
  <1>5. Tail(t) = s
    BY <1>4, SeqEqual
  <1>. QED  BY <1>1, <1>2, <1>5 DEF t

(* What is asked for behind a first component. *)
LEMMA PrefixedRequest ==
    ASSUME NEW r \in Words, NEW s \in Seq(Words), NEW marker \in Markers, NEW ref \in Tags
    PROVE  DaemonPath(<<r>> \o s, marker, ref) = <<r>> \o DaemonPath(s, marker, ref)
  <1>1. <<r>> \in Seq(Words) /\ <<marker, ref>> \in Seq(Words)
    BY DEF Words
  <1>. QED  BY <1>1, ConcatAssociative DEF DaemonPath

(* Names are sequences of components. *)
LEMMA NamesAreSeqs ==
    ASSUME NEW name \in Names
    PROVE  name \in Seq(Components) /\ name \in Seq(Words) /\ Len(name) \in Nat \ {0}
  <1>1. PICK n \in 1 .. MaxName : name \in [1 .. n -> Components]
    BY DEF Names
  <1>2. n \in Nat \ {0}
    BY <1>1, InputAssumption
  <1>3. name \in Seq(Components) /\ Len(name) = n
    BY <1>1, <1>2
  <1>4. name \in Seq(Words)
    BY <1>3, SeqMonotonic DEF Words
  <1>. QED  BY <1>2, <1>3, <1>4

(* A name is its only component, or a first one and more. *)
LEMMA FirstAndRest ==
    ASSUME NEW X, NEW s \in Seq(X), Len(s) # 0
    PROVE  /\ s[1] \in X /\ Tail(s) \in Seq(X) /\ Len(Tail(s)) = Len(s) - 1
           /\ s = <<s[1]>> \o Tail(s)
  <1>1. s # <<>> /\ Len(s) \in Nat
    OBVIOUS
  <1>2. s[1] \in X /\ Tail(s) \in Seq(X) /\ Len(Tail(s)) = Len(s) - 1
        /\ \A i \in 1 .. Len(Tail(s)) : Tail(s)[i] = s[i + 1]
    BY <1>1, HeadTailProperties
  <1>. DEFINE t == <<s[1]>> \o Tail(s)
  <1>3. /\ t \in Seq(X) /\ Len(t) = Len(Tail(s)) + 1 /\ t[1] = s[1]
        /\ \A i \in 1 .. Len(Tail(s)) : t[i + 1] = Tail(s)[i]
    BY <1>2, Prefixed
  <1>. HIDE DEF t
  <1>4. \A i \in 1 .. Len(s) : t[i] = s[i]
    <2>. SUFFICES ASSUME NEW i \in 1 .. Len(s), i # 1  PROVE t[i] = s[i]
      BY <1>3
    <2>1. i - 1 \in 1 .. Len(Tail(s)) /\ (i - 1) + 1 = i
      BY <1>1, <1>2
    <2>. QED  BY <1>2, <1>3, <2>1
  <1>5. t = s
    BY <1>1, <1>2, <1>3, <1>4, SeqEqual
  <1>. QED  BY <1>2, <1>5 DEF t

(* What parse_image_ref makes of a name, and what it means. *)
LEMMA ParsedName ==
    ASSUME NEW name \in Names, parse_image_ref(name).ok, ~Ambiguous(name)
    PROVE  LET p == parse_image_ref(name) IN
           /\ p.path \in Seq(Words) /\ Len(p.path) \in Nat \ {0}
           /\ p.registry \in {"docker.io", "ghcr.io"}
           /\ Normalized(name) = Route(p.registry, PullPath(p))
           /\ p.registry = "docker.io" => (Len(p.path) > 1 => p.path[1] \notin HostLike)
  <1>. DEFINE hosted == Len(name) > 1 /\ name[1] \in HostLike
              registry == IF hosted THEN name[1] ELSE "docker.io"
              path == IF hosted THEN Tail(name) ELSE name
              p == parse_image_ref(name)
  <1>1. /\ registry \in {"docker.io", "ghcr.io"} /\ WellFormed(path)
        /\ p = [ok |-> TRUE, registry |-> registry, path |-> path]
    BY DEF parse_image_ref, Refused, Plain
  <1>2. name \in Seq(Words) /\ Len(name) \in Nat \ {0}
    BY NamesAreSeqs
  <1>3. path \in Seq(Words)
    BY <1>2, FirstAndRest
  <1>4. Len(path) \in Nat \ {0}
    BY <1>1, <1>3 DEF WellFormed
  <1>5. Normalized(name) =
           Route(registry, IF registry = "docker.io" /\ Len(path) = 1 THEN <<"library">> \o path ELSE path)
    BY DEF Normalized
  <1>. HIDE DEF registry, path
  <1>6. p.registry = registry /\ p.path = path
    BY <1>1
  <1>. HIDE DEF p
  <1>7. Normalized(name) = Route(p.registry, PullPath(p))
    BY <1>5, <1>6 DEF PullPath
  <1>8. registry = "docker.io" /\ Len(path) > 1 => path[1] \notin HostLike
    BY <1>4, <1>5 DEF Ambiguous, Route
  <1>. QED  BY <1>1, <1>3, <1>4, <1>6, <1>7, <1>8 DEF p

(* The repository the daemon pulls is routed to the registry of the name.   *)
LEMMA PulledRepository ==
    ASSUME NEW name \in Names, parse_image_ref(name).ok, ~Ambiguous(name),
           NEW marker \in Markers, NEW ref \in Tags
    PROVE  LET p == parse_image_ref(name) IN
           /\ PullPath(p) \in Seq(Words)
           /\ route_request(DaemonPath(pull_repo(p), marker, ref)) =
                 Route(p.registry, DaemonPath(PullPath(p), marker, ref))
  <1>. DEFINE p == parse_image_ref(name)
  <1>1. /\ p.path \in Seq(Words) /\ Len(p.path) \in Nat \ {0}
        /\ p.registry \in {"docker.io", "ghcr.io"}
        /\ p.registry = "docker.io" => (Len(p.path) > 1 => p.path[1] \notin HostLike)
    BY ParsedName
  <1>. HIDE DEF p
  <1>2. "library" \in Words /\ "ghcr.io" \in Words
    BY DEF Words
  <1>3. PullPath(p) \in Seq(Words) /\ Len(PullPath(p)) \in Nat \ {0}
    BY <1>1, <1>2, Prefixed DEF PullPath
  <1>4. CASE p.registry = "ghcr.io"
    <2>. DEFINE q == DaemonPath(PullPath(p), marker, ref)
    <2>1. DaemonPath(pull_repo(p), marker, ref) = <<"ghcr.io">> \o q
      BY <1>2, <1>3, <1>4, PrefixedRequest DEF pull_repo
    <2>2. q \in Seq(Words) /\ Len(q) = Len(PullPath(p)) + 2
      BY <1>3, RequestParts
    <2>. HIDE DEF q
    <2>3. Len(<<"ghcr.io">> \o q) > 1 /\ (<<"ghcr.io">> \o q)[1] = "ghcr.io" /\ Tail(<<"ghcr.io">> \o q) = q
      BY <1>2, <1>3, <2>2, Prefixed
    <2>4. route_request(<<"ghcr.io">> \o q) = Route("ghcr.io", q)
      BY <2>3 DEF route_request, Stripped
    <2>. QED  BY <1>3, <1>4, <2>1, <2>4 DEF q, p
  <1>5. CASE p.registry = "docker.io"
    <2>1. pull_repo(p) = PullPath(p)
      BY <1>5 DEF pull_repo
    <2>2. PullPath(p)[1] \notin {"docker.io", "ghcr.io"}
      <3>1. CASE Len(p.path) = 1
        <4>1. PullPath(p) = <<"library">> \o p.path
          BY <1>5, <3>1 DEF PullPath
        <4>2. PullPath(p)[1] = "library"
          BY <1>1, <1>2, <4>1, Prefixed
        <4>. QED  BY <4>2
      <3>2. CASE Len(p.path) # 1
        <4>1. PullPath(p) = p.path
          BY <3>2 DEF PullPath
        <4>2. Len(p.path) > 1
          <5>1. \A n \in Nat \ {0} : n # 1 => n > 1
            OBVIOUS
          <5>. QED  BY <1>1, <3>2, <5>1, Zenon
        <4>. QED  BY <1>1, <1>5, <4>1, <4>2, NamesAssumption
      <3>. QED  BY <3>1, <3>2
    <2>. DEFINE q == DaemonPath(PullPath(p), marker, ref)
    <2>3. q[1] = PullPath(p)[1]
      BY <1>3, RequestParts
    <2>. HIDE DEF q
    <2>4. route_request(q) = Route("docker.io", q)
      BY <2>2, <2>3 DEF route_request, Stripped
    <2>. QED  BY <1>3, <1>5, <2>1, <2>4 DEF q, p
  <1>. QED  BY <1>1, <1>4, <1>5

(* What the image is renamed to means what the user's name means. *)
LEMMA RenamedImage ==
    ASSUME NEW name \in Names, parse_image_ref(name).ok, ~Ambiguous(name)
    PROVE  Normalized(Canonical(parse_image_ref(name))) = Normalized(name)
  <1>. DEFINE p == parse_image_ref(name)
              c == Canonical(p)
  <1>1. /\ p.path \in Seq(Words) /\ Len(p.path) \in Nat \ {0}
        /\ p.registry \in {"docker.io", "ghcr.io"}
        /\ Normalized(name) = Route(p.registry, PullPath(p))
        /\ p.registry = "docker.io" => (Len(p.path) > 1 => p.path[1] \notin HostLike)
    BY ParsedName
  <1>. HIDE DEF p
  <1>2. CASE p.registry = "ghcr.io"
    <2>1. Len(c) > 1 /\ c[1] = "ghcr.io" /\ Tail(c) = p.path
      <3>1. "ghcr.io" \in Words /\ c = <<"ghcr.io">> \o p.path
        BY <1>2 DEF Words, Canonical
      <3>. HIDE DEF c
      <3>2. Len(c) = Len(p.path) + 1 /\ c[1] = "ghcr.io" /\ Tail(c) = p.path
        BY <1>1, <3>1, Prefixed
      <3>. QED  BY <1>1, <3>2
    <2>. HIDE DEF c
    <2>2. Normalized(c) = Route("ghcr.io", p.path)
      BY <2>1, NamesAssumption DEF Normalized
    <2>3. PullPath(p) = p.path
      BY <1>2 DEF PullPath
    <2>. QED  BY <1>1, <1>2, <2>2, <2>3 DEF c, p
  <1>3. CASE p.registry = "docker.io"
    <2>1. c = p.path
      BY <1>3 DEF Canonical
    <2>. HIDE DEF c
    <2>2. Normalized(c) = Route("docker.io", PullPath(p))
      BY <1>1, <1>3, <2>1 DEF Normalized, PullPath
    <2>. QED  BY <1>1, <1>3, <2>2 DEF c, p
  <1>. QED  BY <1>1, <1>2, <1>3

(* The pull of a name comes home. *)
LEMMA NamesComeHome ==
    ASSUME NEW name \in Names, NEW tag \in Tags \cup {NoRef}, NEW digest \in ImageDigests \cup {NoRef},
           NEW marker \in Markers, NEW ref \in Tags
    PROVE  ComesHome(name, tag, digest, marker, ref)
  <1>. DEFINE p == parse_image_ref(name)
              plan == plan_pull(p, tag, digest)
              route == route_request(DaemonPath(plan.repo, marker, ref))
  <1>. SUFFICES ASSUME p.ok, ~Ambiguous(name)
                PROVE  /\ Route(route.registry, registry_repository(route.path)) = Normalized(name)
                       /\ classify_registry_path(route.path) =
                             CASE marker = "blobs" -> "blob" [] marker = "manifests" -> "manifest" [] OTHER -> "other"
                       /\ plan.retag # <<>> => Normalized(plan.retag) = Normalized(name) /\ plan.tag # NoRef
    BY DEF ComesHome
  <1>1. /\ plan.repo = pull_repo(p)
        /\ digest # NoRef => plan.retag = <<>>
        /\ digest = NoRef => plan.retag = Canonical(p) /\ plan.tag # NoRef
    BY NamesAssumption DEF plan_pull
  <1>2. PullPath(p) \in Seq(Words) /\ route = Route(p.registry, DaemonPath(PullPath(p), marker, ref))
    BY <1>1, PulledRepository
  <1>3. Normalized(name) = Route(p.registry, PullPath(p))
    BY ParsedName
  <1>4. Normalized(Canonical(p)) = Normalized(name)
    BY RenamedImage
  <1>. HIDE DEF p, plan, route
  <1>5. route.registry = p.registry /\ route.path = DaemonPath(PullPath(p), marker, ref)
    BY <1>2 DEF Route
  <1>6. /\ registry_repository(route.path) = PullPath(p)
        /\ classify_registry_path(route.path) =
              CASE marker = "blobs" -> "blob" [] marker = "manifests" -> "manifest" [] OTHER -> "other"
    BY <1>2, <1>5, RequestParts
  <1>7. Route(route.registry, registry_repository(route.path)) = Normalized(name)
    BY <1>3, <1>5, <1>6
  <1>8. plan.retag # <<>> => Normalized(plan.retag) = Normalized(name) /\ plan.tag # NoRef
    BY <1>1, <1>4
  <1>. QED  BY <1>6, <1>7, <1>8

-----------------------------------------------------------------------------
(* Scopes *)

(* A scope with the prefix of a registry leads back to it. *)
LEMMA PrefixedScope ==
    ASSUME NEW reg \in {"docker.io", "ghcr.io"}, NEW repo \in Seq(Words), repo # <<>>
    PROVE  IF Plain(repo)
             THEN rewrite_scope(<<reg>> \o repo) = [ok |-> TRUE, registry |-> reg, path |-> repo]
             ELSE ~rewrite_scope(<<reg>> \o repo).ok
  <1>. DEFINE s == <<reg>> \o repo
  <1>1. reg \in Words /\ Len(repo) \in Nat \ {0} /\ reg # BadComponent /\ reg \notin WithPort
    BY NamesAssumption DEF Words, BadComponent
  <1>2. /\ s \in Seq(Words) /\ Len(s) = Len(repo) + 1 /\ s[1] = reg /\ Tail(s) = repo
        /\ \A i \in 1 .. Len(repo) : s[i + 1] = repo[i]
    BY <1>1, Prefixed
  <1>. HIDE DEF s
  <1>3. Plain(s) <=> Plain(repo)
    <2>. DEFINE Good(c) == c # BadComponent /\ c \notin WithPort
    <2>1. DOMAIN s = 1 .. Len(s) /\ DOMAIN repo = 1 .. Len(repo) /\ s # <<>> /\ Good(s[1])
      BY <1>1, <1>2
    <2>. HIDE DEF Good
    <2>2. ASSUME \A i \in 1 .. Len(repo) : Good(repo[i]), NEW i \in 1 .. Len(s)  PROVE Good(s[i])
      <3>1. CASE i = 1
        BY <2>1, <3>1
      <3>2. CASE i # 1
        <4>1. i - 1 \in 1 .. Len(repo) /\ (i - 1) + 1 = i
          BY <1>1, <1>2, <3>2
        <4>. QED  BY <1>2, <2>2, <4>1
      <3>. QED  BY <3>1, <3>2
    <2>3. ASSUME \A i \in 1 .. Len(s) : Good(s[i]), NEW i \in 1 .. Len(repo)  PROVE Good(repo[i])
      <3>1. i + 1 \in 1 .. Len(s)
        BY <1>1, <1>2
      <3>. QED  BY <1>2, <2>3, <3>1
    <2>4. /\ Plain(s) <=> \A i \in 1 .. Len(s) : Good(s[i])
          /\ Plain(repo) <=> \A i \in 1 .. Len(repo) : Good(repo[i])
      BY <2>1 DEF Plain, WellFormed, Good
    <2>. QED  BY <2>2, <2>3, <2>4
  <1>4. Stripped(s) = Route(reg, repo)
    <2>1. Len(s) > 1 /\ s[1] \in {"docker.io", "ghcr.io"}
      BY <1>1, <1>2
    <2>2. Stripped(s) = Route(s[1], Tail(s))
      BY <2>1 DEF Stripped
    <2>. QED  BY <1>2, <2>2
  <1>5. Stripped(s).registry = reg /\ Stripped(s).path = repo
    BY <1>4 DEF Route
  <1>6. IF Plain(repo)
          THEN rewrite_scope(s) = [ok |-> TRUE, registry |-> Stripped(s).registry, path |-> Stripped(s).path]
          ELSE rewrite_scope(s) = Refused
    BY <1>3 DEF rewrite_scope
  <1>7. ~Refused.ok
    BY DEF Refused
  <1>. QED  BY <1>5, <1>6, <1>7 DEF s

(* A bare scope is one of Docker Hub. *)
LEMMA BareDockerScope ==
    ASSUME NEW repo \in Seq(Words), Plain(repo), repo[1] \notin {"docker.io", "ghcr.io"}
    PROVE  rewrite_scope(repo) = [ok |-> TRUE, registry |-> "docker.io", path |-> repo]
  BY DEF rewrite_scope, Stripped, Route

(* Two scopes in a sequence. *)
LEMMA Pair == ASSUME NEW a, NEW b PROVE <<a>> \o <<b>> = <<a, b>>
  <1>. DEFINE X == {a, b}
              c == <<a>> \o <<b>>
  <1>1. /\ <<a>> \in Seq(X) /\ <<b>> \in Seq(X) /\ <<a, b>> \in Seq(X)
        /\ Len(<<a>>) = 1 /\ Len(<<b>>) = 1 /\ Len(<<a, b>>) = 2
    OBVIOUS
  <1>. HIDE DEF X
  <1>2. /\ c \in Seq(X) /\ Len(c) = Len(<<a>>) + Len(<<b>>)
        /\ \A i \in 1 .. Len(<<a>>) + Len(<<b>>) :
              c[i] = IF i <= Len(<<a>>) THEN <<a>>[i] ELSE <<b>>[i - Len(<<a>>)]
    BY <1>1, ConcatProperties
  <1>. HIDE DEF c
  <1>3. Len(c) = 2 /\ \A i \in 1 .. 2 : c[i] = <<a, b>>[i]
    BY <1>1, <1>2
  <1>4. c = <<a, b>>
    BY <1>1, <1>2, <1>3, SeqEqual
  <1>. QED  BY <1>4 DEF c

(* Scopes that all lead to one repository are merged to it. *)
LEMMA MergedScopes ==
    ASSUME NEW scopes, Len(scopes) \in DOMAIN scopes, scopes # <<>>, NEW there, there.ok,
           \A i \in DOMAIN scopes : rewrite_scope(scopes[i]) = there
    PROVE  merged_upstream_scope(scopes) = [ok |-> TRUE, registry |-> there.registry, scopes |-> {there.path}]
  <1>. DEFINE rewritten == [i \in DOMAIN scopes |-> rewrite_scope(scopes[i])]
  <1>1. \A i \in DOMAIN scopes : rewritten[i] = there
    OBVIOUS
  <1>2. merged_upstream_scope(scopes) =
           IF \E i \in DOMAIN scopes : ~rewritten[i].ok
             THEN [ok |-> FALSE, registry |-> NoRef, scopes |-> {}]
             ELSE [ok |-> TRUE,
                   registry |-> IF scopes = <<>> THEN "docker.io" ELSE rewritten[Len(scopes)].registry,
                   scopes |-> {rewritten[i].path : i \in DOMAIN scopes}]
    BY DEF merged_upstream_scope
  <1>. HIDE DEF rewritten
  <1>3. {rewritten[i].path : i \in DOMAIN scopes} = {there.path}
    BY <1>1
  <1>. QED  BY <1>1, <1>2, <1>3

(* One refused scope is enough to refuse the request. *)
LEMMA RefusedScopes ==
    ASSUME NEW scopes, \E i \in DOMAIN scopes : ~rewrite_scope(scopes[i]).ok
    PROVE  merged_upstream_scope(scopes).ok = FALSE
  BY DEF merged_upstream_scope

(* A request under /v2/ and the repository it is routed to. *)
LEMMA RoutedRequest ==
    ASSUME NEW name \in Names, NEW marker \in Markers, NEW ref \in Tags
    PROVE  \E reg \in {"docker.io", "ghcr.io"}, body \in Seq(Words) :
              route_request(DaemonPath(name, marker, ref)) = Route(reg, DaemonPath(body, marker, ref))
  <1>. DEFINE q == DaemonPath(name, marker, ref)
  <1>1. name \in Seq(Words) /\ Len(name) \in Nat \ {0}
    BY NamesAreSeqs
  <1>2. q \in Seq(Words) /\ Len(q) = Len(name) + 2 /\ q[1] = name[1]
    BY <1>1, RequestParts
  <1>3. CASE name[1] \in {"docker.io", "ghcr.io"}
    <2>. DEFINE r == name[1]
                body == Tail(name)
    <2>1. r \in Words /\ body \in Seq(Words) /\ name = <<r>> \o body
      BY <1>1, FirstAndRest
    <2>. HIDE DEF r, body
    <2>2. q = <<r>> \o DaemonPath(body, marker, ref)
      BY <2>1, PrefixedRequest
    <2>3. DaemonPath(body, marker, ref) \in Seq(Words)
      BY <2>1, RequestParts
    <2>4. Tail(q) = DaemonPath(body, marker, ref)
      BY <2>1, <2>2, <2>3, Prefixed
    <2>. HIDE DEF q
    <2>5. route_request(q) = Route(r, DaemonPath(body, marker, ref))
      <3>1. Len(q) > 1 /\ q[1] \in {"docker.io", "ghcr.io"} /\ q[1] = r
        BY <1>1, <1>2, <1>3 DEF r
      <3>2. route_request(q) = Route(q[1], Tail(q))
        BY <3>1 DEF route_request, Stripped
      <3>. QED  BY <2>4, <3>1, <3>2
    <2>. QED  BY <1>3, <2>1, <2>5 DEF q, r
  <1>4. CASE name[1] \notin {"docker.io", "ghcr.io"}
    <2>. HIDE DEF q
    <2>1. route_request(q) = Route("docker.io", q)
      BY <1>2, <1>4 DEF route_request, Stripped
    <2>. QED  BY <1>1, <2>1 DEF q
  <1>. QED  BY <1>3, <1>4

(* blob_token asks for the repository of the chunk. *)
LEMMA ChunkScope ==
    ASSUME NEW body \in Seq(Words), Len(body) # 0, NEW marker \in Markers, NEW ref \in Tags,
           classify_registry_path(DaemonPath(body, marker, ref)) = "blob",
           \A i \in DOMAIN body : body[i] # "blobs"
    PROVE  blob_token_scope(DaemonPath(body, marker, ref)) = body
  <1>. DEFINE q == DaemonPath(body, marker, ref)
              n == Len(body)
              S == {i \in 2 .. Len(q) - 1 : q[i] = "blobs"}
  <1>1. /\ Len(q) = n + 2 /\ q[n + 1] = marker /\ \A i \in 1 .. n : q[i] = body[i]
        /\ SubSeq(q, 1, n) = body
        /\ classify_registry_path(q) =
              CASE marker = "blobs" -> "blob" [] marker = "manifests" -> "manifest" [] OTHER -> "other"
    BY RequestParts
  <1>2. marker = "blobs"
    BY <1>1
  <1>3. n \in Nat \ {0} /\ DOMAIN body = 1 .. n
    OBVIOUS
  <1>. HIDE DEF q, n
  <1>4. S = {n + 1}
    <2>1. n + 1 \in S
      BY <1>1, <1>2, <1>3
    <2>2. ASSUME NEW i \in S  PROVE i = n + 1
      <3>1. i \in 1 .. n \/ i = n + 1
        BY <1>1, <1>3
      <3>. QED  BY <1>1, <1>3, <3>1
    <2>. QED  BY <2>1, <2>2
  <1>5. blob_token_scope(q) = IF S = {} THEN <<>> ELSE SubSeq(q, 1, First(S) - 1)
    BY DEF blob_token_scope
  <1>. HIDE DEF S
  <1>6. First(S) = n + 1
    BY <1>3, <1>4 DEF First, Min
  <1>7. First(S) - 1 = n /\ S # {}
    BY <1>3, <1>4, <1>6
  <1>. QED  BY <1>1, <1>5, <1>7 DEF q

(* Every scope that answers a request fits it. *)
LEMMA ScopesFit ==
    ASSUME NEW name \in Names, NEW marker \in Markers, NEW ref \in Tags
    PROVE  ScopeFits(DaemonPath(name, marker, ref))
  <1>. DEFINE route == route_request(DaemonPath(name, marker, ref))
              repo == registry_repository(route.path)
              scopes == rewrite_401_challenge(route)
              Fits(m) == m.ok /\ m.registry = route.registry /\ m.scopes = {repo}
  <1>1. PICK reg \in {"docker.io", "ghcr.io"}, body \in Seq(Words) :
               route = Route(reg, DaemonPath(body, marker, ref))
    BY RoutedRequest
  <1>2. SUFFICES ASSUME repo # <<>>
                 PROVE  /\ merged_upstream_scope(scopes).ok = Plain(repo)
                        /\ Plain(repo) => Fits(merged_upstream_scope(scopes))
                        /\ Plain(repo) /\ route.registry = "docker.io" /\ repo[1] \notin {"docker.io", "ghcr.io"} =>
                              /\ Fits(merged_upstream_scope(<<repo>> \o scopes))
                              /\ Fits(merged_upstream_scope(scopes \o <<repo>>))
                        /\ Plain(repo) /\ classify_registry_path(route.path) = "blob" /\ (\A i \in DOMAIN repo : repo[i] # "blobs") =>
                              blob_token_scope(route.path) = repo
    BY DEF ScopeFits
  <1>. HIDE DEF route
  <1>3. route.registry = reg /\ route.path = DaemonPath(body, marker, ref)
    BY <1>1 DEF Route
  <1>4. repo = body
    BY <1>3, RequestParts
  <1>5. scopes = <<<<reg>> \o repo>>
    BY <1>2, <1>3 DEF rewrite_401_challenge
  <1>. HIDE DEF repo, scopes
  <1>. DEFINE full == <<reg>> \o repo
              there == [ok |-> TRUE, registry |-> reg, path |-> repo]
  <1>6. IF Plain(repo) THEN rewrite_scope(full) = there ELSE ~rewrite_scope(full).ok
    BY <1>2, <1>4, PrefixedScope
  <1>. HIDE DEF full, there
  <1>7. there.ok /\ there.registry = route.registry /\ there.path = repo
    BY <1>3 DEF there
  <1>. HIDE DEF Fits
  <1>s. DOMAIN scopes = 1 .. 1 /\ Len(scopes) = 1 /\ scopes # <<>> /\ scopes[1] = full
    BY <1>5 DEF full
  <1>o. 1 \in 1 .. 1 /\ \A i \in 1 .. 1 : i = 1
    OBVIOUS
  <1>8. ASSUME Plain(repo)
        PROVE  Fits(merged_upstream_scope(scopes)) /\ merged_upstream_scope(scopes).ok = TRUE
    <2>1. /\ Len(scopes) \in DOMAIN scopes /\ scopes # <<>>
          /\ \A i \in DOMAIN scopes : rewrite_scope(scopes[i]) = there
      BY <1>6, <1>8, <1>s, <1>o, Zenon
    <2>2. merged_upstream_scope(scopes) = [ok |-> TRUE, registry |-> there.registry, scopes |-> {there.path}]
      BY <1>7, <2>1, MergedScopes
    <2>. QED  BY <1>7, <2>2 DEF Fits
  <1>r. ASSUME ~Plain(repo)  PROVE merged_upstream_scope(scopes).ok = FALSE
    <2>1. \E i \in DOMAIN scopes : ~rewrite_scope(scopes[i]).ok
      BY <1>6, <1>r, <1>s, <1>o, Zenon
    <2>. QED  BY <2>1, RefusedScopes
  <1>9. ASSUME Plain(repo), route.registry = "docker.io", repo[1] \notin {"docker.io", "ghcr.io"},
               NEW both \in {<<repo, full>>, <<full, repo>>}
        PROVE  Fits(merged_upstream_scope(both))
    <2>0. rewrite_scope(full) = there
      BY <1>6, <1>9
    <2>1. rewrite_scope(repo) = there
      BY <1>2, <1>3, <1>4, <1>9, BareDockerScope DEF there
    <2>2. /\ Len(both) \in DOMAIN both /\ both # <<>>
          /\ \A i \in DOMAIN both : rewrite_scope(both[i]) = there
      <3>1. /\ DOMAIN both = 1 .. 2 /\ Len(both) = 2 /\ both # <<>>
            /\ both[1] \in {repo, full} /\ both[2] \in {repo, full}
        BY <1>9
      <3>2. 2 \in 1 .. 2 /\ \A i \in 1 .. 2 : i = 1 \/ i = 2
        OBVIOUS
      <3>. QED  BY <2>0, <2>1, <3>1, <3>2, Zenon
    <2>3. merged_upstream_scope(both) = [ok |-> TRUE, registry |-> there.registry, scopes |-> {there.path}]
      BY <1>7, <2>2, MergedScopes
    <2>. QED  BY <1>7, <2>3 DEF Fits
  <1>10. <<repo>> \o scopes = <<repo, full>> /\ scopes \o <<repo>> = <<full, repo>>
    BY <1>5, Pair DEF full
  <1>11. classify_registry_path(route.path) = "blob" /\ (\A i \in DOMAIN repo : repo[i] # "blobs") =>
            blob_token_scope(route.path) = repo
    <2>1. Len(body) # 0
      BY <1>2, <1>4
    <2>. QED  BY <1>3, <1>4, <2>1, ChunkScope
  <1>12. Plain(repo) \in BOOLEAN
    BY DEF Plain, WellFormed
  <1>13. merged_upstream_scope(scopes).ok = Plain(repo)
    <2>1. CASE Plain(repo) = TRUE
      BY <1>8, <2>1
    <2>2. CASE Plain(repo) = FALSE
      BY <1>r, <2>2
    <2>. QED  BY <1>12, <2>1, <2>2, Zenon
  <1>. QED  BY <1>8, <1>9, <1>10, <1>11, <1>13

-----------------------------------------------------------------------------
(* The behaviours of PureFunctions *)

(* An input is one of the two kinds, and stays what it is. *)
InputOK == input \in RangeInputs \/ input \in NameInputs

(* The kinds are told apart. *)
LEMMA InputKinds ==
    /\ input \in RangeInputs => IsRange(input)
    /\ input \in NameInputs => ~IsRange(input)
  BY DEF RangeInputs, NameInputs, IsRange

Answers == RangeExact /\ PullComesHome /\ ScopeMatchesRoute

(* Every step keeps the input and gives the right answer. *)
LEMMA AnswersRight == InputOK /\ Answers /\ [InputNext]_<<input, output>> => InputOK' /\ Answers'
  <1>. SUFFICES ASSUME InputOK, Answers, [InputNext]_<<input, output>>  PROVE InputOK' /\ Answers'
    OBVIOUS
  <1>1. CASE UNCHANGED <<input, output>> \/ Replied
    BY <1>1 DEF Replied, InputOK, Answers, RangeExact, PullComesHome, ScopeMatchesRoute
  <1>2. CASE ServeRange
    <2>1. input' = input /\ IsRange(input) /\ output' = <<cached_blob_response(input.header, input.size)>>
      BY <1>2 DEF ServeRange
    <2>2. input.header \in Headers /\ input.size \in Nat
      BY <2>1, InputKinds, InputAssumption DEF InputOK, RangeInputs
    <2>3. Exact(input.header, input.size, cached_blob_response(input.header, input.size))
      BY <2>2, RangeIsExact
    <2>4. output'[1] = cached_blob_response(input.header, input.size)
      BY <2>1
    <2>. QED  BY <2>1, <2>3, <2>4 DEF InputOK, Answers, RangeExact, PullComesHome, ScopeMatchesRoute
  <1>3. CASE RequestName
    <2>. DEFINE home == ComesHome(input.name, input.tag, input.digest, input.marker, input.ref)
                scope == ScopeFits(DaemonPath(input.name, input.marker, input.ref))
    <2>1. input' = input /\ ~IsRange(input) /\ output' = <<[home |-> home, scope |-> scope]>>
      BY <1>3 DEF RequestName
    <2>2. /\ input.name \in Names /\ input.tag \in Tags \cup {NoRef} /\ input.digest \in ImageDigests \cup {NoRef}
          /\ input.marker \in Markers /\ input.ref \in Tags
      BY <2>1, InputKinds DEF InputOK, NameInputs
    <2>3. home /\ scope
      BY <2>2, NamesComeHome, ScopesFit
    <2>. HIDE DEF home, scope
    <2>4. output'[1].home = home /\ output'[1].scope = scope
      BY <2>1
    <2>. QED  BY <2>1, <2>3, <2>4 DEF InputOK, Answers, RangeExact, PullComesHome, ScopeMatchesRoute
  <1>. QED  BY <1>1, <1>2, <1>3 DEF InputNext

(* Nothing is answered at first. *)
LEMMA NothingAnswered == InputInit => InputOK /\ Answers
  BY DEF InputInit, InputOK, Answers, RangeExact, PullComesHome, ScopeMatchesRoute

(* cached_blob_response sends exactly the bytes a Range header asks for and *)
(* announces their number, for blobs of any size, any read buffer and any   *)
(* largest number.                                                          *)
THEOREM RangesAreExact == InputSpec => []RangeExact
  <1>1. Answers => RangeExact
    BY DEF Answers
  <1>. QED  BY <1>1, NothingAnswered, AnswersRight, PTL DEF InputSpec

(* The pull of any name, of any length and of any components, comes back to *)
(* the registry and the repository that it names.                           *)
THEOREM PullsComeHome == InputSpec => []PullComesHome
  <1>1. Answers => PullComesHome
    BY DEF Answers
  <1>. QED  BY <1>1, NothingAnswered, AnswersRight, PTL DEF InputSpec

(* The challenges and the token endpoint agree with the routes, for names   *)
(* of any length and of any components.                                     *)
THEOREM ScopesMatchRoutes == InputSpec => []ScopeMatchesRoute
  <1>1. Answers => ScopeMatchesRoute
    BY DEF Answers
  <1>. QED  BY <1>1, NothingAnswered, AnswersRight, PTL DEF InputSpec
=============================================================================

------------------------------ MODULE P3xcWire ------------------------------
(***************************************************************************)
(* The P3XC codecs, ps3_cluster/protocol.py and batch.py: a frame with its *)
(* array and trailer, and the trailers of a batch request (BREQ), its two  *)
(* kinds of response (BRSP) and a structured error (BERR).  Encoders and   *)
(* decoders give Rejected for any ProtocolError.                           *)
(***************************************************************************)
EXTENDS Cells, FiniteSets, Functions

CONSTANTS MaxFrame,     \* MAX_FRAME_BYTES, scaled down
          MaxEntries,   \* MAX_BATCH_ENTRIES, scaled down
          MaxString,    \* MAX_STRING_BYTES, scaled down
          MaxRequestId  \* MAX_REQUEST_ID, scaled down

HeadSize == 16

Product(shape) == FoldLeft(LAMBDA n, k : n * k, 1, shape)

\* encode: the arrays of batch frames are float32, so four bytes an element.
Encode(type, layer, shape, array, trailer) ==
    LET body == Cell(4, "P3XC") \o Cell(1, 1) \o Cell(1, type) \o Cell(2, layer) \o Cell(2, 65535)
                  \o Cell(4, 0) \o Cell(1, "f32") \o Cell(1, Len(shape))
                  \o Cells(4, shape) \o Cells(4, array) \o trailer
    IN  IF Size(body) > MaxFrame THEN Rejected ELSE body

\* decode: whatever follows the array is the trailer.
Decode(p) ==
    LET ndim  == At(p, 15, 1)
        shape == Run(p, HeadSize, 4, ndim)
        start == HeadSize + 4 * ndim
        count == Product(shape)
    IN  IF \/ Size(p) < HeadSize
           \/ At(p, 0, 4) # "P3XC"
           \/ At(p, 4, 1) # 1
           \/ Size(p) < start
           \/ At(p, 14, 1) # "f32"
           \/ Size(p) < start + 4 * count
          THEN Rejected
          ELSE [type |-> At(p, 5, 1), layer |-> At(p, 6, 2), shape |-> shape,
                array |-> Run(p, start, 4, count), trailer |-> Rest(p, start + 4 * count)]

\* read_frame: the length goes before the body, and an absurd one ends the connection.
ReadFrame(length, p) ==
    IF length = 0 \/ length > MaxFrame \/ Size(p) < length THEN Rejected ELSE Decode(p)

Id(id) == IF id = NoId THEN <<>> ELSE Cell(8, id)
IdFits(id) == id = NoId \/ id \in 0..MaxRequestId
IdSize(has) == IF has THEN 8 ELSE 0

Distinct(s) == Cardinality(Range(s)) = Len(s)

\* Flags are a set: {"fast", "id"} of a request, {"rows", "id"} of a response.
IdFlag(id) == IF id = NoId THEN {} ELSE {"id"}

-----------------------------------------------------------------------------
MaxDeadline == 3600000

\* encode_batch_request and parse_batch_request.
EncodeRequest(m) ==
    IF \/ Len(m.entries) \notin 1..MaxEntries
       \/ m.deadline \notin 0..MaxDeadline
       \/ ~IdFits(m.id)
       \/ \E e \in Range(m.entries) : e.expert \notin 0..65535 \/ e.replica \notin 0..255
      THEN Rejected
    ELSE Encode("BREQ", m.layer, <<Len(m.x)>>, m.x,
           Cell(2, Len(m.entries)) \o Cell(2, (IF m.fast THEN {"fast"} ELSE {}) \cup IdFlag(m.id))
             \o Cell(4, m.deadline) \o Id(m.id)
             \o FlattenSeq([i \in DOMAIN m.entries |->
                  Cell(2, m.entries[i].expert) \o Cell(1, m.entries[i].replica) \o Cell(1, 0)
                    \o Cell(4, m.entries[i].gate)]))

\* A trailer is as long as its counts and flags say, to the byte.
Expected(p, expected) == Size(p) = expected

ParseRequest(msg) ==
    LET t     == msg.trailer
        n     == At(t, 0, 2)
        flags == At(t, 2, 2)
        start == 8 + IdSize("id" \in flags)
        entry(i) == [expert |-> At(t, start + 8 * (i - 1), 2),
                     replica |-> At(t, start + 8 * (i - 1) + 2, 1),
                     gate |-> At(t, start + 8 * (i - 1) + 4, 4)]
    IN  IF \/ Size(t) < 8
           \/ ~(flags \subseteq {"fast", "id"})
           \/ n \notin 1..MaxEntries
           \/ ~Expected(t, start + 8 * n)
           \/ \E i \in 1..n : At(t, start + 8 * (i - 1) + 3, 1) # 0
           \/ ~Distinct([i \in 1..n |-> entry(i).expert])
          THEN Rejected
          ELSE [layer |-> msg.layer, x |-> msg.array, entries |-> [i \in 1..n |-> entry(i)],
                deadline |-> At(t, 4, 4), fast |-> "fast" \in flags,
                id |-> IF "id" \in flags THEN At(t, 8, 8) ELSE NoId]

-----------------------------------------------------------------------------
\* encode_batch_response: one partial sum of n experts.
EncodeSum(m) ==
    IF m.n \notin 1..MaxEntries \/ ~IdFits(m.id) THEN Rejected
    ELSE Encode("BRSP", m.layer, <<Len(m.sum)>>, m.sum,
                Cell(2, m.n) \o Cell(2, IdFlag(m.id)) \o Id(m.id))

\* encode_batch_contributions: a row per expert.
EncodeContributions(m) ==
    IF \/ Len(m.rows) # Len(m.experts) \/ Len(m.rows) \notin 1..MaxEntries
       \/ ~IdFits(m.id)
       \/ \E e \in Range(m.experts) : e \notin 0..65535
      THEN Rejected
    ELSE Encode("BRSP", m.layer, <<Len(m.rows), Len(m.rows[1])>>, FlattenSeq(m.rows),
                Cell(2, Len(m.rows)) \o Cell(2, {"rows"} \cup IdFlag(m.id))
                  \o Cells(2, m.experts) \o Id(m.id))

\* parse_batch_response: either shape.
ParseResponse(msg) ==
    LET t     == msg.trailer
        n     == At(t, 0, 2)
        flags == At(t, 2, 2)
        tags  == IF "rows" \in flags THEN Run(t, 4, 2, n) ELSE <<>>
        width == msg.shape[2]
        row(i) == SubSeq(msg.array, width * (i - 1) + 1, width * i)
        id    == IF "id" \in flags THEN At(t, Size(t) - 8, 8) ELSE NoId
    IN  IF \/ Size(t) < 4
           \/ ~(flags \subseteq {"rows", "id"})
           \/ n \notin 1..MaxEntries
           \/ ~Expected(t, 4 + (IF "rows" \in flags THEN 2 * n ELSE 0) + IdSize("id" \in flags))
           \/ ~Distinct(tags)
           \/ "rows" \in flags /\ (Len(msg.shape) < 2 \/ msg.shape[1] # n)
          THEN Rejected
          ELSE IF "rows" \in flags
            THEN [layer |-> msg.layer, rows |-> [i \in 1..n |-> row(i)], experts |-> tags,
                  id |-> id]
            ELSE [layer |-> msg.layer, sum |-> msg.array, n |-> n, id |-> id]

-----------------------------------------------------------------------------
\* Fault: one byte more than the decoder takes.
ClipLong(text) == SubSeq(text, 1, IF Len(text) > MaxString THEN MaxString + 1 ELSE Len(text))

\* encode_batch_error: texts are clipped, and the id comes last and unannounced.
Clip(text) == SubSeq(text, 1, IF Len(text) > MaxString THEN MaxString ELSE Len(text))

Text(text) == Cell(2, Len(Clip(text))) \o Cells(1, Clip(text))

EncodeError(m) ==
    IF Len(m.failures) > MaxEntries \/ ~IdFits(m.id) THEN Rejected
    ELSE Encode("BERR", m.layer, <<1>>, <<0>>,
           Cell(2, m.code) \o Cell(2, Len(m.failures))
             \o FlattenSeq([i \in DOMAIN m.failures |-> Cell(2, m.failures[i].expert)
                              \o Cell(2, m.failures[i].reason) \o Text(m.failures[i].node)])
             \o Text(m.detail) \o Id(m.id))

\* A text of at most MaxString bytes at off, or nothing.
TextFits(t, off) == /\ Size(t) >= off + 2
                    /\ At(t, off, 2) <= MaxString
                    /\ Size(t) >= off + 2 + At(t, off, 2)

\* parse_batch_error: the failures are read one behind the other.
ParseError(msg) ==
    LET t == msg.trailer
        next(a, k) ==
            IF ~a.ok \/ Size(t) < a.off + 6 \/ ~TextFits(t, a.off + 4)
              THEN [a EXCEPT !.ok = FALSE]
              ELSE LET n == At(t, a.off + 4, 2) IN
                   [a EXCEPT !.off = @ + 6 + n,
                             !.failures = Append(@, [expert |-> At(t, a.off, 2),
                                                     reason |-> At(t, a.off + 2, 2),
                                                     node |-> Run(t, a.off + 6, 1, n)])]
        headed == Size(t) >= 4 /\ At(t, 2, 2) <= MaxEntries
        read   == FoldLeft(next, [ok |-> TRUE, off |-> 4, failures |-> <<>>],
                           [k \in 1..At(t, 2, 2) |-> k])
        end    == read.off + 2 + At(t, read.off, 2)
    IN  IF ~headed \/ ~read.ok \/ ~TextFits(t, read.off) \/ Size(t) - end \notin {0, 8}
          THEN Rejected
          ELSE [layer |-> msg.layer, code |-> At(t, 0, 2), failures |-> read.failures,
                detail |-> Run(t, read.off + 2, 1, At(t, read.off, 2)),
                id |-> IF Size(t) = end THEN NoId ELSE At(t, end, 8)]

-----------------------------------------------------------------------------
\* decode_batch and parse_batch: by the frame's type.
DecodeBatch(p) ==
    LET msg == Decode(p) IN
    IF Size(p) > MaxFrame \/ msg = Rejected THEN Rejected
    ELSE IF msg.type = "BREQ" THEN ParseRequest(msg)
    ELSE IF msg.type = "BRSP" THEN ParseResponse(msg)
    ELSE IF msg.type = "BERR" THEN ParseError(msg)
    ELSE Rejected

=============================================================================

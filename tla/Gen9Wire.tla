------------------------------ MODULE Gen9Wire ------------------------------
(***************************************************************************)
(* The G9XC codecs, gen9_cluster/protocol.py: the frame header and the     *)
(* payloads of a batch, of its rows, of a shard and of a hello.  Each      *)
(* decoder gives the message or Rejected, for whatever ValueError; the     *)
(* tests are those of the code, and the length of a payload decides most.  *)
(***************************************************************************)
EXTENDS Cells

CONSTANT MaxPayload   \* MAX_PAYLOAD, scaled down

\* Frame.encode and decode_header.
HeaderSize == 32
MsgTypes   == 1..14
DTypes     == 0..3

EncodeHeader(f) ==
    IF f.length > MaxPayload THEN Rejected
    ELSE Cell(4, "G9XC") \o Cell(1, 2) \o Cell(1, f.type) \o Cell(2, f.flags) \o Cell(4, f.request)
           \o Cell(2, f.layer) \o Cell(2, 0) \o Cell(4, 0) \o Cell(1, f.dtype) \o Cell(1, 0)
           \o Cell(2, 0) \o Cell(4, f.length) \o Cell(4, 0)

DecodeHeader(p) ==
    IF \/ Size(p) # HeaderSize
       \/ At(p, 0, 4) # "G9XC"
       \/ At(p, 4, 1) # 2
       \/ At(p, 24, 4) > MaxPayload
       \/ At(p, 5, 1) \notin MsgTypes
       \/ At(p, 20, 1) \notin DTypes
      THEN Rejected
      ELSE [type |-> At(p, 5, 1), flags |-> At(p, 6, 2), request |-> At(p, 8, 4),
            layer |-> At(p, 12, 2), dtype |-> At(p, 20, 1), length |-> At(p, 24, 4)]

-----------------------------------------------------------------------------
\* ExpertBatchPayload: counts, a presence byte, the id if there is one, then the
\* experts, their gates and the activation.
EncodeBatch(m) ==
    IF Len(m.ids) # Len(m.gates) THEN Rejected
    ELSE Cell(2, Len(m.ids)) \o Cell(4, Len(m.act))
           \o (IF m.batch = NoId THEN Cell(1, 0) ELSE Cell(1, 1) \o Cell(8, m.batch))
           \o Cells(2, m.ids) \o Cells(4, m.gates) \o Cells(4, m.act)

\* Fault: the activation is whatever is left of the payload.
LongEnough(p, needed) == Size(p) >= needed

\* The payload is as long as its counts say, to the byte.
Exactly(p, needed) == Size(p) = needed

DecodeBatch(p) ==
    LET n    == At(p, 0, 2)
        m    == At(p, 2, 4)
        has  == At(p, 6, 1)
        body == IF has = 1 THEN 15 ELSE 7
    IN  IF \/ Size(p) < 7
           \/ has \notin {0, 1}
           \/ Size(p) < body
           \/ ~Exactly(p, body + 6 * n + 4 * m)
           \/ n = 0
          THEN Rejected
          ELSE [ids   |-> Run(p, body, 2, n),
                gates |-> Run(p, body + 2 * n, 4, n),
                act   |-> Run(p, body + 6 * n, 4, m),
                batch |-> IF has = 1 THEN At(p, 7, 8) ELSE NoId]

-----------------------------------------------------------------------------
\* ExpertRowsPayload: __post_init__ wants a row per expert; all rows have one width.
EncodeRows(m) ==
    IF Len(m.rows) # Len(m.ids) THEN Rejected
    ELSE Cell(2, Len(m.rows)) \o Cell(4, Len(m.rows[1])) \o Cells(2, m.ids)
           \o FlattenSeq([i \in DOMAIN m.rows |-> Cells(4, m.rows[i])])

DecodeRows(p) ==
    LET n     == At(p, 0, 2)
        width == At(p, 2, 4)
    IN  IF Size(p) < 6 \/ ~Exactly(p, 6 + 2 * n + 4 * n * width) \/ n = 0
          THEN Rejected
          ELSE [ids  |-> Run(p, 6, 2, n),
                rows |-> [i \in 1..n |-> Run(p, 6 + 2 * n + 4 * width * (i - 1), 4, width)]]

-----------------------------------------------------------------------------
\* ShardHeader: fixed fields and the name of a tier; the shard's body follows.
EncodeShard(h) ==
    Cell(2, h.layer) \o Cell(2, h.first) \o Cell(2, h.n) \o Cell(4, h.hidden)
      \o Cell(4, h.inter) \o Cell(1, h.dtype) \o Cell(2, Len(h.tier)) \o Cells(1, h.tier)

DecodeShard(p) ==
    LET named == At(p, 15, 2)
    IN  IF Size(p) < 17 \/ Size(p) < 17 + named \/ At(p, 14, 1) \notin DTypes
          THEN Rejected
          ELSE [layer |-> At(p, 0, 2), first |-> At(p, 2, 2), n |-> At(p, 4, 2),
                hidden |-> At(p, 6, 4), inter |-> At(p, 10, 4), dtype |-> At(p, 14, 1),
                tier |-> Run(p, 17, 1, named)]

\* HelloPayload: numbers, then four texts with their lengths.  A text that ends early is
\* taken as far as it goes; only a missing length is an error.
EncodeHello(h) ==
    Cell(8, h.weight) \o Cell(8, h.fast) \o Cell(8, h.gflops) \o Cell(1, 2)
      \o FlattenSeq([i \in 1..4 |-> Cell(2, Len(h.texts[i])) \o Cells(1, h.texts[i])])

DecodeHello(p) ==
    LET next(a, k) ==
            IF ~a.ok \/ Size(p) < a.off + 2 THEN [a EXCEPT !.ok = FALSE]
            ELSE LET n    == At(p, a.off, 2)
                     text == SelectSeq(Run(p, a.off + 2, 1, n), LAMBDA v : v # Garbage)
                 IN  [a EXCEPT !.off = @ + 2 + n, !.texts = Append(@, text)]
        read == FoldLeft(next, [ok |-> Size(p) >= 25, off |-> 25, texts |-> <<>>], <<1, 2, 3, 4>>)
    IN  IF ~read.ok THEN Rejected
        ELSE [weight |-> At(p, 0, 8), fast |-> At(p, 8, 8), gflops |-> At(p, 16, 8),
              texts |-> read.texts]

=============================================================================

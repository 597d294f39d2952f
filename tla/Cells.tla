------------------------------- MODULE Cells -------------------------------
(***************************************************************************)
(* What struct.pack_into, unpack_from and len() do to a payload, for the   *)
(* codecs of both clusters: a payload is a sequence of cells, each a field *)
(* of w bytes with a value.  Reading at an offset where no field of that   *)
(* width begins gives Garbage: bytes of other fields.                      *)
(***************************************************************************)
EXTENDS Integers, Sequences, SequencesExt

CONSTANTS Garbage,   \* what is read where no field begins
          NoId       \* an id that is not there (None)

\* The outcome of a codec that raised.
Rejected == [raised |-> TRUE]

Cell(w, v)   == <<[w |-> w, v |-> v]>>
Cells(w, vs) == [i \in DOMAIN vs |-> [w |-> w, v |-> vs[i]]]

Size(p) == FoldLeft(LAMBDA n, c : n + c.w, 0, p)

Offset(p, i) == Size(SubSeq(p, 1, i - 1))

At(p, off, w) ==
    LET here == {i \in DOMAIN p : Offset(p, i) = off /\ p[i].w = w}
    IN  IF here = {} THEN Garbage ELSE p[CHOOSE i \in here : TRUE].v

\* n fields of w bytes from an offset on.
Run(p, off, w, n) == [i \in 1..n |-> At(p, off + w * (i - 1), w)]

\* The fields from an offset on.
From(p, off) == SelectSeq([i \in DOMAIN p |-> [c |-> p[i], at |-> Offset(p, i)]],
                          LAMBDA x : x.at >= off)
Rest(p, off) == LET r == From(p, off) IN [i \in DOMAIN r |-> r[i].c]

\* The first n bytes: a field they end in is torn.
Cut(p, n) ==
    LET kept == SelectSeq([i \in DOMAIN p |-> [c |-> p[i], end |-> Offset(p, i) + p[i].w]],
                          LAMBDA x : x.end <= n)
        whole == [i \in DOMAIN kept |-> kept[i].c]
    IN  IF Size(whole) = n THEN whole ELSE whole \o Cell(n - Size(whole), Garbage)

=============================================================================

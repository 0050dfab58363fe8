-------------------------------- MODULE Xdr --------------------------------
(***************************************************************************)
(* XdrWriter of xdr.ts: a record under construction.  Its own buffer grows *)
(* at the end, can be patched and cut back; large payloads are not copied  *)
(* into it but kept beside it, each with the offset where it belongs, and  *)
(* put in their places when the record is sent.                            *)
(*                                                                         *)
(* A buffer is a sequence of items, each [t |-> what it is, v |-> value],  *)
(* and an offset is the number of items before it.  Payloads are records   *)
(* [b |-> the application's buffer, n |-> its bytes].                      *)
(***************************************************************************)
EXTENDS Naturals, Sequences, SequencesExt, TLC

CONSTANT SpliceFrom  \* bytes from which a payload is not copied, 4096 in the code

Item(t, v) == [t |-> t, v |-> v]

\* A value as it is written.
Word(v) == ToString(v)

EmptyWriter == [own |-> <<>>, ext |-> <<>>]

Length(w) == Len(w.own)

Put(w, items) == [w EXCEPT !.own = @ \o items]

\* patchUint32 on the item at an offset.
Patch(w, offset, v) == [w EXCEPT !.own[offset + 1].v = v]

Bytes(parts) == FoldLeft(LAMBDA sum, p : sum + p.n, 0, parts)

\* The elements of a sequence that are in a set (SelectSeq has no definition that
\* proofs can use).
Those(s, S) == FoldRight(LAMBDA e, rest : IF e \in S THEN <<e>> \o rest ELSE rest, s, <<>>)

NotEmpty(parts) == Those(parts, {p \in ToSet(parts) : p.n > 0})
Copied(parts) == Bytes(parts) < SpliceFrom
Padding(parts) == IF Bytes(parts) % 4 = 0 THEN <<>> ELSE <<Item("pad", "0")>>
Payload(p) == Item("data", Word(p.b))

\* Mutant: the payload is kept at the offset of its length.
SpliceBefore(w, parts) ==
  LET sized == Put(w, <<Item("length", Word(Bytes(parts)))>>)
  IN Put(IF Copied(parts) THEN Put(sized, [i \in DOMAIN NotEmpty(parts) |-> Payload(NotEmpty(parts)[i])])
         ELSE [sized EXCEPT !.ext = @ \o [i \in DOMAIN NotEmpty(parts) |->
                                            [at |-> Length(w), p |-> NotEmpty(parts)[i]]]],
         Padding(parts))

\* opaqueVarExternalParts: the length, the payloads copied or kept for later, the
\* padding.
Splice(w, parts) ==
  LET sized == Put(w, <<Item("length", Word(Bytes(parts)))>>)
      full == NotEmpty(parts)
      kept == [i \in DOMAIN full |-> [at |-> Length(sized), p |-> full[i]]]
  IN Put(IF Copied(parts) THEN Put(sized, [i \in DOMAIN full |-> Payload(full[i])])
                          ELSE [sized EXCEPT !.ext = @ \o kept],
         Padding(parts))

\* The buffers opaqueVarExternalParts is done with: all when they were copied, the
\* empty ones when not.
Consumed(parts) ==
  {p.b : p \in {q \in ToSet(parts) : Copied(parts) \/ q.n = 0}}

\* truncate, which lets go of the payloads that belong behind the cut.
Truncate(w, length) ==
  [own |-> SubSeq(w.own, 1, length),
   ext |-> Those(w.ext, {e \in ToSet(w.ext) : e.at < length})]

\* The buffers truncate releases.
Dropped(w, length) == {e.p.b : e \in {x \in ToSet(w.ext) : x.at >= length}}

\* segments: the buffer with each payload put in at its offset, from the last on.
Segments(w) ==
  FoldRight(LAMBDA e, items : InsertAt(items, e.at + 1, Payload(e.p)), w.ext, w.own)

\* The buffers that are in the record and not the writer's own.
Spliced(w) == {e.p.b : e \in ToSet(w.ext)}
=============================================================================

------------------------------- MODULE Lineage -------------------------------
(***************************************************************************)
(* The ids of one lineage: resonate/src/ids.rs, and the ids context.rs     *)
(* mints with it.  An id is a sequence of tokens, the segments and the     *)
(* separators between them: <<"seq", n>> for the n-th call of a context,   *)
(* <<"d", raw>> for the hash of the id raw.  Two ids with one hash, of 64  *)
(* bits, are left out.  A root id is one segment or more, "." among them.  *)
(***************************************************************************)
EXTENDS Naturals, Sequences

OriginSep == <<":">>
LineageSep == <<".">>

HasOrigin(id) == \E k \in DOMAIN id : id[k] = OriginSep

\* Faulty: deeper segments join like the first one.
JoinFlat(ancestor, segment) == ancestor \o <<OriginSep, segment>>

JoinId(ancestor, segment) ==
    ancestor \o <<IF HasOrigin(ancestor) THEN LineageSep ELSE OriginSep, segment>>

\* The server's rule: id is ancestor, or lies below it.
Extends(id, ancestor) ==
    LET n == Len(ancestor)
    IN  \/ id = ancestor
        \/ /\ n < Len(id) /\ SubSeq(id, 1, n) = ancestor
           /\ id[n + 1] = IF HasOrigin(ancestor) THEN LineageSep ELSE OriginSep

\* Everything before the first ":".
OriginOf(id) ==
    IF HasOrigin(id)
    THEN LET first == CHOOSE k \in DOMAIN id :
                          /\ id[k] = OriginSep
                          /\ \A j \in DOMAIN id : id[j] = OriginSep => k <= j
         IN  SubSeq(id, 1, first - 1)
    ELSE id

\* The n-th call of the context of id.
NextId(id, n) == JoinId(id, <<"seq", n>>)

\* A detached call is a child of the origin, named by the id it would have had.
DetachedId(origin, raw) == JoinId(origin, <<"d", raw>>)
=============================================================================

------------------------- MODULE ResultNormalization -------------------------
(***************************************************************************)
(* What ResultPolling takes for granted, its Reports: how the counts of a  *)
(* message are got out of the provider's JSON reply, whose shape depends   *)
(* on the channel and is not documented.                                   *)
(*                                                                         *)
(* A JSON value is an object, an array or something else.  Of an object we *)
(* keep the Ketc1 it carries under any of its names and the three counts,  *)
(* each under the first of its names that holds a number, Null if there is *)
(* none.  in is what an object or an array holds, in order.                *)
(*                                                                         *)
(* The searches are recursive operators, for TLC only.                     *)
(***************************************************************************)
EXTENDS Integers, Sequences, SequencesExt

CONSTANT Null

Object(key, total, success, failed, in) ==
    [is |-> "object", key |-> key, total |-> total, success |-> success,
     failed |-> failed, in |-> in]
Array(in) == [is |-> "array", in |-> in]
Other == [is |-> "other", in |-> <<>>]

\* {}, what a reply that is no object is replaced by.
Empty == Object(Null, Null, Null, Null, <<>>)

IsObject(v) == v.is = "object"

HasCounts(v) == v.total # Null \/ v.success # Null \/ v.failed # Null

\* The first thing that was found among the items of an array, or the values
\* of an object.
FirstFound(results) ==
    LET hits == SelectSeq(results, LAMBDA x : x # Null)
    IN  IF hits = <<>> THEN Null ELSE Head(hits)

RECURSIVE FindWithCounts(_)
FindWithCounts(v) ==
    IF IsObject(v) /\ HasCounts(v) THEN v
    ELSE FirstFound([i \in DOMAIN v.in |-> FindWithCounts(v.in[i])])

RECURSIVE FindByKey(_, _)
FindByKey(v, key) ==
    IF IsObject(v) /\ v.key = key THEN v
    ELSE FirstFound([i \in DOMAIN v.in |-> FindByKey(v.in[i], key)])

Or(x, default) == IF x # Null THEN x ELSE default

\* The counts of the message itself, or the first ones there are, or none.
CountSource(json, key) ==
    LET matched == FindByKey(json, key) IN
    IF matched # Null /\ HasCounts(matched) THEN matched
    ELSE Or(FindWithCounts(json), IF IsObject(json) THEN json ELSE Empty)

Normalize(json, key) ==
    LET source == CountSource(json, key)
        success == Or(source.success, 0)
        failed == Or(source.failed, 0)
        total == Or(source.total, success + failed)
    IN  [found |-> /\ FindByKey(json, key) # Null \/ HasCounts(source)
                   /\ total > 0,
         total |-> total, success |-> success, failed |-> failed]

-----------------------------------------------------------------------------
(* What it amounts to.                                                     *)

\* All objects of a value, each before those inside it.
RECURSIVE Objects(_)
Objects(v) ==
    (IF IsObject(v) THEN <<v>> ELSE <<>>)
      \o FlattenSeq([i \in DOMAIN v.in |-> Objects(v.in[i])])

\* The counts that are taken are those of the first object with the key, if
\* it has any, else of the first object that has any, whosever they are.
TakesFirst(json, key) ==
    LET own == SelectSeq(Objects(json), LAMBDA o : o.key = key)
        counted == SelectSeq(Objects(json), HasCounts)
        taken == IF own # <<>> /\ HasCounts(own[1]) THEN own[1]
                 ELSE IF counted # <<>> THEN counted[1] ELSE Empty
        n == Normalize(json, key)
    IN  /\ n.success = Or(taken.success, 0)
        /\ n.failed = Or(taken.failed, 0)
        /\ n.total = Or(taken.total, n.success + n.failed)

\* Nothing is found without an object that has counts, and no counts without
\* a total above 0, a key or no key.
FindsOnlyCounts(json, key) ==
    Normalize(json, key).found =>
        /\ Normalize(json, key).total > 0
        /\ \E i \in DOMAIN Objects(json) : HasCounts(Objects(json)[i])
=============================================================================

--------------------------- MODULE MCResultPolling ---------------------------
(* Values for the constants of ResultPolling.                              *)
EXTENDS ResultPolling, ResultNormalization, TLC

CONSTANTS m1, m2, m3, k1, k2

\* What a reply may hold: an object without counts, or with some of them.
MCObject(key, in) ==
    {Object(key, Null, Null, Null, in), Object(key, 0, Null, Null, in),
     Object(key, 2, 1, 1, in), Object(key, Null, 1, Null, in),
     Object(key, Null, 0, 1, in)}
MCKeysIn == {k1, k2, Null}
MCLeaves == UNION {MCObject(key, <<>>) : key \in MCKeysIn} \union {Other}
\* Lists of one or two, ...
MCLists == {Array(in) : in \in UNION {[1 .. n -> MCLeaves] : n \in 0 .. 2}}
\* ... as they are, in an object, or in one that has the key or counts itself.
MCReplies ==
    MCLeaves \union MCLists
      \union UNION {MCObject(key, <<Other, list>>) : key \in {k1, Null}, list \in MCLists}

\* The searches find what a reader of all the objects would take.
ASSUME NormalizationAssumption ==
    \A json \in MCReplies : TakesFirst(json, k1) /\ FindsOnlyCounts(json, k1)

\* A reply as the provider's guide has it: the message's own object in a list.
MCReply(s, f) == Object(Null, Null, Null, Null, <<Array(<<Object(k1, s + f, s, f, <<>>)>>)>>)
Counts(json) ==
    LET n == Normalize(json, k1)
    IN  [total |-> n.total, success |-> n.success, failed |-> n.failed]

\* Under way, delivered, failed, and delivered in part.
MCReports ==
    {Counts(Object(k1, 1, Null, Null, <<>>)), Counts(MCReply(1, 0)), Counts(MCReply(0, 1)),
     Counts(MCReply(1, 1))}
\* The ones that differ in what is stored, for the longer runs.
MCReportsFew == {Counts(Object(k1, 1, Null, Null, <<>>)), Counts(MCReply(1, 0))}

\* Every message has a key and was sent with it as ketc1.
MCKeys == [m \in Messages |-> IF m = m1 THEN k1 ELSE k2]
\* m1 has no key: the request did not carry one.
MCKeyless == [m \in Messages |-> IF m = m1 THEN NoKey ELSE IF m = m2 THEN k1 ELSE k2]
\* Clients put an order number of their own in ketc1; m2 was sent without.
MCTagsCross == [m \in Messages |-> IF m = m1 THEN k2 ELSE NoKey]

\* The invocations of the callback are interchangeable.
MCSymmetry == Permutations(Jobs)
=============================================================================

------------------------------- MODULE Delta --------------------------------
(***************************************************************************)
(* Observation deltas: internal/wire/delta.go.  An observation is a JSON   *)
(* object, here a function from paths (non-empty sequences of keys) to     *)
(* labels: Object at a path that leads to an object, a leaf otherwise.     *)
(* The code walks objects by recursion; each operator below says what its  *)
(* walk arrives at, path by path (NestedDelta has the walks themselves).   *)
(***************************************************************************)
EXTENDS Naturals, Sequences

CONSTANTS
    MaxDepth,   \* deepest nesting of an observation (64 in the code)
    Nil         \* a nil observation, or no result

\* A leaf's value is opaque but for the nesting of its arrays, its height.
Leaf(x, height) == [kind |-> "leaf", value |-> x, height |-> height]
Object == [kind |-> "object", value |-> 0, height |-> 0]

\* The paths to p and to what p lies in.
Prefixes(p) == {SubSeq(p, 1, n) : n \in 1..Len(p)}
Above(p) == {SubSeq(p, 1, n) : n \in 1..Len(p) - 1}

Restricted(o, paths) == [p \in paths |-> o[p]]

\* What a function must satisfy to be an observation: only objects have fields.
IsObservation(o) ==
    /\ o = Restricted(o, DOMAIN o) /\ DOMAIN o # {}
    /\ \A p \in DOMAIN o :
         /\ p \in Seq(STRING) \ {<<>>} /\ o[p].height \in Nat
         /\ \A q \in Above(p) : q \in DOMAIN o /\ o[q] = Object

\* boundedObservation: the nesting is at most MaxDepth.
BoundedObservation(o) == \A p \in DOMAIN o : Len(p) + o[p].height <= MaxDepth

\* observationDiff, its result: every path on which next has something new.
Changes(old, next) ==
    LET new == {p \in DOMAIN next : p \notin DOMAIN old \/ old[p] # next[p]}
    IN Restricted(next, UNION {Prefixes(p) : p \in new})

\* observationDiff, its removed argument: the paths next no longer has, in
\* what is an object still.
Removals(old, next) ==
    {p \in DOMAIN old \ DOMAIN next : \A q \in Above(p) : q \in DOMAIN next /\ next[q] = Object}

\* observationGeneration: the core's generation, empty when there is none.
Generation(o) ==
    Restricted(o, {p \in DOMAIN o : <<"xray_stats", "generation">> \in Prefixes(p)})

FullDelta(base, next) == [base |-> base, full |-> TRUE, set |-> next, removed |-> {}]
PatchDelta(base, old, next) ==
    [base |-> base, full |-> FALSE, set |-> Changes(old, next), removed |-> Removals(old, next)]

\* Mutant: what disappeared is not sent.
MakeObservationDeltaKeeps(base, old, next) ==
    IF old = Nil THEN {FullDelta(base, next)}
    ELSE IF Generation(old) # Generation(next) THEN {FullDelta(base, next)}
    ELSE {FullDelta(base, next), [PatchDelta(base, old, next) EXCEPT !.removed = {}]}

\* MakeObservationDelta: the snapshot itself without a baseline or after a
\* change of generation; otherwise the patch, unless its encoding is no
\* shorter, which the keys alone do not decide.
MakeObservationDelta(base, old, next) ==
    IF old = Nil THEN {FullDelta(base, next)}
    ELSE IF Generation(old) # Generation(next) THEN {FullDelta(base, next)}
    ELSE {FullDelta(base, next), PatchDelta(base, old, next)}

\* mergeObservation: what set has, and of the target what set does not replace.
MergeObservation(target, set) ==
    LET kept == {p \in DOMAIN target : \A q \in Prefixes(p) \cap DOMAIN set : set[q] = Object}
    IN [p \in DOMAIN set \cup kept |-> IF p \in DOMAIN set THEN set[p] ELSE target[p]]

\* The removals, one after the other, in an order that is a map's and so any:
\* each finds its field, for which no removal may lie in another.
Removable(o, paths) ==
    \A p \in paths : p \in DOMAIN o /\ Len(p) <= MaxDepth /\ Above(p) \cap paths = {}
Without(o, paths) == Restricted(o, {p \in DOMAIN o : Prefixes(p) \cap paths = {}})

\* ApplyObservationDelta: the new observation, or Nil for its error.  An empty
\* set is left out of the encoding and arrives as nil.
ApplyObservationDelta(base, old, delta) ==
    IF delta.base # base \/ ~ BoundedObservation(delta.set) THEN Nil
    ELSE IF delta.full
    THEN IF DOMAIN delta.set # {} /\ delta.removed = {} THEN delta.set ELSE Nil
    ELSE IF old = Nil THEN Nil
    ELSE IF ~ Removable(old, delta.removed) THEN Nil
    ELSE LET next == MergeObservation(Without(old, delta.removed), delta.set) IN
         IF BoundedObservation(next) THEN next ELSE Nil

=============================================================================

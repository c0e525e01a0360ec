---------------------------- MODULE NestedDelta -----------------------------
(***************************************************************************)
(* The functions of internal/wire/delta.go as they are written: by         *)
(* recursion over nested objects.  An observation is a finite function     *)
(* from keys to values; a value is an object or a leaf, of which only the  *)
(* nesting of its arrays shows.  Delta has the same functions without      *)
(* recursion; MCControl compares the two.                                  *)
(***************************************************************************)
EXTENDS Naturals, Sequences, FiniteSets

CONSTANTS
    MaxDepth,   \* deepest nesting of an observation (64 in the code)
    Nil         \* a nil observation, or no result

Leaf(x, height) == [leaf |-> x, height |-> height]
Object(f) == [object |-> f]
IsObject(v) == "object" \in DOMAIN v

\* boundedObservation: the nesting is at most MaxDepth.
RECURSIVE BoundedValue(_, _)
BoundedValue(v, depth) ==
    IF IsObject(v)
    THEN depth <= MaxDepth /\ \A k \in DOMAIN v.object : BoundedValue(v.object[k], depth + 1)
    ELSE depth + v.height <= MaxDepth
BoundedObservation(o) == BoundedValue(Object(o), 0)

\* observationDiff, its result: what next sets, object by object.
RECURSIVE Changes(_, _)
Changes(old, next) ==
    LET both(k) == k \in DOMAIN old /\ IsObject(old[k]) /\ IsObject(next[k])
        patch(k) == Changes(old[k].object, next[k].object)
        kept == {k \in DOMAIN next :
                   /\ ~ (k \in DOMAIN old /\ old[k] = next[k])
                   /\ both(k) => DOMAIN patch(k) # {}} IN
    [k \in kept |-> IF both(k) THEN Object(patch(k)) ELSE next[k]]

\* observationDiff, its removed argument: the paths next no longer has.
RECURSIVE Removals(_, _, _)
Removals(old, next, path) ==
    {Append(path, k) : k \in DOMAIN old \ DOMAIN next}
      \cup UNION {Removals(old[k].object, next[k].object, Append(path, k)) :
                    k \in {j \in DOMAIN old \cap DOMAIN next :
                             /\ old[j] # next[j]
                             /\ IsObject(old[j]) /\ IsObject(next[j])}}

\* observationGeneration: the core's generation, or Nil.
Generation(o) ==
    IF "xray_stats" \notin DOMAIN o THEN Nil
    ELSE LET stats == o["xray_stats"] IN
         IF IsObject(stats) /\ "generation" \in DOMAIN stats.object
         THEN stats.object["generation"] ELSE Nil

\* mergeObservation.
RECURSIVE MergeObservation(_, _)
MergeObservation(target, set) ==
    [k \in DOMAIN target \cup DOMAIN set |->
       IF k \notin DOMAIN set THEN target[k]
       ELSE IF k \in DOMAIN target /\ IsObject(target[k]) /\ IsObject(set[k])
            THEN Object(MergeObservation(target[k].object, set[k].object))
            ELSE set[k]]

\* One removal: every parent on the path and the field itself exist.
RECURSIVE HasPath(_, _)
HasPath(o, path) ==
    /\ path # <<>> /\ Len(path) <= MaxDepth
    /\ Head(path) \in DOMAIN o
    /\ Len(path) > 1 => IsObject(o[Head(path)]) /\ HasPath(o[Head(path)].object, Tail(path))

RECURSIVE Without(_, _)
Without(o, path) ==
    IF Len(path) = 1 THEN [k \in DOMAIN o \ {Head(path)} |-> o[k]]
    ELSE [o EXCEPT ![Head(path)] = Object(Without(@.object, Tail(path)))]

-----------------------------------------------------------------------------
\* The same observation as Delta has it: the label at every path.
RECURSIVE PathsOf(_)
PathsOf(o) ==
    UNION {{<<k>>} \cup (IF IsObject(o[k]) THEN {<<k>> \o p : p \in PathsOf(o[k].object)} ELSE {}) :
             k \in DOMAIN o}

RECURSIVE ValueAt(_, _)
ValueAt(o, path) ==
    IF Len(path) = 1 THEN o[Head(path)] ELSE ValueAt(o[Head(path)].object, Tail(path))

=============================================================================

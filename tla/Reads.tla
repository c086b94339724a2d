------------------------------- MODULE Reads --------------------------------
(***************************************************************************)
(* The reads of src/betree.rs over an arena: get, which walks down, and    *)
(* scan, which clips its range on the way down and folds messages on the   *)
(* way up.  Neither changes the tree.                                      *)
(***************************************************************************)
EXTENDS Nodes

(* Where a read leaves node n for key k: nowhere at a leaf, nor at a node  *)
(* that has lost its children and is about to be unlinked.                 *)
AtEnd(n) == n.leaf \/ n.children = <<>>

Child(n, k) == n.children[route(n.pivots, k)]

Get(ns, r, k) ==
    LET walk[i \in DOMAIN ns] == [chain \in Numbers \cup {NoValue} |->
            LET n == ns[i]
                below(c) == IF AtEnd(n) THEN apply_chain(c, NoValue) ELSE walk[Child(n, k)][c]
            IN IF n.leaf THEN apply_chain(chain, ValueIn(n.entries, k))
               ELSE IF k \notin DOMAIN n.buffer THEN below(chain)
               ELSE CASE n.buffer[k].kind = "Put" -> apply_chain(chain, n.buffer[k].value)
                      [] n.buffer[k].kind = "Delete" -> apply_chain(chain, NoValue)
                      [] n.buffer[k].kind = "Upsert" -> below(ChainAdd(chain, n.buffer[k].delta))]
    IN walk[r][NoValue]

-----------------------------------------------------------------------------
(* Bounds of a scan                                                        *)

Unbounded == [kind |-> "Unbounded"]
Included(k) == [kind |-> "Included", key |-> k]
Excluded(k) == [kind |-> "Excluded", key |-> k]

Bounds(S) == {Unbounded} \cup [kind : {"Included", "Excluded"}, key : S]

Above(k, lo) == CASE lo.kind = "Unbounded" -> TRUE
                  [] lo.kind = "Included" -> lo.key <= k
                  [] lo.kind = "Excluded" -> lo.key < k
Under(k, hi) == CASE hi.kind = "Unbounded" -> TRUE
                  [] hi.kind = "Included" -> k <= hi.key
                  [] hi.kind = "Excluded" -> k < hi.key

(* What BTreeMap::range gives.                                             *)
InRange(f, lo, hi) == RestrictDomain(f, LAMBDA k : Above(k, lo) /\ Under(k, hi))

range_is_empty(lo, hi) ==
    /\ lo # Unbounded /\ hi # Unbounded
    /\ \/ lo.key > hi.key
       \/ lo.key = hi.key /\ (lo.kind = "Excluded" \/ hi.kind = "Excluded")

(* Faulty: the pivot itself falls between two children.                    *)
clip_lower_strict(lo, pivot) ==
    IF lo # Unbounded /\ lo.key >= pivot THEN lo ELSE Excluded(pivot)

clip_lower(lo, pivot) ==
    IF lo # Unbounded /\ lo.key >= pivot THEN lo ELSE Included(pivot)

clip_upper(hi, pivot) ==
    IF hi # Unbounded /\ hi.key < pivot THEN hi ELSE Excluded(pivot)

(* The messages of one node, folded onto what its children returned.       *)
Fold(buffer, acc) ==
    LET value == [k \in DOMAIN buffer |->
                    Effect(buffer[k], IF k \in DOMAIN acc THEN acc[k] ELSE NoValue)]
        gone == {k \in DOMAIN buffer : value[k] = NoValue}
    IN [k \in (DOMAIN acc \cup DOMAIN buffer) \ gone |->
           IF k \in DOMAIN buffer THEN value[k] ELSE acc[k]]

Union(fs) == [k \in UNION {DOMAIN f : f \in fs} |-> (CHOOSE f \in fs : k \in DOMAIN f)[k]]

(* The part of a range that the j-th child of n is asked for.              *)
ChildLow(n, lo, j) == IF j = 1 THEN lo ELSE clip_lower(lo, n.pivots[j - 1])

ChildHigh(n, hi, j) == IF j = Len(n.children) THEN hi ELSE clip_upper(hi, n.pivots[j])

Visited(n, lo, hi) ==
    {j \in DOMAIN n.children : ~range_is_empty(ChildLow(n, lo, j), ChildHigh(n, hi, j))}

Scan(ns, r, low, high) ==
    LET scan[i \in DOMAIN ns] == [lo \in Bounds(Nat) |-> [hi \in Bounds(Nat) |->
            LET n == ns[i]
            IN IF n.leaf THEN InRange([k \in DOMAIN n.entries |-> n.entries[k].value], lo, hi)
               ELSE Fold(InRange(n.buffer, lo, hi),
                         Union({scan[n.children[j]][ChildLow(n, lo, j)][ChildHigh(n, hi, j)]
                                : j \in Visited(n, lo, hi)}))]]
    IN IF range_is_empty(low, high) THEN Empty ELSE scan[r][low][high]
=============================================================================

--------------------------- MODULE InputMatching ---------------------------
(***************************************************************************)
(* How the history pairs the inputs a block spends with the change outputs *)
(* it creates: every change output states what its transaction cost (the   *)
(* amount sent, the change and the fee), and a depth first search looks    *)
(* for spent inputs that add up to it (solve_back_track).                  *)
(*                                                                         *)
(* nums gives the value of each input and targets the cost stated by each  *)
(* change output.  Where the code sorts, here the next element is one of   *)
(* the largest, or of the smallest, of those that are left: which of equal *)
(* ones comes first is open, as in an unstable sort.  An Option is a set   *)
(* with at most one element.                                               *)
(***************************************************************************)
EXTENDS Naturals, FiniteSets, FiniteSetsExt

(* Sum of the values of a set of inputs.                                   *)
Total(nums, inputs) == MapThenSumSet(LAMBDA i : nums[i], inputs)

(* The candidate that is tried next: largest value first.                  *)
NextInput(nums, left) == CHOOSE i \in left : \A j \in left : nums[j] <= nums[i]

(* The output that is served next: smallest target first.                  *)
NextTarget(targets, left) == CHOOSE k \in left : \A j \in left : targets[k] <= targets[j]

-----------------------------------------------------------------------------
(* Faulty variants of definitions below.                                   *)

(* The branch that skips an input is forgotten: greedy, no backtracking.   *)
FaultGreedy(nums, candidates, target) ==
    LET search[left \in SUBSET candidates] == [current \in 0 .. target |->
          IF current = target THEN {{}}
          ELSE IF left = {} THEN {}
          ELSE LET n == NextInput(nums, left)
               IN IF current + nums[n] <= target
                    THEN {s \cup {n} : s \in search[left \ {n}][current + nums[n]]}
                    ELSE search[left \ {n}][current]]
    IN search[candidates][0]

(* A sum above the target is taken too.                                    *)
FaultOvershoot(nums, candidates, target) ==
    LET search[left \in SUBSET candidates] == [current \in 0 .. target + Total(nums, candidates) |->
          IF current >= target THEN {{}}
          ELSE IF left = {} THEN {}
          ELSE LET n == NextInput(nums, left)
               IN {s \cup {n} : s \in search[left \ {n}][current + nums[n]]}]
    IN search[candidates][0]

-----------------------------------------------------------------------------
(* back_track: candidates that add up to the target, from `current` on.    *)
(* An input is taken if it fits, and skipped if that leads nowhere; what   *)
(* is left (the suffix sum) must reach the target.                         *)
back_track(nums, candidates, target) ==
    LET search[left \in SUBSET candidates] == [current \in 0 .. target |->
          IF current = target THEN {{}}
          ELSE IF left = {} \/ current + Total(nums, left) < target THEN {}
          ELSE LET n     == NextInput(nums, left)
                   rest  == search[left \ {n}]
                   taken == IF current + nums[n] <= target
                              THEN {s \cup {n} : s \in rest[current + nums[n]]} ELSE {}
               IN IF taken # {} THEN taken ELSE rest[current]]
    IN search[candidates][0]

(* The inputs of the pool that pay for one target, if the search finds     *)
(* any.                                                                    *)
backtrack_subset(pool, nums, target) ==
    back_track(nums, {i \in pool : nums[i] <= target}, target)

(* What is left in the pool for the outputs that follow.                   *)
retain(pool, used) == pool \ used

(* The inputs of each output, none if there was no solution.               *)
solve_back_track(nums, targets) ==
    LET solve[left \in SUBSET DOMAIN targets] == [remaining \in SUBSET DOMAIN nums |->
          IF left = {} THEN [k \in DOMAIN targets |-> {}]
          ELSE LET k    == NextTarget(targets, left)
                   used == UNION backtrack_subset(remaining, nums, targets[k])
               IN [solve[left \ {k}][retain(remaining, used)] EXCEPT ![k] = used]]
    IN solve[DOMAIN targets][DOMAIN nums]
-----------------------------------------------------------------------------
(* What the search promises                                                *)

(* The inputs found for a change output add up to exactly what its         *)
(* transaction cost, or there are none, and no input pays for two change   *)
(* outputs of a block.                                                     *)
IsSound(nums, targets) ==
    LET solution == solve_back_track(nums, targets) IN
    \A k \in DOMAIN targets :
        /\ solution[k] # {} => Total(nums, solution[k]) = targets[k]
        /\ \A j \in DOMAIN targets \ {k} : solution[j] \cap solution[k] = {}

(* The pruning by suffix sums, the filter on large inputs and the order of *)
(* candidates lose no solution: an output is left without inputs only if   *)
(* no set of the inputs adds up that is left when the outputs that cost no *)
(* more are served.                                                        *)
IsComplete(nums, targets) ==
    LET solution  == solve_back_track(nums, targets)
        served(k) == {j \in DOMAIN targets : targets[j] <= targets[k]} IN
    \A k \in DOMAIN targets :
        solution[k] = {} =>
            \A s \in SUBSET (DOMAIN nums \ UNION {solution[j] : j \in served(k)}) :
                Total(nums, s) # targets[k]
=============================================================================
